------------------------------ MODULE ReactionRoute ------------------------------
(***************************************************************************)
(* The structured reaction route (src/src/npcStructuredReactionRoute.mjs)  *)
(* over the coordinator it owns.  An execution plans a reaction to what    *)
(* the player has said, asks the provider for a candidate up to            *)
(* MaxAttempts times, and ends once: committed, or with one of the ends of *)
(* the coordinator.  It is suspended in two places only, while the         *)
(* provider works and while a back-off runs; a timer, a cancellation, a    *)
(* reset or another execution comes in there and nowhere else.  The states *)
(* between two suspensions (Running) are steps of one synchronous run.     *)
(*                                                                         *)
(* The authority is what the route sees of it: the statement that may be   *)
(* answered now, and which execution committed an answer.  Its second read *)
(* and the version check of the commit follow the first read without a     *)
(* suspension, see the same state, and are left out, as is convergeReplay: *)
(* only this route commits, so its execution never meets another's commit. *)
(* Timers fire in the order they are due, and any time later.              *)
(***************************************************************************)
EXTENDS ReactionCoordinator

CONSTANTS
    Triggers,    \* statements of the player, 1..n, in the order they are made
    Deadline,    \* logicalDeadlineMs
    Backoff,     \* backoffDelaysMs
    Budget       \* what must be left of the deadline for another attempt

ASSUME TimesAssumption ==
    /\ Deadline \in Nat /\ Budget \in 1..Deadline
    /\ \A n \in 1..(MaxAttempts - 1) : Backoff[n] \in Nat \ {0}

(* Plans are numbered as the requests they answer are, and an attempt is   *)
(* named by its plan and its ordinal.                                      *)
ASSUME NamesAssumption ==
    /\ Plans \subseteq Nat /\ Plans \subseteq Requests
    /\ MaxAttempts > 0 /\ AttemptIds = Plans \X (1..MaxAttempts)
    /\ Triggers \subseteq Nat \ {0}
    /\ NonCommitStatuses = {"rejected", "superseded", "cancelled", "exhausted"}

Points == {"loop", "backoff", "resumed", "attempting", "received", "validated", "done"}
Ends   == NonCommitStatuses \union {"committed", "replayed"}

Roots == Nat \X [Plans -> Logicals \union {None}] \X [AttemptIds -> Attempts \union {None}]
             \X [Plans -> Nat \union {None}] \X [Plans -> Tombstones \union {None}]

(* An execution; source is the root it found.                              *)
Operations == [trigger : Triggers, point : Points, attempts : 0..MaxAttempts,
               winner : Ends \union {None}, due : Nat, generation : Nat,
               source : Roots \union {None}]

ASSUME NoneOfRouteAssumption == None \notin Operations \union Ends

VARIABLES
    operation,       \* the executions, by the number of their plan
    active,          \* the execution the route is busy with
    generation,
    reset,
    pendingCleanup,  \* executions whose cleanup failed
    elapsed,         \* time since the active execution began, else 0
    spoken,          \* how many statements the player has made
    applicable,      \* the one that may be answered
    committedBy      \* the execution that committed an answer to each

root == <<nextTerminalOrder, logicalReactions, reactionAttempts,
          terminalSlotReservations, reactionTombstones>>
authority == <<spoken, applicable, committedBy>>
routeVars == <<root, operation, active, generation, reset, pendingCleanup, elapsed, authority>>

Exists(op)     == operation[op] # None
Unfinished(op) == Exists(op) /\ operation[op].winner = None
At(op, point)  == Exists(op) /\ operation[op].point = point
IsCurrent(op)  == active = op /\ operation[op].generation = generation /\ ~reset

(* The thread of the program is inside the route.                          *)
Running == \E op \in Plans : \E point \in {"loop", "resumed", "received", "validated"} :
              At(op, point)

CurrentAttempt(op) == <<op, operation[op].attempts>>
HasAttempt(op)     == operation[op].attempts > 0
AttemptStatus(op)  == reactionAttempts[CurrentAttempt(op)].status

RouteInit ==
    /\ Init
    /\ operation = [op \in Plans |-> None]
    /\ active = None /\ generation = 0 /\ reset = FALSE
    /\ pendingCleanup = {} /\ elapsed = 0
    /\ spoken = 0 /\ applicable = None
    /\ committedBy = [t \in Triggers |-> None]

-----------------------------------------------------------------------------
(* The world of the route *)

PlayerSpeaks ==
    /\ ~Running /\ spoken + 1 \in Triggers
    /\ spoken' = spoken + 1 /\ applicable' = spoken + 1
    /\ UNCHANGED <<root, operation, active, generation, reset, pendingCleanup, elapsed, committedBy>>

(* Another change of the state of the game overtakes the statement.        *)
StateMovesOn ==
    /\ ~Running /\ applicable # None
    /\ applicable' = None
    /\ UNCHANGED <<root, operation, active, generation, reset, pendingCleanup, elapsed,
                   spoken, committedBy>>

Tick ==
    /\ active # None /\ elapsed <= Deadline
    /\ Running => At(active, "loop")
    /\ elapsed' = elapsed + 1
    /\ UNCHANGED <<root, operation, active, generation, reset, pendingCleanup, authority>>

-----------------------------------------------------------------------------
(* The end of an execution *)

(* terminalFailure: the running attempt is ended as said, or left to the   *)
(* coordinator (None), and then the reaction.                              *)
EndInRoot(op, status, attemptStatus) ==
    EndReaction(op, status, None, [a \in logicalReactions[op].attemptIds |->
        IF a = CurrentAttempt(op) /\ attemptStatus # None THEN attemptStatus ELSE Settled(a)])

(* Defect: the route is not freed.                                         *)
HoldOn(op) == UNCHANGED <<active, elapsed>>

(* Defect: the route is freed whoever holds it.                            *)
ReleaseAnyone(op) == active' = None /\ elapsed' = 0

(* The finally clause of executeStructuredReaction.                        *)
Release(op) ==
    \/ active = op /\ active' = None /\ elapsed' = 0
    \/ active # op /\ UNCHANGED <<active, elapsed>>

Finish(op, winner) ==
    /\ operation' = [operation EXCEPT ![op].winner = winner, ![op].point = "done",
                                      ![op].source = None]
    /\ Release(op)

Fail(op, status, attemptStatus) ==
    /\ EndInRoot(op, status, attemptStatus)
    /\ Finish(op, status)
    /\ UNCHANGED <<generation, reset, pendingCleanup, authority>>

(* Defect: the attempt has timed out, whatever it was doing.               *)
AlwaysTimedOut(op) == IF HasAttempt(op) THEN "timed_out" ELSE None

AtDeadline(op) ==
    IF ~HasAttempt(op) THEN None
    ELSE CASE AttemptStatus(op) = "attempting" -> "timed_out"
           [] AttemptStatus(op) \in {"candidate_received", "validated"} -> "aborted"
           [] OTHER -> None

AtCancel(op) ==
    IF HasAttempt(op) /\ AttemptStatus(op) \notin EndStatuses THEN "aborted" ELSE None

AtRecovery(op) ==
    IF ~HasAttempt(op) \/ AttemptStatus(op) \in EndStatuses THEN None
    ELSE IF AttemptStatus(op) = "attempting" THEN "aborted" ELSE "rejected"

-----------------------------------------------------------------------------
(* executeStructuredReaction, up to its first attempt.  An execution that  *)
(* finds another one active, an answer committed, or a statement overtaken *)
(* returns at once and changes nothing.                                    *)
Execute(t, op) ==
    /\ ~reset /\ ~Running
    /\ active = None
    /\ applicable = t
    /\ \A p \in Plans : Exists(p) <=> p < op
    /\ CreatePlanned(op, op, MaxAttempts)
    /\ operation' = [operation EXCEPT ![op] =
         [trigger |-> t, point |-> "loop", attempts |-> 0, winner |-> None, due |-> 0,
          generation |-> generation + 1, source |-> root]]
    /\ generation' = generation + 1
    /\ active' = op
    /\ elapsed' = 0
    /\ UNCHANGED <<reset, pendingCleanup, authority>>

Delay(op) == IF HasAttempt(op) THEN Backoff[operation[op].attempts] ELSE 0
HasBudget(op) == Deadline - elapsed >= Delay(op) + Budget
MayRetry(op)  == operation[op].attempts < MaxAttempts /\ HasBudget(op)

OutOfTime(op) ==
    /\ At(op, "loop") /\ ~HasBudget(op)
    /\ Fail(op, "exhausted", None)

WaitBackoff(op) ==
    /\ At(op, "loop") /\ HasAttempt(op) /\ HasBudget(op)
    /\ operation' = [operation EXCEPT ![op].point = "backoff", ![op].due = elapsed + Delay(op)]
    /\ UNCHANGED <<root, active, generation, reset, pendingCleanup, elapsed, authority>>

BackoffFires(op) ==
    /\ ~Running
    /\ At(op, "backoff") /\ elapsed >= operation[op].due
    /\ IsCurrent(op) /\ Unfinished(op)
    /\ operation' = [operation EXCEPT ![op].point = "resumed", ![op].due = 0]
    /\ UNCHANGED <<root, active, generation, reset, pendingCleanup, elapsed, authority>>

MayStart(op) ==
    \/ At(op, "resumed")
    \/ At(op, "loop") /\ ~HasAttempt(op) /\ HasBudget(op)

StartAttempt(op) ==
    /\ MayStart(op)
    /\ CreateAttempt(op, <<op, operation[op].attempts + 1>>)
    /\ operation' = [operation EXCEPT ![op].point = "attempting", ![op].attempts = @ + 1]
    /\ UNCHANGED <<active, generation, reset, pendingCleanup, elapsed, authority>>

(* An identity that collides, or a request that cannot be built.           *)
AttemptCannotStart(op) ==
    /\ MayStart(op)
    /\ Fail(op, "rejected", None)

-----------------------------------------------------------------------------
(* The provider answers *)

Awaits(op) == ~Running /\ At(op, "attempting")

TakesAnswer(op) == Awaits(op) /\ Unfinished(op) /\ IsCurrent(op)

ProviderFailsForNow(op, status) ==
    /\ TakesAnswer(op) /\ MayRetry(op)
    /\ TerminalizeAttempt(op, CurrentAttempt(op), status)
    /\ operation' = [operation EXCEPT ![op].point = "loop"]
    /\ UNCHANGED <<active, generation, reset, pendingCleanup, elapsed, authority>>

(* A failure that is not retryable, or comes too late to retry.            *)
ProviderFails(op, status) ==
    /\ TakesAnswer(op)
    /\ Fail(op, "exhausted", status)

TransportInvalid(op) ==
    /\ TakesAnswer(op)
    /\ Fail(op, "rejected", "failed")

CandidateArrives(op) ==
    /\ TakesAnswer(op)
    /\ ReceiveCandidate(op, CurrentAttempt(op))
    /\ operation' = [operation EXCEPT ![op].point = "received"]
    /\ UNCHANGED <<active, generation, reset, pendingCleanup, elapsed, authority>>

(* The answer, or the refusal of the aborted call, comes after the end.    *)
AnswerIsLate(op) ==
    /\ Awaits(op) /\ ~(Unfinished(op) /\ IsCurrent(op))
    /\ operation' = [operation EXCEPT ![op].point = "done", ![op].source = None]
    /\ Release(op)
    /\ UNCHANGED <<root, generation, reset, pendingCleanup, authority>>

-----------------------------------------------------------------------------
(* The candidate is examined, prepared and committed *)

(* Defect: the authority is not read again after the wait.                 *)
StillBound(op) == At(op, "received")

StillApplies(op) == At(op, "received") /\ applicable = operation[op].trigger

CandidateIsStale(op) ==
    /\ At(op, "received") /\ applicable # operation[op].trigger
    /\ Fail(op, "superseded", "aborted")

CandidateValidated(op, f) ==
    /\ StillApplies(op)
    /\ ObserveCandidate(op, CurrentAttempt(op), f)
    /\ operation' = [operation EXCEPT ![op].point = "validated"]
    /\ UNCHANGED <<active, generation, reset, pendingCleanup, elapsed, authority>>

(* The validation, the preparation or the commit refuses or throws.        *)
CandidateRejected(op) ==
    /\ StillApplies(op) \/ At(op, "validated")
    /\ Fail(op, "rejected", "rejected")

(* recoverUnexpectedOperation, when no commit of this execution is found.  *)
AuthorityThrows(op) ==
    /\ At(op, "received") \/ At(op, "validated")
    /\ EndInRoot(op, "rejected", AtRecovery(op))
    /\ Finish(op, "rejected")
    /\ generation' = generation + 1
    /\ UNCHANGED <<reset, pendingCleanup, authority>>

CommitInAuthority(op) ==
    /\ At(op, "validated")
    /\ committedBy' = [committedBy EXCEPT ![operation[op].trigger] = op]
    /\ applicable' = None
    /\ UNCHANGED spoken

Commit(op) ==
    /\ CommitInAuthority(op)
    /\ CleanupCommitted(op, CurrentAttempt(op))
    /\ Finish(op, "committed")
    /\ UNCHANGED <<generation, reset, pendingCleanup>>

(* Defect: a cleanup that failed is not remembered.                        *)
CommitForgetsCleanup(op) ==
    /\ CommitInAuthority(op)
    /\ Finish(op, "committed")
    /\ UNCHANGED <<root, generation, reset, pendingCleanup>>

(* The cleanup refuses the handoff: the commit stands, the reaction stays. *)
CommitWithoutCleanup(op) ==
    /\ CommitInAuthority(op)
    /\ pendingCleanup' = pendingCleanup \union {op}
    /\ Finish(op, "committed")
    /\ UNCHANGED <<root, generation, reset>>

RestoreRoot(source) ==
    /\ nextTerminalOrder' = source[1]
    /\ logicalReactions' = source[2]
    /\ reactionAttempts' = source[3]
    /\ terminalSlotReservations' = source[4]
    /\ reactionTombstones' = source[5]

(* The answer to the commit is malformed: recoverUnexpectedOperation finds *)
(* the commit and puts back the root of before the execution.              *)
CommitAnswerMalformed(op) ==
    /\ CommitInAuthority(op)
    /\ RestoreRoot(operation[op].source)
    /\ Finish(op, "replayed")
    /\ generation' = generation + 1
    /\ UNCHANGED <<reset, pendingCleanup>>

(* retryPendingCoordinatorCleanup, called from outside.  A retry of one    *)
(* that was done changes nothing, and the authority still has the commit.  *)
RetryCleanup(op) ==
    /\ ~reset /\ ~Running
    /\ op \in pendingCleanup
    /\ committedBy[operation[op].trigger] = op
    /\ CleanupCommitted(op, CurrentAttempt(op))
    /\ pendingCleanup' = pendingCleanup \ {op}
    /\ UNCHANGED <<operation, active, generation, reset, elapsed, authority>>

-----------------------------------------------------------------------------
(* The deadline, a cancellation and a reset: they end the reaction and     *)
(* abort the provider, and the execution returns when the provider does.   *)

EndFromOutside(op, status, attemptStatus) ==
    /\ EndInRoot(op, status, attemptStatus)
    /\ operation' = [operation EXCEPT ![op].winner = status]

DeadlineFires(op) ==
    /\ ~Running
    /\ active = op /\ IsCurrent(op) /\ Unfinished(op)
    /\ elapsed >= Deadline
    /\ ~At(op, "backoff")
    /\ EndFromOutside(op, "exhausted", AtDeadline(op))
    /\ UNCHANGED <<active, generation, reset, pendingCleanup, elapsed, authority>>

Cancel(t) ==
    /\ ~reset /\ ~Running
    /\ \E op \in Plans :
         /\ active = op /\ operation[op].trigger = t /\ Unfinished(op)
         /\ EndFromOutside(op, "cancelled", AtCancel(op))
    /\ generation' = generation + 1
    /\ active' = None /\ elapsed' = 0
    /\ UNCHANGED <<reset, pendingCleanup, authority>>

ResetRoute ==
    /\ ~reset /\ ~Running
    /\ reset' = TRUE
    /\ \/ \E op \in Plans :
            /\ active = op /\ Unfinished(op)
            /\ EndFromOutside(op, "cancelled", AtCancel(op))
            /\ generation' = generation + 2
       \/ /\ \A op \in Plans : active = op => ~Unfinished(op)
          /\ generation' = generation + 1
          /\ UNCHANGED <<root, operation>>
    /\ active' = None /\ elapsed' = 0
    /\ pendingCleanup' = {}
    /\ UNCHANGED authority

-----------------------------------------------------------------------------
OwnStep(op) ==
    \/ OutOfTime(op) \/ WaitBackoff(op) \/ StartAttempt(op) \/ AttemptCannotStart(op)
    \/ CandidateIsStale(op) \/ CandidateRejected(op) \/ AuthorityThrows(op)
    \/ \E f \in Fingerprints : CandidateValidated(op, f)
    \/ Commit(op) \/ CommitWithoutCleanup(op) \/ CommitAnswerMalformed(op)

ProviderStep(op) ==
    \/ \E status \in {"failed", "timed_out"} : ProviderFailsForNow(op, status)
    \/ \E status \in {"failed", "timed_out", "aborted"} : ProviderFails(op, status)
    \/ TransportInvalid(op) \/ CandidateArrives(op)

RouteNext ==
    \/ PlayerSpeaks \/ StateMovesOn \/ Tick \/ ResetRoute
    \/ \E t \in Triggers : Cancel(t) \/ \E op \in Plans : Execute(t, op)
    \/ \E op \in Plans :
         OwnStep(op) \/ ProviderStep(op) \/ AnswerIsLate(op)
         \/ BackoffFires(op) \/ DeadlineFires(op) \/ RetryCleanup(op)

(* The program runs on, the clock too, a timer that is due fires, and a    *)
(* call that was aborted returns.  The provider may stay silent for ever.  *)
RouteFairness ==
    /\ WF_routeVars(Tick)
    /\ \A op \in Plans :
         /\ WF_routeVars(OwnStep(op))
         /\ WF_routeVars(BackoffFires(op))
         /\ WF_routeVars(DeadlineFires(op))
         /\ WF_routeVars(AnswerIsLate(op))

RouteSpec == RouteInit /\ [][RouteNext]_routeVars /\ RouteFairness

-----------------------------------------------------------------------------
(* Properties *)

(* Every variable has its kind, and an execution names a statement and     *)
(* never more attempts than it may make.                                   *)
RouteTypeOK ==
    /\ operation \in [Plans -> Operations \union {None}]
    /\ active \in Plans \union {None}
    /\ generation \in Nat /\ reset \in BOOLEAN /\ elapsed \in Nat
    /\ pendingCleanup \subseteq Plans
    /\ spoken \in {0} \union Triggers /\ applicable \in Triggers \union {None}
    /\ committedBy \in [Triggers -> Plans \union {None}]

(* Whatever ends an execution - deadline, cancellation, reset, provider,   *)
(* refusal or an exception - names an end of its attempt the coordinator's *)
(* table allows in that state.  Otherwise terminalFailure throws           *)
(* invalid_npc_structured_cross_root_graph and the reaction stays live.    *)
CoordinatorAccepts ==
    \A op \in Plans : Unfinished(op) =>
        LET allowed == IF HasAttempt(op) THEN MayEndAs(AttemptStatus(op)) ELSE {} IN
        /\ IsLive(op) /\ (HasAttempt(op) => IsActive(op))
        /\ {AtDeadline(op), AtCancel(op), AtRecovery(op)} \subseteq allowed \union {None}
        /\ At(op, "attempting") => {"failed", "timed_out", "aborted"} \subseteq allowed
        /\ At(op, "received") \/ At(op, "validated") => {"rejected", "aborted"} \subseteq allowed
        /\ MayStart(op) => AttemptsLeft(op)

RootPutBackBy(op, p) == p > op /\ Exists(p) /\ operation[p].winner = "replayed"

(* The route, its coordinator and the authority tell one story of every    *)
(* execution: it has committed exactly if the authority says so, its       *)
(* tombstone names the end it returns, and it is live exactly while it has *)
(* no end, or has committed and its cleanup is still owed.  A cleanup done *)
(* while a later execution runs is undone if that one puts back the root   *)
(* of before it, and no one owes it any more.                              *)
EndsAgree ==
    \A op \in Plans : Exists(op) =>
        LET winner == operation[op].winner IN
        /\ winner \in {"committed", "replayed"} <=> \E t \in Triggers : committedBy[t] = op
        /\ IsEnded(op) => reactionTombstones[op].terminalStatus = winner
        /\ winner = None => IsLive(op)
        /\ IsLive(op) => \/ winner = None
                         \/ winner = "committed" /\ (op \in pendingCleanup \/ reset)
                         \/ winner = "committed" /\ \E p \in Plans : RootPutBackBy(op, p)

(* No execution that still has to end is forgotten: it is the active one,  *)
(* so cancellation, reset and the next execution find it, also when a      *)
(* cancelled predecessor returns late.                                     *)
UnfinishedIsActive ==
    /\ \A op \in Plans : Unfinished(op) => active = op /\ IsCurrent(op)
    /\ active # None => ~At(active, "done")

(* Only an answer to the statement that is current at that moment is ever  *)
(* committed, and only once, although the statement may be overtaken while *)
(* the provider works.                                                     *)
CommitsOnlyCurrent ==
    [][\A t \in Triggers : committedBy'[t] # committedBy[t] =>
         applicable = t /\ committedBy[t] = None]_routeVars

(* The route does not stay busy: whatever the provider does, the active    *)
(* execution gives the route back.                                         *)
RouteBecomesFree == active # None ~> active = None

(* Every execution returns.  docs/conversation-pipeline-design.md:3564     *)
(* says that back-off, provider work and timers share one abort signal and *)
(* are cleaned at terminal completion or cancellation; the wait of a       *)
(* back-off is left pending when its timer is cleared.                     *)
EveryExecutionReturns == \A op \in Plans : Exists(op) ~> At(op, "done")
=============================================================================
