---------------------------- MODULE CandidateProvider ----------------------------
(***************************************************************************)
(* The structured reaction route over the provider it has in the command   *)
(* line program: the local transport (npcReactionCandidateTransport.mjs),  *)
(* the HTTP handler and the candidate provider with its timeout            *)
(* (npcReactionCandidateProvider.mjs), and the OpenAI invoker with its     *)
(* limits (npcReactionCandidateUpstream.mjs).                              *)
(*                                                                         *)
(* A call races three things: the fetch, the timer of the attempt, and an  *)
(* abort by the route.  The first one decides what the route is told; the  *)
(* fetch of a call that lost still holds its place until it settles.       *)
(* A code is kept as far as the route tells it apart: a candidate, or a    *)
(* failure that may be retried or not.  Bodies and their shapes are left   *)
(* out, and the pseudo invoker, which answers at once.                     *)
(***************************************************************************)
EXTENDS ReactionRoute

CONSTANTS
    AttemptTimeout,    \* ATTEMPT_TIMEOUT_MS
    MaxRetryAfter,     \* MAXIMUM_RETRY_AFTER_SECONDS
    Concurrent         \* maxConcurrentRequests

ASSUME ProviderAssumption ==
    AttemptTimeout \in Nat \ {0} /\ MaxRetryAfter \in Nat /\ Concurrent \in Nat \ {0}

(* A call of the provider: whether its request was sent, and when.         *)
Calls == [sent : BOOLEAN, since : Nat]

ASSUME NoneOfProviderAssumption == None \notin Calls

VARIABLES
    call,        \* of each execution: the call it waits for, or None
    fetching,    \* attempts whose fetch has not settled
    inFlight     \* what the invoker counts of them

upstream == <<fetching, inFlight>>
providerVars == <<routeVars, call, upstream>>

ProviderInit ==
    /\ RouteInit
    /\ call = [op \in Plans |-> None]
    /\ fetching = {} /\ inFlight = 0

-----------------------------------------------------------------------------
(* The invoker *)

(* Defect: a request more than the limit is let through.                   *)
AdmitsOneMore == inFlight <= Concurrent

Admits == inFlight < Concurrent

Fetch(a) == fetching' = fetching \union {a} /\ inFlight' = inFlight + 1

(* Defect: the place of a fetch that was abandoned is not given back.      *)
KeepPlace(a) == fetching' = fetching \ {a} /\ UNCHANGED inFlight

(* The finally clause of the invoker.                                      *)
Settle(a) == fetching' = fetching \ {a} /\ inFlight' = inFlight - 1

-----------------------------------------------------------------------------
(* A call of the provider *)

(* The request is sent, or refused: it is not valid, too many have been    *)
(* sent in the last minute, or too many are in flight.                     *)
StartCall(op) ==
    /\ StartAttempt(op)
    /\ \/ /\ Admits
          /\ Fetch(<<op, operation[op].attempts + 1>>)
          /\ call' = [call EXCEPT ![op] = [sent |-> TRUE, since |-> elapsed]]
       \/ /\ call' = [call EXCEPT ![op] = [sent |-> FALSE, since |-> elapsed]]
          /\ UNCHANGED upstream

Waits(op)     == TakesAnswer(op) /\ call[op].sent
Remaining(op) == AttemptTimeout - (elapsed - call[op].since)

(* What may be retried: a request that did not get through, while there is *)
(* time for another, and one that was put off for not too long.            *)
Transient(op)     == Remaining(op) >= Budget
PutOff(op, after) == after <= MaxRetryAfter /\ after + Budget <= Remaining(op)

CallReturns(op) == call' = [call EXCEPT ![op] = None]

RefusedAtOnce(op) ==
    /\ TakesAnswer(op) /\ ~call[op].sent
    /\ ProviderFails(op, "failed")
    /\ CallReturns(op) /\ UNCHANGED upstream

FailsForNow(op) ==
    /\ Waits(op)
    /\ Transient(op) \/ \E after \in 0..MaxRetryAfter : PutOff(op, after)
    /\ ProviderFailsForNow(op, "failed")
    /\ CallReturns(op) /\ Settle(CurrentAttempt(op))

(* A status or a body that is an error, or a failure too late to retry.    *)
FailsForGood(op) ==
    /\ Waits(op)
    /\ ProviderFails(op, "failed")
    /\ CallReturns(op) /\ Settle(CurrentAttempt(op))

Answers(op) ==
    /\ Waits(op)
    /\ CandidateArrives(op)
    /\ CallReturns(op) /\ Settle(CurrentAttempt(op))

(* The timer of the attempt fires first: a timeout is never retried.       *)
TimesOut(op) ==
    /\ Waits(op) /\ Remaining(op) <= 0
    /\ ProviderFails(op, "timed_out")
    /\ CallReturns(op) /\ UNCHANGED upstream

(* The route has aborted the call.                                         *)
AbortReturns(op) ==
    /\ AnswerIsLate(op)
    /\ CallReturns(op) /\ UNCHANGED upstream

(* The fetch of a call that is over, or aborted, settles and is ignored.   *)
AbandonedFetchSettles(a) ==
    /\ ~Running /\ a \in fetching
    /\ ~(Waits(a[1]) /\ CurrentAttempt(a[1]) = a)
    /\ Settle(a)
    /\ UNCHANGED <<routeVars, call>>

-----------------------------------------------------------------------------
ProviderRuns(op) ==
    \/ RefusedAtOnce(op) \/ FailsForNow(op) \/ FailsForGood(op) \/ Answers(op) \/ TimesOut(op)

(* What the route does without starting or ending a call.                  *)
Aside == UNCHANGED <<call, upstream>>

RouteRuns(op) ==
    \/ OutOfTime(op) /\ Aside
    \/ WaitBackoff(op) /\ Aside
    \/ AttemptCannotStart(op) /\ Aside
    \/ CandidateIsStale(op) /\ Aside
    \/ CandidateRejected(op) /\ Aside
    \/ AuthorityThrows(op) /\ Aside
    \/ \E f \in Fingerprints : CandidateValidated(op, f) /\ Aside
    \/ Commit(op) /\ Aside
    \/ CommitWithoutCleanup(op) /\ Aside
    \/ CommitAnswerMalformed(op) /\ Aside

RouteTimer(op) ==
    \/ BackoffFires(op) /\ Aside
    \/ DeadlineFires(op) /\ Aside

RouteCaller ==
    \/ PlayerSpeaks /\ Aside
    \/ StateMovesOn /\ Aside
    \/ ResetRoute /\ Aside
    \/ \E t \in Triggers : Cancel(t) /\ Aside
    \/ \E t \in Triggers, op \in Plans : Execute(t, op) /\ Aside
    \/ \E op \in Plans : RetryCleanup(op) /\ Aside

Clock == Tick /\ Aside

ProviderNext ==
    \/ RouteCaller \/ Clock
    \/ \E op \in Plans :
         \/ StartCall(op) \/ ProviderRuns(op) \/ AbortReturns(op)
         \/ RouteRuns(op) \/ RouteTimer(op)
    \/ \E a \in AttemptIds : AbandonedFetchSettles(a)

(* The program and the clock run on, a timer that is due fires, an aborted *)
(* call returns, and the fetch of an aborted call settles.  The fetch of a *)
(* call that is waited for may stay silent for ever.                       *)
RunsOn(op) ==
    \/ StartCall(op) \/ RefusedAtOnce(op) \/ TimesOut(op) \/ AbortReturns(op)
    \/ RouteRuns(op) \/ RouteTimer(op)

ProviderFairness ==
    /\ WF_providerVars(Clock)
    /\ \A op \in Plans : WF_providerVars(RunsOn(op))
    /\ WF_providerVars(\E a \in AttemptIds : AbandonedFetchSettles(a))

ProviderSpec == ProviderInit /\ [][ProviderNext]_providerVars /\ ProviderFairness

-----------------------------------------------------------------------------
(* Properties *)

(* The invoker's count is that of the fetches that have not settled, also  *)
(* of those the route has long stopped waiting for, and keeps to its       *)
(* limit; the route waits for a call exactly while it is attempting.       *)
ProviderTypeOK ==
    /\ RouteTypeOK
    /\ call \in [Plans -> Calls \union {None}] /\ fetching \subseteq AttemptIds
    /\ inFlight = Cardinality(fetching) /\ inFlight \in 0..Concurrent
    /\ \A op \in Plans : call[op] # None <=> At(op, "attempting")
    /\ \A op \in Plans : At(op, "attempting") /\ call[op].sent /\ Unfinished(op)
                            => CurrentAttempt(op) \in fetching

(* When all places are taken one comes free again, whether the fetch       *)
(* answers, times out, or is abandoned by a cancellation or a reset: the   *)
(* NPCs are not mute for the rest of the game.                             *)
PlaceComesFree == inFlight = Concurrent ~> inFlight < Concurrent

=============================================================================
