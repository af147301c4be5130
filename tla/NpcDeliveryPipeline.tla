-------------------------- MODULE NpcDeliveryPipeline --------------------------
(***************************************************************************)
(* What stands between the engine and the delivery controller: the         *)
(* engine's handoff of a committed answer (gameEngine.mjs), the production *)
(* integration (npcProductionIntegration.mjs), the orchestrator that calls *)
(* the controller (npcPublicationDeliveryOrchestrator.mjs) and the sinks   *)
(* of the browser and the command line.                                    *)
(*                                                                         *)
(* One pump is one call of the engine's completion method, which the       *)
(* interface makes after the player's own entry is on display and again    *)
(* whenever the user asks for a retry.  Between two awaits its steps       *)
(* belong to one turn of the event loop, so destroy() may come before a    *)
(* pump, while it awaits the sink and after it.  The handoff refuses a     *)
(* second pump, so the orchestrator's own guard, active, is never needed.  *)
(* The integration offers no replacement of the consumer.                  *)
(***************************************************************************)
EXTENDS NpcDelivery

VARIABLES
    handoff,       \* state of _npcStructuredDeliveryHandoff
    pendingRoute,  \* pendingRouteStatus # null
    pendingRetry,  \* pendingDeliveryRetry: the token its retryId stands for
    retries,       \* the orchestrator's retries, by their tokens
    pump           \* the pump under way: [stage, attempt]

caller       == <<handoff, pendingRoute, pendingRetry, retries, pump>>
controller   == <<root, requests, gates, invalidated>>
pipelineVars == <<vars, caller>>

Idle == [stage |-> "idle", attempt |-> None]
At(stage, a) == [stage |-> stage, attempt |-> a]
Synchronous == {"preparing", "beginning", "returned", "thrown"}

PipelineInit ==
    /\ Init
    /\ handoff = "none" /\ pendingRoute = FALSE /\ pendingRetry = None
    /\ retries = {} /\ pump = Idle

(* null is no retry.                                                       *)
ASSUME NoRetryAssumption == None \notin [slot : Slots, number : Numbers, kind : Kinds]

HandoffOpen == handoff \in {"pending_player_display", "pending_delivery_retry", "in_progress"}

(* The player asks, and the route commits an answer: executeNpcReaction    *)
(* leaves it for a pump.  An open handoff refuses the question.            *)
Answer ==
    /\ ~HandoffOpen /\ Commit
    /\ pendingRoute' = TRUE /\ handoff' = "pending_player_display"
    /\ UNCHANGED <<pendingRetry, retries, pump>>

-----------------------------------------------------------------------------
(* How a pump ends *)

(* delivered, acknowledged_existing, failed_terminal, pending_none         *)
Settled ==
    /\ pendingRoute' = FALSE /\ pendingRetry' = None
    /\ handoff' = "settled" /\ pump' = Idle

(* Defect: the retry that was asked for first is held on to.               *)
KeepsFirstRetry(t) ==
    /\ pendingRetry' = IF pendingRetry = None THEN t ELSE pendingRetry
    /\ handoff' = "pending_delivery_retry" /\ pump' = Idle
    /\ UNCHANGED pendingRoute

(* Defect: the retry the delivery asks for is not held.                    *)
RetryForgotten(t) ==
    /\ handoff' = "pending_delivery_retry" /\ pump' = Idle
    /\ UNCHANGED <<pendingRoute, pendingRetry>>

(* retry_required                                                          *)
RetryRequired(t) ==
    /\ pendingRetry' = t
    /\ handoff' = "pending_delivery_retry" /\ pump' = Idle
    /\ UNCHANGED pendingRoute

(* delivery_failed: something threw, and a retry that was held is held on. *)
DeliveryFailed ==
    /\ handoff' = "pending_delivery_retry" /\ pump' = Idle
    /\ UNCHANGED <<pendingRoute, pendingRetry>>

(* Calls the sink anew, or from the start.                                 *)
Continues(stage, a) ==
    /\ handoff' = "in_progress" /\ pump' = At(stage, a)
    /\ UNCHANGED <<pendingRoute, pendingRetry>>

-----------------------------------------------------------------------------
(* completeNpcStructuredReactionDeliveryAfterPlayerDisplay, which calls    *)
(* pumpNpcPublicationAfterPlayerDisplay                                    *)

MayPump ==
    /\ ~invalidated /\ pump = Idle
    /\ handoff \in {"pending_player_display", "pending_delivery_retry"}

(* A pump without a route result to deliver is refused and changes nothing.*)
Pumps == MayPump /\ pendingRoute

(* pump: nothing to deliver, or nothing that discovery would offer.        *)
PumpFindsNothing ==
    /\ Pumps /\ pendingRetry = None
    /\ \A s \in Slots : IsHead(s) =>
         records[s] # None /\ records[s].state \in {"prepared", "in_flight", "failed_terminal"}
    /\ Settled /\ UNCHANGED <<vars, retries>>

(* pump: the head is discovered, to be prepared next.  A head that could   *)
(* be retried is not offered here: see OpenHandoffCanBePumped.             *)
PumpDiscovers(s) ==
    /\ Pumps /\ pendingRetry = None /\ IsHead(s)
    /\ \/ Discover(s)
       \/ records[s] # None /\ records[s].state = "pending" /\ UNCHANGED vars
    /\ Continues("preparing", <<s, Len(attempts[s]) + 1>>)
    /\ UNCHANGED retries

(* An answer that does not render makes the preparation throw.             *)
PumpPrepares(renders) ==
    /\ pump.stage = "preparing" /\ Prepare(pump.attempt[1], renders)
    /\ IF renders THEN Continues("beginning", pump.attempt) ELSE DeliveryFailed
    /\ UNCHANGED retries

(* executeRequest                                                          *)
PumpBegins ==
    /\ pump.stage = "beginning" /\ Begin(pump.attempt)
    /\ Continues("awaiting", pump.attempt)
    /\ UNCHANGED retries

(* Defect: a retry remains on offer after its token has been used.         *)
StillHeld(t) == retries

(* The orchestrator forgets a retry as soon as it is used.                 *)
Consumed(t) == retries \ {t}

(* retryNpcPublicationDelivery of the orchestrator: it calls the sink, or  *)
(* only acknowledges; a retry it does not know it refuses.                 *)
PumpRepeats ==
    /\ Pumps /\ pendingRetry \in retries /\ pendingRetry.kind = "repeat_sink"
    /\ Retry(pendingRetry)
    /\ retries' = Consumed(pendingRetry)
    /\ Continues("beginning", <<pendingRetry.slot, pendingRetry.number + 1>>)

PumpAcknowledges ==
    /\ Pumps /\ pendingRetry \in retries /\ pendingRetry.kind = "ack_only"
    /\ Acknowledge(<<pendingRetry.slot, pendingRetry.number>>)
    /\ retries' = Consumed(pendingRetry)
    /\ Settled

PumpRefused ==
    /\ Pumps /\ pendingRetry # None /\ pendingRetry \notin retries
    /\ DeliveryFailed /\ UNCHANGED <<vars, retries>>

-----------------------------------------------------------------------------
(* deliver of the sinks, and what the pump makes of it *)

(* A settlement is returned; all else is thrown, and so is whatever the    *)
(* sink says once its attempt was settled without it.  Neither sink ever   *)
(* gives a timeout as its reason.                                          *)
SinkReports(a) ==
    LET timely == a \in DOMAIN gates /\ gates[a].stage = "timely" IN
    /\ pump = At("awaiting", a)
    /\ sinks[a] \in {"written", "failed_clean", "failed_unknown"}
    /\ IF invalidated \/ a \notin DOMAIN gates THEN UNCHANGED controller
       ELSE \/ sinks[a] = "written" /\ Complete(a)
            \/ sinks[a] = "failed_clean" /\ RecordFailure(a, FALSE, TRUE)
            \/ sinks[a] = "failed_unknown" /\ RecordFailure(a, FALSE, FALSE)
    /\ sinks' = [sinks EXCEPT ![a] = "done"]
    /\ pump' = At(IF timely THEN "returned" ELSE "thrown", a)
    /\ UNCHANGED <<display, handoff, pendingRoute, pendingRetry, retries>>

(* settleExecution                                                         *)
PumpThrows ==
    /\ ~invalidated /\ pump.stage = "thrown"
    /\ DeliveryFailed /\ UNCHANGED <<vars, retries>>

ReturnedState(state) ==
    ~invalidated /\ pump.stage = "returned" /\ StateOf(pump.attempt) = state

(* allocateRetry                                                           *)
Retries(kind) ==
    LET t == [slot |-> pump.attempt[1], number |-> pump.attempt[2], kind |-> kind] IN
    retries' = retries \union {t} /\ RetryRequired(t)

PumpFailsForNow ==
    ReturnedState("failed_retryable") /\ Retries("repeat_sink") /\ UNCHANGED vars

PumpFailsForGood ==
    ReturnedState("failed_terminal") /\ Settled /\ UNCHANGED <<vars, retries>>

PumpDelivers ==
    /\ ReturnedState("sink_succeeded") /\ Acknowledge(pump.attempt)
    /\ Settled /\ UNCHANGED retries

(* The acknowledgement throws; the answer is on display all the same.      *)
PumpIsNotAcknowledged ==
    ReturnedState("sink_succeeded") /\ Retries("ack_only") /\ UNCHANGED vars

(* A pump that outlives its game ends without a trace.                     *)
PumpOutlivesGame ==
    /\ invalidated /\ pump.stage \in {"returned", "thrown"}
    /\ pump' = Idle
    /\ UNCHANGED <<vars, handoff, pendingRoute, pendingRetry, retries>>

(* destroy of the engine, resetIntegration and reset of the orchestrator.  *)
Destroy ==
    /\ pump.stage \notin Synchronous /\ Reset
    /\ handoff' = IF HandoffOpen THEN "abandoned" ELSE handoff
    /\ pendingRoute' = FALSE /\ pendingRetry' = None /\ retries' = {}
    /\ UNCHANGED pump

-----------------------------------------------------------------------------
PumpStep ==
    \/ PumpFindsNothing \/ (\E s \in Slots : PumpDiscovers(s))
    \/ (\E renders \in BOOLEAN : PumpPrepares(renders))
    \/ PumpBegins \/ PumpRepeats \/ PumpAcknowledges \/ PumpRefused
    \/ PumpThrows \/ PumpFailsForNow \/ PumpFailsForGood
    \/ PumpDelivers \/ PumpIsNotAcknowledged \/ PumpOutlivesGame

SinkStep(a)  == SinkReports(a) \/ (Write(a) /\ UNCHANGED caller)
TimeStep(a)  == Elapse(a) /\ UNCHANGED caller
TimerStep(a) == Settle(a) /\ UNCHANGED caller

PipelineNext ==
    \/ Answer \/ PumpStep \/ Destroy
    \/ \E a \in Slots \X Numbers : SinkStep(a) \/ TimeStep(a) \/ TimerStep(a)

(* The user goes on asking for a retry, sinks end what they are called     *)
(* for, time passes and timers fire.                                       *)
PipelineFairness ==
    /\ WF_pipelineVars(PumpStep)
    /\ \A a \in Slots \X Numbers :
         /\ WF_pipelineVars(SinkStep(a))
         /\ WF_pipelineVars(TimeStep(a)) /\ WF_pipelineVars(TimerStep(a))

PipelineSpec == PipelineInit /\ [][PipelineNext]_pipelineVars /\ PipelineFairness

-----------------------------------------------------------------------------
(* Properties *)

Handoffs == {"none", "pending_player_display", "pending_delivery_retry", "in_progress",
             "settled", "abandoned"}

(* The types of what the controller and its caller keep.                   *)
PipelineTypeOK ==
    /\ TypeOK
    /\ handoff \in Handoffs /\ pendingRoute \in BOOLEAN
    /\ retries \subseteq tokens
    /\ pendingRetry \in [slot : Slots, number : Numbers, kind : Kinds] \union {None}
    /\ pump.stage \in {"idle", "awaiting"} \union Synchronous
    /\ pump.attempt \in (Slots \X Numbers) \union {None}

(* While the handoff keeps the game's input closed, the integration still  *)
(* has something to deliver, and discovery offers it nothing to retry that *)
(* it has forgotten: the engine, the integration and the orchestrator      *)
(* agree on what comes next.                                               *)
OpenHandoffCanBePumped ==
    /\ HandoffOpen => pendingRoute /\ ~invalidated
    /\ MayPump /\ pendingRetry = None =>
         \A s \in Slots : IsHead(s) /\ records[s] # None =>
             records[s].state \notin {"failed_retryable", "sink_succeeded"}

CutOff == \E a \in DOMAIN gates : gates[a].stage # "timely"

(* As long as no sink reaches its deadline, the input reopens: the answer  *)
(* is delivered, or fails after its last attempt, if the user goes on      *)
(* asking for a retry.                                                     *)
ReopensInTime == []~CutOff => (HandoffOpen ~> ~HandoffOpen)

(* The rollback runbook and the command line's own message say of every    *)
(* delivery that waits for a retry that asking for it resumes the same     *)
(* handoff, to the end that reopens the input.                             *)
RetryReopens == HandoffOpen ~> ~HandoffOpen
=============================================================================
