----------------------- MODULE NpcDeliveryPipelineProofs -----------------------
(***************************************************************************)
(* Proofs about NpcDeliveryPipeline, for any number of answers: the        *)
(* engine, the integration and the orchestrator agree on what comes next,  *)
(* and what NpcDelivery promises of its root and its display remains true  *)
(* under the caller it really has, whose sinks may report to a controller  *)
(* that has settled their attempt or has been reset.                       *)
(***************************************************************************)
EXTENDS NpcDeliveryPipeline, NpcDeliveryProofs, TLAPS

(* An open handoff belongs to a game that goes on, and a route's result.   *)
OpenHasRoute == HandoffOpen => pendingRoute /\ ~invalidated

(* A pump under way keeps the handoff, is given an attempt, and has used   *)
(* up the retry it was asked for.                                          *)
PumpHolds == pump.stage # "idle" =>
    /\ ~invalidated => handoff = "in_progress"
    /\ pump.attempt \in Slots \X Numbers
    /\ retries = {}

(* A pump waits for a sink that has been called.                           *)
AwaitsSink == pump.stage = "awaiting" => pump.attempt \in DOMAIN sinks

Waits(s) == records[s] # None /\ records[s].state \in {"failed_retryable", "sink_succeeded"}

(* An answer waits for a retry only while the pump is about to offer it,   *)
(* or the integration holds it.                                            *)
RetryIsHeld == ~invalidated =>
    \A s \in Slots : Waits(s) => pump.stage = "returned" \/ pendingRetry # None

TokenOf(a, kind) == [slot |-> a[1], number |-> a[2], kind |-> kind]

(* What the sink's report has made of attempt a.                           *)
Settlement(a) ==
    LET state == records[a[1]].state IN
    /\ records[a[1]] # None /\ records[a[1]].number = a[2]
    /\ state \in {"failed_retryable", "failed_terminal", "sink_succeeded"}
    /\ state = "failed_retryable" => TokenOf(a, "repeat_sink") \in tokens
    /\ state = "sink_succeeded"   => TokenOf(a, "ack_only") \in tokens

(* A pump that the report has settled finds its attempt as it was settled. *)
ReturnsSettled == pump.stage = "returned" /\ ~invalidated => Settlement(pump.attempt)

(* What the caller holds, and how it fits the controller's root.           *)
CallerFits == OpenHasRoute /\ PumpHolds /\ AwaitsSink /\ RetryIsHeld /\ ReturnsSettled

(* The inductive invariant.                                                *)
PipelineInv == IInv /\ PipelineTypeOK /\ CallerFits

-----------------------------------------------------------------------------
(* The controller's part of a step.                                        *)

(* A report the controller refuses ends its sink and changes nothing else. *)
RefusedReport ==
    /\ UNCHANGED <<root, requests, gates, invalidated, display>>
    /\ DOMAIN sinks' = DOMAIN sinks
    /\ \A a \in DOMAIN sinks : sinks'[a] = sinks[a] \/ sinks'[a] = "done"

(* A report is one the controller accepts from its sink, or is refused.    *)
LEMMA ReportIsControllers ==
    ASSUME PipelineInv, NEW a \in Slots \X Numbers, SinkReports(a)
    PROVE  Report(a) \/ RefusedReport
<1>1. /\ a \in DOMAIN sinks /\ sinks' = [sinks EXCEPT ![a] = "done"] /\ UNCHANGED display
  <2>1. pump = At("awaiting", a) /\ sinks' = [sinks EXCEPT ![a] = "done"] /\ UNCHANGED display
    BY DEF SinkReports
  <2>2. pump.stage = "awaiting" /\ pump.attempt = a
    BY <2>1 DEF At
  <2> QED
    BY <2>1, <2>2 DEF PipelineInv, CallerFits, AwaitsSink
<1>2. CASE invalidated \/ a \notin DOMAIN gates
  <2>1. UNCHANGED <<root, requests, gates, invalidated>>
    BY <1>2 DEF SinkReports, controller
  <2> QED
    BY <1>1, <2>1 DEF RefusedReport
<1>3. CASE ~(invalidated \/ a \notin DOMAIN gates)
  <2>1. \/ sinks[a] = "written" /\ Complete(a)
        \/ sinks[a] = "failed_clean" /\ RecordFailure(a, FALSE, TRUE)
        \/ sinks[a] = "failed_unknown" /\ RecordFailure(a, FALSE, FALSE)
    BY <1>3 DEF SinkReports
  <2> QED
    BY <1>1, <2>1 DEF Report
<1> QED
  BY <1>2, <1>3

(* Every step is one of the controller's, its sink's or its timers', or    *)
(* none of theirs.                                                         *)
LEMMA StepIsControllers ==
    ASSUME PipelineInv, [PipelineNext]_pipelineVars
    PROVE  [Next]_vars \/ RefusedReport
<1>1. CASE Answer \/ Destroy
  BY <1>1 DEF Answer, Destroy, Next
<1>2. CASE \E s \in Slots : PumpDiscovers(s)
  <2>1. \E s \in Slots : Discover(s) \/ UNCHANGED vars
    BY <1>2 DEF PumpDiscovers
  <2> QED
    BY <2>1 DEF Next
<1>3. CASE \E renders \in BOOLEAN : PumpPrepares(renders)
  <2>1. PICK renders \in BOOLEAN : pump.stage = "preparing" /\ Prepare(pump.attempt[1], renders)
    BY <1>3 DEF PumpPrepares
  <2>2. pump.attempt[1] \in Slots
    BY <2>1 DEF PipelineInv, CallerFits, PumpHolds
  <2> QED
    BY <2>1, <2>2 DEF Next
<1>4. CASE PumpBegins
  <2>1. pump.attempt \in Slots \X Numbers /\ Begin(pump.attempt)
    BY <1>4 DEF PumpBegins, PipelineInv, CallerFits, PumpHolds
  <2> QED
    BY <2>1 DEF Next
<1>5. CASE PumpRepeats
  <2>1. pendingRetry \in tokens /\ Retry(pendingRetry)
    BY <1>5 DEF PumpRepeats, PipelineInv, PipelineTypeOK
  <2> QED
    BY <2>1 DEF Next
<1>6. CASE PumpAcknowledges
  <2>1. pendingRetry \in [slot : Slots, number : Numbers, kind : Kinds]
    BY <1>6 DEF PumpAcknowledges, PipelineInv, PipelineTypeOK, TypeOK
  <2>2. <<pendingRetry.slot, pendingRetry.number>> \in Slots \X Numbers
    BY <2>1
  <2> QED
    BY <1>6, <2>2 DEF PumpAcknowledges, Next
<1>7. CASE PumpDelivers
  <2>1. pump.attempt \in Slots \X Numbers /\ Acknowledge(pump.attempt)
    BY <1>7 DEF PumpDelivers, ReturnedState, PipelineInv, CallerFits, PumpHolds
  <2> QED
    BY <2>1 DEF Next
<1>8. CASE \/ PumpFindsNothing \/ PumpRefused \/ PumpThrows \/ PumpFailsForNow
           \/ PumpFailsForGood \/ PumpIsNotAcknowledged \/ PumpOutlivesGame
  BY <1>8 DEF PumpFindsNothing, PumpRefused, PumpThrows, PumpFailsForNow, PumpFailsForGood,
              PumpIsNotAcknowledged, PumpOutlivesGame
<1>9. ASSUME NEW a \in Slots \X Numbers, SinkStep(a) \/ TimeStep(a) \/ TimerStep(a)
      PROVE  [Next]_vars \/ RefusedReport
  <2>1. SinkReports(a) \/ Write(a) \/ Elapse(a) \/ Settle(a)
    BY <1>9 DEF SinkStep, TimeStep, TimerStep
  <2> QED
    BY <2>1, ReportIsControllers DEF Next
<1>10. CASE UNCHANGED pipelineVars
  BY <1>10 DEF pipelineVars
<1> QED
  BY <1>1, <1>2, <1>3, <1>4, <1>5, <1>6, <1>7, <1>8, <1>9, <1>10 DEF PipelineNext, PumpStep

(* So the controller's invariant is kept.                                  *)
LEMMA ControllerKeeps == PipelineInv /\ [PipelineNext]_pipelineVars => IInv'
<1> SUFFICES ASSUME PipelineInv, [PipelineNext]_pipelineVars PROVE IInv'
  OBVIOUS
<1>1. IInv /\ ([Next]_vars \/ RefusedReport)
  BY StepIsControllers DEF PipelineInv
<1>2. CASE RefusedReport
  <2>1. /\ UNCHANGED <<root, requests, invalidated, display>> /\ DOMAIN gates' = DOMAIN gates
        /\ \A a \in DOMAIN gates : gates'[a] \in Gate
    BY <1>1, <1>2 DEF RefusedReport, IInv, TypeOK
  <2> QED
    BY <1>1, <1>2, <2>1, GatesOnly DEF RefusedReport
<1> QED
  BY <1>1, <1>2, NextInvariant

-----------------------------------------------------------------------------
(* What the controller's steps leave to its caller.                        *)

(* Only the first answer not acknowledged has a record that says otherwise.*)
LEMMA OpenIsHead ==
    ASSUME IInv, NEW s \in Slots, records[s] # None, records[s].state # "acknowledged"
    PROVE  s = Len(acks) + 1
<1>1. Len(acks) \in Nat /\ s \in Nat
  BY Shapes DEF IInv
<1>2. ~(s <= Len(acks))
  BY DEF IInv, RootFits, AcksAreAPrefix, Resolved
<1>3. ~(s > Len(acks) + 1)
  BY DEF IInv, RootFits, NothingAhead
<1> QED
  BY <1>1, <1>2, <1>3

(* There is never more than one token.                                     *)
LEMMA OneToken ==
    ASSUME IInv, NEW t \in tokens, NEW u \in tokens
    PROVE  t = u /\ Waits(t.slot)
<1> DEFINE state(v) == IF v.kind = "repeat_sink" THEN "failed_retryable" ELSE "sink_succeeded"
<1>1. \A v \in tokens : v \in [slot : Slots, number : Numbers, kind : Kinds]
  BY DEF IInv, TypeOK
<1>2. \A v \in tokens : StandsAt(v.slot, v.number, state(v))
  BY DEF IInv, IndexesMatch
<1>3. \A v \in tokens : v.slot = Len(acks) + 1
  <2> SUFFICES ASSUME NEW v \in tokens PROVE v.slot = Len(acks) + 1
    OBVIOUS
  <2>1. records[v.slot] # None /\ records[v.slot].state # "acknowledged" /\ v.slot \in Slots
    BY <1>1, <1>2 DEF StandsAt
  <2> QED
    BY <2>1, OpenIsHead
<1>4. t.slot = u.slot /\ t.number = u.number /\ state(t) = state(u)
  BY <1>2, <1>3 DEF StandsAt
<1>5. t.kind = u.kind
  <2>1. t.kind \in {"repeat_sink", "ack_only"} /\ u.kind \in {"repeat_sink", "ack_only"}
    BY <1>1 DEF Kinds
  <2> QED
    BY <1>4, <2>1
<1> QED
  BY <1>1, <1>2, <1>4, <1>5 DEF StandsAt, Waits

(* Where an answer stands after a step of its attempt.                     *)
LEMMA BecomesRecord ==
    ASSUME IInv, NEW s \in Slots, NEW n \in Numbers, NEW new \in Attempt, Becomes(<<s, n>>, new)
    PROVE  /\ records'[s] # None /\ records'[s].number = n /\ records'[s].state = new.state
           /\ \A t \in Slots \ {s} : records'[t] = records[t]
<1>1. records' = [records EXCEPT ![s] = RecordFor(new, n)] /\ s \in DOMAIN records
  BY DEF Becomes, IInv, TypeOK
<1> QED
  BY <1>1, RecordForShape

(* The answer that is settled, and no other, stands where the sink said.   *)
LEMMA FailsRecord ==
    ASSUME IInv, NEW s \in Slots, NEW n \in Numbers, <<s, n>> \in DOMAIN gates,
           NEW retryable \in BOOLEAN, Fails(<<s, n>>, retryable)
    PROVE  /\ records'[s] # None /\ records'[s].number = n
           /\ records'[s].state = IF retryable THEN "failed_retryable" ELSE "failed_terminal"
           /\ \A t \in Slots \ {s} : records'[t] = records[t]
           /\ tokens' = IF retryable THEN tokens \union {TokenOf(<<s, n>>, "repeat_sink")}
                        ELSE tokens
<1> DEFINE new == [attempts[s][n] EXCEPT
                     !.state = IF retryable THEN "failed_retryable" ELSE "failed_terminal",
                     !.token = IF retryable THEN "repeat_sink" ELSE None]
<1>1. attempts[s][n] \in Attempt
  BY GatedIsInFlight
<1>2. /\ new \in Attempt
      /\ new.state = IF retryable THEN "failed_retryable" ELSE "failed_terminal"
  BY <1>1 DEF Attempt, ActiveStates, FinalStates, Kinds
<1>3. Becomes(<<s, n>>, new)
  BY DEF Fails
<1>4. tokens' = IF retryable THEN tokens \union {TokenOf(<<s, n>>, "repeat_sink")} ELSE tokens
  BY DEF Fails, TokenOf
<1> HIDE DEF new
<1> QED
  BY <1>2, <1>3, <1>4, BecomesRecord

(* An answer that was shown may only be acknowledged.                      *)
LEMMA SucceedsRecord ==
    ASSUME IInv, NEW s \in Slots, NEW n \in Numbers, <<s, n>> \in DOMAIN gates,
           Succeeds(<<s, n>>)
    PROVE  /\ records'[s] # None /\ records'[s].number = n
           /\ records'[s].state = "sink_succeeded"
           /\ \A t \in Slots \ {s} : records'[t] = records[t]
           /\ tokens' = tokens \union {TokenOf(<<s, n>>, "ack_only")}
<1> DEFINE new == [attempts[s][n] EXCEPT !.state = "sink_succeeded", !.token = "ack_only"]
<1>1. attempts[s][n] \in Attempt
  BY GatedIsInFlight
<1>2. new \in Attempt /\ new.state = "sink_succeeded"
  BY <1>1 DEF Attempt, ActiveStates, Kinds
<1>3. Becomes(<<s, n>>, new) /\ tokens' = tokens \union {TokenOf(<<s, n>>, "ack_only")}
  BY DEF Succeeds, TokenOf
<1> HIDE DEF new
<1> QED
  BY <1>2, <1>3, BecomesRecord

(* Once the first answer is acknowledged none waits.                       *)
LEMMA NoneWaitsThen ==
    ASSUME IInv, NEW a \in Slots \X Numbers, Acknowledge(a)
    PROVE  /\ \A t \in Slots : ~Waits(t)'
           /\ tokens' = tokens \ {TokenOf(a, "ack_only")}
           /\ ~invalidated' /\ DOMAIN sinks' = DOMAIN sinks
<1>1. PICK s \in Slots, n \in Numbers : a = <<s, n>>
  OBVIOUS
<1> DEFINE new == [attempts[s][n] EXCEPT !.state = "acknowledged", !.token = None]
<1>2. /\ s = Len(acks) + 1 /\ n \in DOMAIN attempts[s]
  BY <1>1, AcknowledgeFacts
<1>3. attempts[s][n] \in Attempt
  BY <1>2, Shapes DEF IInv
<1>4. new \in Attempt /\ new.state = "acknowledged"
  BY <1>3 DEF Attempt, FinalStates
<1>5. /\ Becomes(<<s, n>>, new) /\ tokens' = tokens \ {TokenOf(a, "ack_only")}
      /\ ~invalidated' /\ DOMAIN sinks' = DOMAIN sinks
  BY <1>1 DEF Acknowledge, external, TokenOf
<1> HIDE DEF new
<1>6. records'[s].state = "acknowledged" /\ \A t \in Slots \ {s} : records'[t] = records[t]
  BY <1>4, <1>5, BecomesRecord
<1>7. ASSUME NEW t \in Slots, Waits(t)' PROVE FALSE
  <2>1. t # s
    BY <1>6, <1>7 DEF Waits
  <2>2. records[t] # None /\ records[t].state # "acknowledged"
    BY <1>6, <1>7, <2>1 DEF Waits
  <2> QED
    BY <1>2, <2>1, <2>2, OpenIsHead
<1> QED
  BY <1>5, <1>7

-----------------------------------------------------------------------------
(* The caller's part of a step.                                            *)

(* What the caller's step has to keep besides the controller's invariant.  *)
CallerKeeps == PipelineTypeOK' /\ CallerFits'

(* A step of the environment: the caller does nothing, and no answer comes *)
(* to wait or stops standing where the pump returns.                       *)
LEMMA CallerWaits ==
    ASSUME PipelineInv, IInv', UNCHANGED <<handoff, pendingRoute, pendingRetry, retries, pump>>,
           UNCHANGED <<invalidated, tokens>>, DOMAIN sinks \subseteq DOMAIN sinks',
           \A s \in Slots : Waits(s)' => Waits(s),
           pump.stage = "returned" /\ ~invalidated => UNCHANGED records
    PROVE  CallerKeeps
<1>1. PipelineTypeOK'
  BY DEF PipelineInv, PipelineTypeOK, IInv
<1>2. OpenHasRoute' /\ PumpHolds' /\ AwaitsSink'
  BY DEF PipelineInv, CallerFits, OpenHasRoute, HandoffOpen, PumpHolds, AwaitsSink
<1>3. RetryIsHeld'
  BY DEF PipelineInv, CallerFits, RetryIsHeld
<1>4. ReturnsSettled'
  BY DEF PipelineInv, CallerFits, ReturnsSettled, Settlement
<1> QED
  BY <1>1, <1>2, <1>3, <1>4 DEF CallerKeeps, CallerFits

(* Answer: the handoff opens, with the route's result.                     *)
LEMMA AnswerFits == ASSUME PipelineInv, IInv', Answer PROVE CallerKeeps
<1>1. /\ ~HandoffOpen /\ pendingRoute' = TRUE /\ handoff' = "pending_player_display"
      /\ UNCHANGED <<pendingRetry, retries, pump, records, tokens, sinks, invalidated>>
      /\ ~invalidated
  BY DEF Answer, Commit, external
<1>2. pump.stage = "idle"
  BY <1>1 DEF PipelineInv, CallerFits, PumpHolds, HandoffOpen
<1>3. PipelineTypeOK'
  BY <1>1 DEF PipelineInv, PipelineTypeOK, IInv, Handoffs
<1>4. OpenHasRoute' /\ PumpHolds' /\ AwaitsSink'
  BY <1>1, <1>2 DEF OpenHasRoute, HandoffOpen, PumpHolds, AwaitsSink
<1>5. RetryIsHeld' /\ ReturnsSettled'
  BY <1>1, <1>2 DEF PipelineInv, CallerFits, RetryIsHeld, Waits, ReturnsSettled
<1> QED
  BY <1>3, <1>4, <1>5 DEF CallerKeeps, CallerFits

(* Destroy: nothing is left to deliver, or to retry.                       *)
LEMMA DestroyFits == ASSUME PipelineInv, IInv', Destroy PROVE CallerKeeps
<1>1. /\ handoff' = IF HandoffOpen THEN "abandoned" ELSE handoff
      /\ pendingRoute' = FALSE /\ pendingRetry' = None /\ retries' = {}
      /\ invalidated' = TRUE /\ UNCHANGED <<pump, sinks>>
  BY DEF Destroy, Reset, external
<1>2. PipelineTypeOK'
  BY <1>1 DEF PipelineInv, PipelineTypeOK, IInv, Handoffs
<1>3. ~HandoffOpen'
  BY <1>1 DEF HandoffOpen
<1>4. OpenHasRoute' /\ PumpHolds' /\ AwaitsSink'
  BY <1>1, <1>3 DEF PipelineInv, CallerFits, OpenHasRoute, PumpHolds, AwaitsSink
<1>5. RetryIsHeld' /\ ReturnsSettled'
  BY <1>1 DEF RetryIsHeld, ReturnsSettled
<1> QED
  BY <1>2, <1>4, <1>5 DEF CallerKeeps, CallerFits

(* A pump that ends, with the handoff settled or left for a retry.         *)
LEMMA PumpEnds ==
    ASSUME PipelineInv, IInv', pump' = Idle, UNCHANGED invalidated, ~invalidated,
           \/ handoff' = "settled" /\ pendingRoute' \in BOOLEAN
           \/ handoff' = "pending_delivery_retry" /\ UNCHANGED pendingRoute /\ HandoffOpen,
           pendingRetry' \in [slot : Slots, number : Numbers, kind : Kinds] \union {None},
           retries' \subseteq tokens',
           \A s \in Slots : Waits(s)' => pendingRetry' # None
    PROVE  CallerKeeps
<1>1. pump'.stage = "idle" /\ pump'.attempt = None
  BY DEF Idle
<1>2. PipelineTypeOK'
  BY <1>1 DEF PipelineInv, PipelineTypeOK, IInv, Handoffs
<1>3. OpenHasRoute'
  BY DEF PipelineInv, CallerFits, OpenHasRoute, HandoffOpen
<1>4. PumpHolds' /\ AwaitsSink' /\ ReturnsSettled' /\ RetryIsHeld'
  BY <1>1 DEF PumpHolds, AwaitsSink, ReturnsSettled, RetryIsHeld
<1> QED
  BY <1>2, <1>3, <1>4 DEF CallerKeeps, CallerFits

(* A pump that goes on: it keeps the handoff, and no answer waits but one  *)
(* whose retry is held.                                                    *)
LEMMA PumpGoesOn ==
    ASSUME PipelineInv, IInv', NEW stage \in {"preparing", "beginning", "awaiting"},
           NEW a \in Slots \X Numbers, Continues(stage, a),
           UNCHANGED invalidated, ~invalidated, HandoffOpen, retries' = {},
           stage = "awaiting" => a \in DOMAIN sinks',
           \A s \in Slots : Waits(s)' => pendingRetry # None
    PROVE  CallerKeeps
<1>1. /\ pump'.stage = stage /\ pump'.attempt = a /\ handoff' = "in_progress"
      /\ UNCHANGED <<pendingRoute, pendingRetry>>
  BY DEF Continues, At
<1>2. PipelineTypeOK'
  BY <1>1 DEF PipelineInv, PipelineTypeOK, IInv, Handoffs, Synchronous
<1>3. OpenHasRoute' /\ PumpHolds' /\ AwaitsSink'
  BY <1>1 DEF PipelineInv, CallerFits, OpenHasRoute, HandoffOpen, PumpHolds, AwaitsSink
<1>4. RetryIsHeld' /\ ReturnsSettled'
  BY <1>1 DEF RetryIsHeld, ReturnsSettled
<1> QED
  BY <1>2, <1>3, <1>4 DEF CallerKeeps, CallerFits

-----------------------------------------------------------------------------
(* The steps of a pump.                                                    *)

(* A pump under way has the handoff.                                       *)
LEMMA UnderWay ==
    ASSUME PipelineInv, ~invalidated, pump.stage # "idle"
    PROVE  HandoffOpen /\ pump.attempt \in Slots \X Numbers /\ retries = {}
BY DEF PipelineInv, CallerFits, PumpHolds, HandoffOpen

(* A pump that may start finds no pump under way.                          *)
LEMMA StartsIdle ==
    ASSUME PipelineInv, Pumps
    PROVE  /\ HandoffOpen /\ ~invalidated /\ pump.stage = "idle"
           /\ \A s \in Slots : Waits(s) => pendingRetry # None
<1>1. HandoffOpen /\ ~invalidated /\ pump.stage = "idle"
  BY DEF Pumps, MayPump, HandoffOpen, Idle
<1> QED
  BY <1>1 DEF PipelineInv, CallerFits, RetryIsHeld

(* PumpFindsNothing: nothing waits, so nothing is forgotten.               *)
LEMMA FindsNothingFits == ASSUME PipelineInv, IInv', PumpFindsNothing PROVE CallerKeeps
<1>1. /\ Pumps /\ pendingRetry = None /\ Settled /\ UNCHANGED <<retries, tokens>>
      /\ UNCHANGED <<records, invalidated>>
  BY DEF PumpFindsNothing, vars, root
<1>2. ~invalidated /\ \A s \in Slots : ~Waits(s)
  BY <1>1, StartsIdle
<1>3. \A s \in Slots : ~Waits(s)'
  BY <1>1, <1>2 DEF Waits
<1>4. /\ pump' = Idle /\ handoff' = "settled" /\ pendingRoute' \in BOOLEAN /\ pendingRetry' = None
      /\ retries' \subseteq tokens'
  BY <1>1 DEF Settled, PipelineInv, PipelineTypeOK
<1> QED
  BY <1>1, <1>2, <1>3, <1>4, PumpEnds

(* PumpDiscovers: no retry is on offer, as none is held.                   *)
LEMMA DiscoversFits ==
    ASSUME PipelineInv, IInv', NEW s \in Slots, PumpDiscovers(s) PROVE CallerKeeps
<1> DEFINE a == <<s, Len(attempts[s]) + 1>>
<1>1. /\ Pumps /\ pendingRetry = None /\ IsHead(s)
      /\ Discover(s) \/ (records[s] # None /\ records[s].state = "pending" /\ UNCHANGED vars)
      /\ Continues("preparing", a) /\ UNCHANGED retries
  BY DEF PumpDiscovers
<1>2. HandoffOpen /\ ~invalidated /\ \A t \in Slots : ~Waits(t)
  BY <1>1, StartsIdle
<1>3. retries = {}
  <2>1. ASSUME NEW t \in retries PROVE FALSE
    <3>1. t \in tokens /\ t.slot \in Slots
      BY DEF PipelineInv, PipelineTypeOK, TypeOK
    <3> QED
      BY <1>2, <3>1, OneToken DEF PipelineInv
  <2> QED
    BY <2>1
<1>4. UNCHANGED invalidated
  BY <1>1 DEF Discover, vars
<1>5. \A t \in Slots : ~Waits(t)'
  <2>1. CASE Discover(s)
    <3>1. records' = [records EXCEPT ![s] = Pending] /\ Pending.state = "pending"
      BY <2>1 DEF Discover, Pending
    <3>2. s \in DOMAIN records
      BY DEF PipelineInv, IInv, TypeOK
    <3>3. records'[s].state = "pending" /\ \A t \in Slots \ {s} : records'[t] = records[t]
      BY <3>1, <3>2
    <3> QED
      BY <1>2, <3>3 DEF Waits
  <2>2. CASE UNCHANGED vars
    BY <1>2, <2>2 DEF Waits, vars, root
  <2> QED
    BY <1>1, <2>1, <2>2
<1>6. a \in Slots \X Numbers
  <2>1. Len(attempts[s]) < MaxPerPublicationAttempts
    <3>1. CASE Discover(s)
      <4>1. records[s] = None
        BY <3>1 DEF Discover
      <4>2. attempts[s] = <<>>
        BY <4>1 DEF PipelineInv, IInv, RootFits, NothingAhead
      <4> QED
        BY <4>2 DEF MaxPerPublicationAttempts
    <3>2. CASE records[s] # None /\ records[s].state = "pending"
      BY <3>2 DEF PipelineInv, IInv, RootFits, RecordsAreTheLast, RecordIsTheLast
    <3> QED
      BY <1>1, <3>1, <3>2
  <2>2. Len(attempts[s]) \in Nat /\ Numbers = 1..3
    BY Shapes DEF PipelineInv, IInv
  <2>3. Len(attempts[s]) + 1 \in Numbers
    BY <2>1, <2>2 DEF MaxPerPublicationAttempts
  <2> QED
    BY <2>3
<1> HIDE DEF a
<1>7. retries' = {} /\ "preparing" \in {"preparing", "beginning", "awaiting"}
  BY <1>1, <1>3
<1> QED
  BY <1>1, <1>2, <1>4, <1>5, <1>6, <1>7, PumpGoesOn

(* PumpPrepares: a new attempt, or a failure for good; neither waits.      *)
LEMMA PreparesFits ==
    ASSUME PipelineInv, IInv', NEW renders \in BOOLEAN, PumpPrepares(renders) PROVE CallerKeeps
<1> DEFINE s == pump.attempt[1]
<1>1. /\ pump.stage = "preparing" /\ Prepare(s, renders) /\ UNCHANGED retries
      /\ IF renders THEN Continues("beginning", pump.attempt) ELSE DeliveryFailed
  BY DEF PumpPrepares
<1>2. ~invalidated /\ UNCHANGED <<invalidated, tokens>>
  BY <1>1 DEF Prepare, MayPrepare
<1>3. HandoffOpen /\ pump.attempt \in Slots \X Numbers /\ retries = {} /\ s \in Slots
  BY <1>1, <1>2, UnderWay
<1>4. \A t \in Slots : Waits(t) => pendingRetry # None
  BY <1>1, <1>2 DEF PipelineInv, CallerFits, RetryIsHeld
<1>5. records'[s].state \in {"prepared", "failed_terminal"}
      /\ \A t \in Slots \ {s} : records'[t] = records[t]
  <2> DEFINE state == IF renders THEN "prepared" ELSE "failed_terminal"
  <2> DEFINE new == [state |-> state, generation |-> generation, token |-> None]
  <2>1. records' = [records EXCEPT ![s] = RecordFor(new, Len(attempts[s]) + 1)]
    BY <1>1 DEF Prepare, Starts
  <2>2. s \in DOMAIN records /\ RecordFor(new, Len(attempts[s]) + 1).state = state
    BY <1>3 DEF PipelineInv, IInv, TypeOK, RecordFor
  <2> QED
    BY <2>1, <2>2
<1>6. \A t \in Slots : Waits(t)' => pendingRetry # None
  BY <1>4, <1>5 DEF Waits
<1> HIDE DEF s
<1>7. CASE renders
  <2>1. Continues("beginning", pump.attempt) /\ retries' = {}
    BY <1>1, <1>3, <1>7
  <2> QED
    BY <1>2, <1>3, <1>6, <2>1, PumpGoesOn
<1>8. CASE ~renders
  <2>1. /\ handoff' = "pending_delivery_retry" /\ pump' = Idle
        /\ UNCHANGED <<pendingRoute, pendingRetry>>
    BY <1>1, <1>8 DEF DeliveryFailed
  <2>2. /\ pendingRetry' \in [slot : Slots, number : Numbers, kind : Kinds] \union {None}
        /\ retries' \subseteq tokens'
    BY <1>1, <1>2, <2>1 DEF PipelineInv, PipelineTypeOK
  <2> QED
    BY <1>2, <1>3, <1>6, <2>1, <2>2, PumpEnds
<1> QED
  BY <1>7, <1>8

(* PumpBegins: the sink is called, and the pump waits for it.              *)
LEMMA BeginsFits == ASSUME PipelineInv, IInv', PumpBegins PROVE CallerKeeps
<1>1. /\ pump.stage = "beginning" /\ Begin(pump.attempt) /\ UNCHANGED retries
      /\ Continues("awaiting", pump.attempt)
  BY DEF PumpBegins
<1>2. /\ ~invalidated /\ UNCHANGED invalidated /\ pump.attempt \in DOMAIN sinks'
  BY <1>1 DEF Begin
<1>3. HandoffOpen /\ pump.attempt \in Slots \X Numbers /\ retries = {}
  BY <1>1, <1>2, UnderWay
<1>4. PICK s \in Slots, n \in Numbers : pump.attempt = <<s, n>>
  BY <1>3
<1>5. \A t \in Slots : Waits(t) => pendingRetry # None
  BY <1>1, <1>2 DEF PipelineInv, CallerFits, RetryIsHeld
<1>6. /\ records'[s].state = "in_flight" /\ \A t \in Slots \ {s} : records'[t] = records[t]
  <2> DEFINE new == [attempts[s][n] EXCEPT !.state = "in_flight"]
  <2>1. Becomes(<<s, n>>, new) /\ <<s, n>> \in requests
    BY <1>1, <1>4 DEF Begin
  <2>2. n \in DOMAIN attempts[s]
    BY <2>1, IndexedAreActive DEF PipelineInv, ActiveStates
  <2>3. attempts[s][n] \in Attempt
    BY <2>2, Shapes DEF PipelineInv, IInv
  <2>4. new \in Attempt /\ new.state = "in_flight"
    BY <2>3 DEF Attempt, ActiveStates
  <2> HIDE DEF new
  <2> QED
    BY <2>1, <2>4, BecomesRecord DEF PipelineInv
<1>7. \A t \in Slots : Waits(t)' => pendingRetry # None
  BY <1>5, <1>6 DEF Waits
<1> QED
  BY <1>1, <1>2, <1>3, <1>7, PumpGoesOn

(* PumpRepeats: the one retry there was is used up.                        *)
LEMMA RepeatsFits == ASSUME PipelineInv, IInv', PumpRepeats PROVE CallerKeeps
<1> DEFINE t == pendingRetry
<1> DEFINE a == <<t.slot, t.number + 1>>
<1>1. /\ Pumps /\ t \in retries /\ t.kind = "repeat_sink" /\ Retry(t)
      /\ retries' = retries \ {t} /\ Continues("beginning", a)
  BY DEF PumpRepeats, Consumed
<1>2. HandoffOpen /\ ~invalidated
  BY <1>1, StartsIdle
<1>3. t \in tokens /\ t \in [slot : Slots, number : Numbers, kind : Kinds] /\ UNCHANGED invalidated
  BY <1>1 DEF PipelineInv, PipelineTypeOK, TypeOK, Retry
<1>4. retries' = {}
  <2>1. \A u \in retries : u = t
    BY <1>3, OneToken DEF PipelineInv, PipelineTypeOK
  <2> QED
    BY <1>1, <2>1
<1>5. pendingRetry # None
  BY <1>3, NoRetryAssumption
<1>6. a \in Slots \X Numbers
  <2>1. StandsAt(t.slot, t.number, "failed_retryable")
    BY <1>1, <1>3 DEF PipelineInv, IInv, IndexesMatch
  <2>2. t.number = Len(attempts[t.slot])
    BY <1>3, <2>1, StandsAtLast DEF PipelineInv, ActiveStates
  <2>3. Len(attempts[t.slot]) < MaxPerPublicationAttempts
    BY <1>3, <2>1 DEF PipelineInv, IInv, RootFits, RecordsAreTheLast, RecordIsTheLast, StandsAt
  <2>4. Numbers = 1..3 /\ t.slot \in Slots /\ t.number \in Numbers
    BY <1>3 DEF Numbers, MaxPerPublicationAttempts
  <2>5. t.number + 1 \in Numbers
    BY <2>2, <2>3, <2>4 DEF MaxPerPublicationAttempts
  <2> QED
    BY <2>4, <2>5
<1> HIDE DEF a, t
<1> QED
  BY <1>1, <1>2, <1>3, <1>4, <1>5, <1>6, PumpGoesOn

(* PumpAcknowledges: the answer shown before is acknowledged at last.      *)
LEMMA AcknowledgesFits == ASSUME PipelineInv, IInv', PumpAcknowledges PROVE CallerKeeps
<1> DEFINE a == <<pendingRetry.slot, pendingRetry.number>>
<1>1. /\ Pumps /\ pendingRetry \in retries /\ pendingRetry.kind = "ack_only"
      /\ Acknowledge(a) /\ retries' = retries \ {pendingRetry} /\ Settled
  BY DEF PumpAcknowledges, Consumed
<1>2. HandoffOpen /\ ~invalidated
  BY <1>1, StartsIdle
<1>3. pendingRetry \in [slot : Slots, number : Numbers, kind : Kinds] /\ retries \subseteq tokens
  BY <1>1 DEF PipelineInv, PipelineTypeOK, TypeOK
<1>4. a \in Slots \X Numbers /\ TokenOf(a, "ack_only") = pendingRetry
  BY <1>1, <1>3 DEF TokenOf
<1> HIDE DEF a
<1>5. /\ \A t \in Slots : ~Waits(t)'
      /\ tokens' = tokens \ {pendingRetry} /\ UNCHANGED invalidated
  BY <1>1, <1>2, <1>4, NoneWaitsThen DEF PipelineInv, Acknowledge
<1>6. retries' \subseteq tokens'
  BY <1>1, <1>3, <1>5
<1>7. /\ pump' = Idle /\ handoff' = "settled" /\ pendingRoute' \in BOOLEAN /\ pendingRetry' = None
  BY <1>1 DEF Settled
<1> QED
  BY <1>2, <1>5, <1>6, <1>7, PumpEnds

(* PumpRefused: the retry that is held is held on.                         *)
LEMMA RefusedFits == ASSUME PipelineInv, IInv', PumpRefused PROVE CallerKeeps
<1>1. /\ Pumps /\ pendingRetry # None /\ DeliveryFailed
      /\ UNCHANGED <<retries, tokens, invalidated>>
  BY DEF PumpRefused, vars, root
<1>2. HandoffOpen /\ ~invalidated
  BY <1>1, StartsIdle
<1>3. /\ pump' = Idle /\ handoff' = "pending_delivery_retry"
      /\ UNCHANGED <<pendingRoute, pendingRetry>>
  BY <1>1 DEF DeliveryFailed
<1>4. /\ pendingRetry' \in [slot : Slots, number : Numbers, kind : Kinds] \union {None}
      /\ retries' \subseteq tokens'
  BY <1>1, <1>3 DEF PipelineInv, PipelineTypeOK
<1> QED
  BY <1>1, <1>2, <1>3, <1>4, PumpEnds

(* PumpThrows: what threw was not a settlement that waits for a retry, or  *)
(* the retry is held already.                                              *)
LEMMA ThrowsFits == ASSUME PipelineInv, IInv', PumpThrows PROVE CallerKeeps
<1>1. /\ ~invalidated /\ pump.stage = "thrown" /\ DeliveryFailed
      /\ UNCHANGED <<retries, tokens, invalidated, records>>
  BY DEF PumpThrows, vars, root
<1>2. HandoffOpen
  BY <1>1, UnderWay
<1>3. /\ pump' = Idle /\ handoff' = "pending_delivery_retry"
      /\ UNCHANGED <<pendingRoute, pendingRetry>>
  BY <1>1 DEF DeliveryFailed
<1>4. /\ pendingRetry' \in [slot : Slots, number : Numbers, kind : Kinds] \union {None}
      /\ retries' \subseteq tokens'
  BY <1>1, <1>3 DEF PipelineInv, PipelineTypeOK
<1>5. \A t \in Slots : Waits(t)' => pendingRetry' # None
  BY <1>1, <1>3 DEF PipelineInv, CallerFits, RetryIsHeld, Waits
<1> QED
  BY <1>1, <1>2, <1>3, <1>4, <1>5, PumpEnds

(* A pump that returns finds its attempt settled, the state being that of  *)
(* its record.                                                             *)
LEMMA ReturnsTo ==
    ASSUME PipelineInv, NEW state, ReturnedState(state)
    PROVE  /\ ~invalidated /\ pump.stage = "returned" /\ HandoffOpen
           /\ pump.attempt \in Slots \X Numbers /\ retries = {}
           /\ Settlement(pump.attempt) /\ records[pump.attempt[1]].state = state
<1>1. ~invalidated /\ pump.stage = "returned" /\ StateOf(pump.attempt) = state
  BY DEF ReturnedState
<1>2. HandoffOpen /\ pump.attempt \in Slots \X Numbers /\ retries = {}
  BY <1>1, UnderWay
<1>3. Settlement(pump.attempt)
  BY <1>1 DEF PipelineInv, CallerFits, ReturnsSettled
<1>4. PICK s \in Slots, n \in Numbers : pump.attempt = <<s, n>>
  BY <1>2
<1>5. records[s].state = state
  <2>1. /\ records[s] # None /\ records[s].number = n
        /\ records[s].state \in {"failed_retryable", "failed_terminal", "sink_succeeded"}
    BY <1>3, <1>4 DEF Settlement
  <2>2. /\ n = Len(attempts[s]) /\ Len(attempts[s]) > 0
        /\ records[s] = RecordFor(attempts[s][n], n)
    BY <2>1 DEF PipelineInv, IInv, RootFits, RecordsAreTheLast, RecordIsTheLast
  <2>3. records[s].state = attempts[s][n].state
    BY <2>2 DEF RecordFor
  <2> QED
    BY <1>1, <1>4, <2>3 DEF StateOf
<1> QED
  BY <1>1, <1>2, <1>3, <1>4, <1>5

(* A pump that offers a retry: the integration now holds it.               *)
LEMMA OffersRetry ==
    ASSUME PipelineInv, IInv', NEW kind \in Kinds, Retries(kind), UNCHANGED vars,
           NEW state, ReturnedState(state), TokenOf(pump.attempt, kind) \in tokens
    PROVE  CallerKeeps
<1> DEFINE t == TokenOf(pump.attempt, kind)
<1>1. /\ ~invalidated /\ HandoffOpen /\ pump.attempt \in Slots \X Numbers /\ retries = {}
  BY ReturnsTo
<1>2. /\ pump' = Idle /\ handoff' = "pending_delivery_retry" /\ UNCHANGED pendingRoute
      /\ pendingRetry' = t /\ retries' = retries \union {t}
  BY DEF Retries, RetryRequired, TokenOf
<1>3. t \in [slot : Slots, number : Numbers, kind : Kinds]
  BY <1>1 DEF TokenOf
<1>4. UNCHANGED <<tokens, invalidated>>
  BY DEF vars, root
<1> HIDE DEF t
<1>5. retries' \subseteq tokens'
  BY <1>1, <1>2, <1>4 DEF t
<1>6. pendingRetry' # None
  BY <1>2, <1>3, NoRetryAssumption
<1> QED
  BY <1>1, <1>2, <1>3, <1>4, <1>5, <1>6, PumpEnds

(* PumpFailsForNow, PumpIsNotAcknowledged                                  *)
LEMMA RetryRequiredFits ==
    ASSUME PipelineInv, IInv', PumpFailsForNow \/ PumpIsNotAcknowledged PROVE CallerKeeps
<1>1. CASE PumpFailsForNow
  <2>1. ReturnedState("failed_retryable") /\ Retries("repeat_sink") /\ UNCHANGED vars
    BY <1>1 DEF PumpFailsForNow
  <2>2. TokenOf(pump.attempt, "repeat_sink") \in tokens
    BY <2>1, ReturnsTo DEF Settlement
  <2>3. "repeat_sink" \in Kinds
    BY DEF Kinds
  <2> QED
    BY <2>1, <2>2, <2>3, OffersRetry
<1>2. CASE PumpIsNotAcknowledged
  <2>1. ReturnedState("sink_succeeded") /\ Retries("ack_only") /\ UNCHANGED vars
    BY <1>2 DEF PumpIsNotAcknowledged
  <2>2. TokenOf(pump.attempt, "ack_only") \in tokens
    BY <2>1, ReturnsTo DEF Settlement
  <2>3. "ack_only" \in Kinds
    BY DEF Kinds
  <2> QED
    BY <2>1, <2>2, <2>3, OffersRetry
<1> QED
  BY <1>1, <1>2

(* PumpFailsForGood: the one answer that could wait has failed for good.   *)
LEMMA FailsForGoodFits == ASSUME PipelineInv, IInv', PumpFailsForGood PROVE CallerKeeps
<1>1. ReturnedState("failed_terminal") /\ Settled /\ UNCHANGED <<retries, tokens, records>>
      /\ UNCHANGED invalidated
  BY DEF PumpFailsForGood, vars, root
<1>2. /\ ~invalidated /\ pump.attempt \in Slots \X Numbers /\ retries = {}
      /\ records[pump.attempt[1]] # None /\ records[pump.attempt[1]].state = "failed_terminal"
  BY <1>1, ReturnsTo DEF Settlement
<1>3. ASSUME NEW t \in Slots, Waits(t) PROVE FALSE
  <2>1. t = Len(acks) + 1
    BY <1>3, OpenIsHead DEF Waits, PipelineInv
  <2>2. pump.attempt[1] \in Slots
    BY <1>2
  <2>3. pump.attempt[1] = Len(acks) + 1
    BY <1>2, <2>2, OpenIsHead DEF PipelineInv
  <2> QED
    BY <1>2, <1>3, <2>1, <2>3 DEF Waits
<1>4. \A t \in Slots : ~Waits(t)'
  BY <1>1, <1>3 DEF Waits
<1>5. /\ pump' = Idle /\ handoff' = "settled" /\ pendingRoute' \in BOOLEAN /\ pendingRetry' = None
      /\ retries' \subseteq tokens'
  BY <1>1, <1>2 DEF Settled
<1> QED
  BY <1>1, <1>2, <1>4, <1>5, PumpEnds

(* PumpDelivers: the answer shown is acknowledged.                         *)
LEMMA DeliversFits == ASSUME PipelineInv, IInv', PumpDelivers PROVE CallerKeeps
<1>1. /\ ReturnedState("sink_succeeded") /\ Acknowledge(pump.attempt) /\ Settled
      /\ UNCHANGED retries
  BY DEF PumpDelivers
<1>2. ~invalidated /\ pump.attempt \in Slots \X Numbers /\ retries = {}
  BY <1>1, ReturnsTo
<1>3. (\A t \in Slots : ~Waits(t)') /\ UNCHANGED invalidated
  BY <1>1, <1>2, NoneWaitsThen DEF PipelineInv, Acknowledge
<1>4. /\ pump' = Idle /\ handoff' = "settled" /\ pendingRoute' \in BOOLEAN /\ pendingRetry' = None
      /\ retries' \subseteq tokens'
  BY <1>1, <1>2 DEF Settled
<1> QED
  BY <1>2, <1>3, <1>4, PumpEnds

(* PumpOutlivesGame: there is nothing left to agree on.                    *)
LEMMA OutlivesFits == ASSUME PipelineInv, IInv', PumpOutlivesGame PROVE CallerKeeps
<1>1. /\ invalidated /\ pump' = Idle
      /\ UNCHANGED <<invalidated, tokens, handoff, pendingRoute, pendingRetry, retries>>
  BY DEF PumpOutlivesGame, vars, root
<1>2. pump'.stage = "idle" /\ pump'.attempt = None
  BY <1>1 DEF Idle
<1>3. PipelineTypeOK'
  BY <1>1, <1>2 DEF PipelineInv, PipelineTypeOK, IInv
<1>4. OpenHasRoute' /\ PumpHolds' /\ AwaitsSink' /\ RetryIsHeld' /\ ReturnsSettled'
  BY <1>1, <1>2 DEF PipelineInv, CallerFits, OpenHasRoute, HandoffOpen, PumpHolds, AwaitsSink,
                    RetryIsHeld, ReturnsSettled
<1> QED
  BY <1>3, <1>4 DEF CallerKeeps, CallerFits

-----------------------------------------------------------------------------
(* Sinks and timers.                                                       *)

(* A report in time settles its attempt, and what settled it is held.      *)
LEMMA TimelySettles ==
    ASSUME PipelineInv, NEW s \in Slots, NEW n \in Numbers, ~invalidated,
           <<s, n>> \in DOMAIN gates, gates[<<s, n>>].stage = "timely", SinkReports(<<s, n>>)
    PROVE  Settlement(<<s, n>>)'
<1>1. \/ Complete(<<s, n>>)
      \/ \E proved \in BOOLEAN : RecordFailure(<<s, n>>, FALSE, proved)
  BY DEF SinkReports
<1>2. \/ Succeeds(<<s, n>>)
      \/ \E proved \in BOOLEAN : Fails(<<s, n>>, proved /\ AttemptsLeft(<<s, n>>))
  BY <1>1 DEF Complete, RecordFailure
<1>3. CASE Succeeds(<<s, n>>)
  <2>1. /\ records'[s] # None /\ records'[s].number = n /\ records'[s].state = "sink_succeeded"
        /\ TokenOf(<<s, n>>, "ack_only") \in tokens'
    BY <1>3, SucceedsRecord DEF PipelineInv
  <2> QED
    BY <2>1 DEF Settlement, TokenOf
<1>4. CASE \E proved \in BOOLEAN : Fails(<<s, n>>, proved /\ AttemptsLeft(<<s, n>>))
  <2>1. PICK proved \in BOOLEAN : Fails(<<s, n>>, proved /\ AttemptsLeft(<<s, n>>))
    BY <1>4
  <2> DEFINE retryable == proved /\ AttemptsLeft(<<s, n>>)
  <2>2. retryable \in BOOLEAN /\ Fails(<<s, n>>, retryable)
    BY <2>1
  <2> HIDE DEF retryable
  <2>3. /\ records'[s] # None /\ records'[s].number = n
        /\ records'[s].state = IF retryable THEN "failed_retryable" ELSE "failed_terminal"
        /\ tokens' = IF retryable THEN tokens \union {TokenOf(<<s, n>>, "repeat_sink")}
                     ELSE tokens
    BY <2>2, FailsRecord DEF PipelineInv
  <2> QED
    BY <2>3 DEF Settlement, TokenOf
<1> QED
  BY <1>2, <1>3, <1>4

(* After an attempt that timed out, no more answers wait than before.      *)
LEMMA TimesOutWaits ==
    ASSUME PipelineInv, NEW s \in Slots, NEW n \in Numbers, <<s, n>> \in DOMAIN gates,
           TimesOut(<<s, n>>)
    PROVE  (\A t \in Slots : Waits(t)' => Waits(t)) /\ UNCHANGED <<tokens, invalidated>>
<1>1. /\ records'[s].state = "failed_terminal" /\ \A t \in Slots \ {s} : records'[t] = records[t]
      /\ UNCHANGED tokens
  BY FailsRecord DEF PipelineInv, TimesOut
<1>2. UNCHANGED invalidated
  BY DEF TimesOut, Fails
<1> QED
  BY <1>1, <1>2 DEF Waits

(* A report that is late leaves no answer waiting that did not wait before.*)
LEMMA LateWaits ==
    ASSUME PipelineInv, NEW s \in Slots, NEW n \in Numbers, SinkReports(<<s, n>>),
           ~invalidated, ~(<<s, n>> \in DOMAIN gates /\ gates[<<s, n>>].stage = "timely")
    PROVE  \A t \in Slots : Waits(t)' => Waits(t)
<1>1. CASE <<s, n>> \notin DOMAIN gates
  BY <1>1 DEF SinkReports, controller, root, Waits
<1>2. CASE <<s, n>> \in DOMAIN gates
  <2>1. \/ Complete(<<s, n>>)
        \/ \E proved \in BOOLEAN : RecordFailure(<<s, n>>, FALSE, proved)
    BY <1>2 DEF SinkReports
  <2>2. gates[<<s, n>>].stage \in {"grace", "elapsed"}
    <3>1. gates[<<s, n>>] \in Gate
      BY <1>2 DEF PipelineInv, IInv, TypeOK
    <3> QED
      BY <1>2, <3>1 DEF Gate
  <2>3. TimesOut(<<s, n>>) \/ UNCHANGED root
    BY <2>1, <2>2 DEF Complete, RecordFailure, Latches
  <2> QED
    BY <1>2, <2>3, TimesOutWaits DEF root, Waits
<1> QED
  BY <1>1, <1>2

(* SinkReports: the pump that waited for the sink goes on.                 *)
LEMMA ReportsFits ==
    ASSUME PipelineInv, IInv', NEW a \in Slots \X Numbers, SinkReports(a) PROVE CallerKeeps
<1> DEFINE timely == a \in DOMAIN gates /\ gates[a].stage = "timely"
<1>1. PICK s \in Slots, n \in Numbers : a = <<s, n>>
  OBVIOUS
<1>2. /\ pump.stage = "awaiting" /\ pump.attempt = a
      /\ pump'.stage = IF timely THEN "returned" ELSE "thrown"
      /\ pump'.attempt = a
      /\ UNCHANGED <<handoff, pendingRoute, pendingRetry, retries>>
  BY DEF SinkReports, At
<1>3. UNCHANGED invalidated
  <2>1. \/ UNCHANGED invalidated \/ Complete(a)
        \/ \E proved \in BOOLEAN : RecordFailure(a, FALSE, proved)
    BY DEF SinkReports, controller
  <2> QED
    BY <2>1 DEF Complete, RecordFailure, Succeeds, TimesOut, Fails, Latches
<1>4. retries = {} /\ (~invalidated => handoff = "in_progress")
  BY <1>2 DEF PipelineInv, CallerFits, PumpHolds
<1>5. PipelineTypeOK'
  BY <1>2, <1>4 DEF PipelineInv, PipelineTypeOK, IInv, Synchronous
<1>6. OpenHasRoute' /\ PumpHolds' /\ AwaitsSink'
  BY <1>2, <1>3, <1>4 DEF PipelineInv, CallerFits, OpenHasRoute, HandoffOpen, PumpHolds,
                          AwaitsSink
<1>7. RetryIsHeld'
  <2>1. CASE timely \/ invalidated
    BY <1>2, <1>3, <2>1 DEF RetryIsHeld
  <2>2. CASE ~timely /\ ~invalidated
    <3>1. \A t \in Slots : Waits(t)' => Waits(t)
      BY <1>1, <2>2, LateWaits
    <3>2. \A t \in Slots : Waits(t) => pendingRetry # None
      BY <1>2, <2>2 DEF PipelineInv, CallerFits, RetryIsHeld
    <3> QED
      BY <1>2, <3>1, <3>2 DEF RetryIsHeld
  <2> QED
    BY <2>1, <2>2
<1>8. ReturnsSettled'
  <2>1. ASSUME timely, ~invalidated PROVE Settlement(a)'
    BY <1>1, <2>1, TimelySettles
  <2> QED
    BY <1>2, <1>3, <2>1 DEF ReturnsSettled
<1> HIDE DEF timely
<1> QED
  BY <1>5, <1>6, <1>7, <1>8 DEF CallerKeeps, CallerFits

(* Write: the sink shows the answer, or does not.                          *)
LEMMA WriteFits ==
    ASSUME PipelineInv, IInv', NEW a \in Slots \X Numbers, Write(a), UNCHANGED caller
    PROVE  CallerKeeps
<1>1. /\ UNCHANGED <<handoff, pendingRoute, pendingRetry, retries, pump>>
      /\ UNCHANGED <<invalidated, tokens>> /\ UNCHANGED records
  BY DEF Write, caller, root
<1>2. DOMAIN sinks' = DOMAIN sinks
  <2>1. \E outcome \in SinkStates : sinks' = [sinks EXCEPT ![a] = outcome]
    BY DEF Write, SinkStates
  <2> QED
    BY <2>1
<1>3. \A s \in Slots : Waits(s)' => Waits(s)
  BY <1>1 DEF Waits
<1> QED
  BY <1>1, <1>2, <1>3, CallerWaits

(* Elapse, and the timers: a pump that returns finds no attempt in flight. *)
LEMMA TimeFits ==
    ASSUME PipelineInv, IInv', NEW a \in Slots \X Numbers, Elapse(a) \/ Settle(a),
           UNCHANGED caller
    PROVE  CallerKeeps
<1>1. PICK s \in Slots, n \in Numbers : a = <<s, n>>
  OBVIOUS
<1>2. /\ UNCHANGED <<handoff, pendingRoute, pendingRetry, retries, pump>>
      /\ a \in DOMAIN gates /\ DOMAIN sinks' = DOMAIN sinks
  BY DEF caller, Elapse, Settle, PrimaryTimer, CleanupTimer, external
<1>3. UNCHANGED <<root, invalidated>> \/ TimesOut(a)
  BY DEF Elapse, Settle, PrimaryTimer, CleanupTimer, Latches
<1>4. CASE UNCHANGED <<root, invalidated>>
  <2>1. UNCHANGED <<invalidated, tokens>> /\ UNCHANGED records
    BY <1>4 DEF root
  <2>2. \A t \in Slots : Waits(t)' => Waits(t)
    BY <2>1 DEF Waits
  <2> QED
    BY <1>2, <2>1, <2>2, CallerWaits
<1>5. CASE TimesOut(a)
  <2>1. (\A t \in Slots : Waits(t)' => Waits(t)) /\ UNCHANGED <<tokens, invalidated>>
    BY <1>1, <1>2, <1>5, TimesOutWaits
  <2>2. ASSUME pump.stage = "returned", ~invalidated PROVE FALSE
    <3>1. s = Len(acks) + 1 /\ records[s].state = "in_flight"
      BY <1>1, <1>2, IndexedAreActive DEF PipelineInv, ActiveStates
    <3>2. pump.attempt[1] \in Slots
      BY <2>2, UnderWay
    <3>3. /\ records[pump.attempt[1]] # None
          /\ records[pump.attempt[1]].state \in
               {"failed_retryable", "failed_terminal", "sink_succeeded"}
      BY <2>2 DEF PipelineInv, CallerFits, ReturnsSettled, Settlement
    <3>4. pump.attempt[1] = Len(acks) + 1
      BY <3>2, <3>3, OpenIsHead DEF PipelineInv
    <3> QED
      BY <3>1, <3>3, <3>4
  <2> QED
    BY <1>2, <2>1, <2>2, CallerWaits
<1> QED
  BY <1>3, <1>4, <1>5

-----------------------------------------------------------------------------
(* The theorems.                                                           *)

(* The game starts with nothing to deliver.                                *)
LEMMA PipelineInit_Inv == PipelineInit => PipelineInv
<1> SUFFICES ASSUME PipelineInit PROVE PipelineInv
  OBVIOUS
<1>1. IInv
  BY InitInvariant DEF PipelineInit
<1>2. /\ handoff = "none" /\ pendingRoute = FALSE /\ pendingRetry = None /\ retries = {}
      /\ pump.stage = "idle" /\ pump.attempt = None
  BY DEF PipelineInit, Idle
<1>3. \A s \in Slots : records[s] = None
  BY DEF PipelineInit, Init
<1>4. PipelineTypeOK
  BY <1>1, <1>2 DEF IInv, PipelineTypeOK, Handoffs
<1>5. CallerFits
  BY <1>2, <1>3 DEF CallerFits, OpenHasRoute, HandoffOpen, PumpHolds, AwaitsSink, RetryIsHeld,
                    Waits, ReturnsSettled
<1> QED
  BY <1>1, <1>4, <1>5 DEF PipelineInv

(* Every step of the caller, the sinks and the timers keeps it.            *)
LEMMA PipelineNext_Inv == PipelineInv /\ [PipelineNext]_pipelineVars => PipelineInv'
<1> SUFFICES ASSUME PipelineInv, [PipelineNext]_pipelineVars PROVE PipelineInv'
  OBVIOUS
<1>1. IInv'
  BY ControllerKeeps
<1>2. CallerKeeps
  <2>1. CASE Answer \/ Destroy
    BY <1>1, <2>1, AnswerFits, DestroyFits
  <2>2. CASE PumpFindsNothing \/ (\E s \in Slots : PumpDiscovers(s))
    BY <1>1, <2>2, FindsNothingFits, DiscoversFits
  <2>3. CASE (\E renders \in BOOLEAN : PumpPrepares(renders)) \/ PumpBegins
    BY <1>1, <2>3, PreparesFits, BeginsFits
  <2>4. CASE PumpRepeats \/ PumpAcknowledges \/ PumpRefused
    BY <1>1, <2>4, RepeatsFits, AcknowledgesFits, RefusedFits
  <2>5. CASE PumpThrows \/ PumpFailsForNow \/ PumpFailsForGood \/ PumpDelivers
             \/ PumpIsNotAcknowledged \/ PumpOutlivesGame
    BY <1>1, <2>5, ThrowsFits, RetryRequiredFits, FailsForGoodFits, DeliversFits, OutlivesFits
  <2>6. ASSUME NEW a \in Slots \X Numbers, SinkStep(a) \/ TimeStep(a) \/ TimerStep(a)
        PROVE  CallerKeeps
    <3>1. \/ SinkReports(a) \/ (Write(a) /\ UNCHANGED caller)
          \/ (Elapse(a) \/ Settle(a)) /\ UNCHANGED caller
      BY <2>6 DEF SinkStep, TimeStep, TimerStep
    <3> QED
      BY <1>1, <3>1, ReportsFits, WriteFits, TimeFits
  <2>7. CASE UNCHANGED pipelineVars
    <3>1. /\ UNCHANGED <<handoff, pendingRoute, pendingRetry, retries, pump>>
          /\ UNCHANGED <<invalidated, tokens, sinks>> /\ UNCHANGED records
      BY <2>7 DEF pipelineVars, caller, vars, root, external
    <3>2. \A s \in Slots : Waits(s)' => Waits(s)
      BY <3>1 DEF Waits
    <3> QED
      BY <1>1, <3>1, <3>2, CallerWaits
  <2> QED
    BY <2>1, <2>2, <2>3, <2>4, <2>5, <2>6, <2>7 DEF PipelineNext, PumpStep
<1> QED
  BY <1>1, <1>2 DEF CallerKeeps, PipelineInv

(* The engine, the integration, the orchestrator and the controller agree  *)
(* in every reachable state, whatever the sinks do and whenever they       *)
(* report, and whenever the game is destroyed.                             *)
THEOREM PipelineInvariance == PipelineSpec => []PipelineInv
<1> QED
  BY PipelineInit_Inv, PipelineNext_Inv, PTL DEF PipelineSpec

(* What the controller and its caller keep has its type; the retries on    *)
(* offer are tokens the controller still honours.                          *)
THEOREM PipelineTypeCorrect == PipelineSpec => []PipelineTypeOK
<1>1. PipelineInv => PipelineTypeOK
  BY DEF PipelineInv
<1> QED
  BY PipelineInvariance, <1>1, PTL

(* While the handoff keeps the game's input closed there is a result to    *)
(* deliver, and no failed or unacknowledged answer whose retry is lost.    *)
THEOREM HandoffsCanBePumped == PipelineSpec => []OpenHandoffCanBePumped
<1>1. PipelineInv => OpenHandoffCanBePumped
  <2> SUFFICES ASSUME PipelineInv PROVE OpenHandoffCanBePumped
    OBVIOUS
  <2>1. HandoffOpen => pendingRoute /\ ~invalidated
    BY DEF PipelineInv, CallerFits, OpenHasRoute
  <2>2. ASSUME MayPump, pendingRetry = None, NEW s \in Slots, Waits(s) PROVE FALSE
    <3>1. ~invalidated /\ pump.stage = "idle"
      BY <2>2 DEF MayPump, Idle
    <3> QED
      BY <2>2, <3>1 DEF PipelineInv, CallerFits, RetryIsHeld
  <2> QED
    BY <2>1, <2>2 DEF OpenHandoffCanBePumped, Waits
<1> QED
  BY PipelineInvariance, <1>1, PTL

(* Under the caller the controller has, validateRoot accepts every root it *)
(* publishes.                                                              *)
THEOREM PipelineRootsAreValid == PipelineSpec => []RootIsValid
<1>1. PipelineInv => RootIsValid
  BY InvariantIsValid DEF PipelineInv
<1> QED
  BY PipelineInvariance, <1>1, PTL

(* The answers appear in order, once each, and none before the one ahead   *)
(* of it was acknowledged: also when the pump asks for a retry, when a     *)
(* sink reports too late and when it outlives its game.                    *)
THEOREM PipelineDisplayIsOrdered == PipelineSpec => ImplementsOrderedDisplay
<1>1. PipelineInit => Promise!Init
  BY DEF PipelineInit, Init, Promise!Init
<1>2. PipelineInv /\ [PipelineNext]_pipelineVars => [Promise!Next]_<<display, Len(acks)>>
  <2> SUFFICES ASSUME PipelineInv, [PipelineNext]_pipelineVars
               PROVE  [Promise!Next]_<<display, Len(acks)>>
    OBVIOUS
  <2>1. IInv /\ ([Next]_vars \/ RefusedReport)
    BY StepIsControllers DEF PipelineInv
  <2>2. CASE RefusedReport
    BY <2>2 DEF RefusedReport, root
  <2> QED
    BY <2>1, <2>2, StepsRefine
<1> QED
  BY PipelineInvariance, <1>1, <1>2, PTL DEF PipelineSpec, ImplementsOrderedDisplay, Promise!Spec

=============================================================================
