------------------------------ MODULE NpcDelivery ------------------------------
(***************************************************************************)
(* createNpcPublicationDeliveryController (npcPublicationDelivery.mjs): it *)
(* delivers the committed answers of the NPCs, in the order of their       *)
(* slots, to the sink that puts them on display.  An answer is discovered, *)
(* prepared, given to the sink, reported back by it and acknowledged; a    *)
(* sink that is late is cut off by timers, and a sink that failed may be   *)
(* called again when it has shown nothing.                                 *)
(*                                                                         *)
(* Any caller may use the methods in any order, with any capability it was *)
(* ever given: an action's guard is what the method accepts, and a call it *)
(* refuses changes nothing.  A sink is any that tells the truth.  An       *)
(* attempt is its publication's slot and its attemptNumber; time is the    *)
(* stage an attempt under way has reached.  Left out: the payload and its  *)
(* fingerprint, the order counters and the capacity of 1024 records, which *)
(* a game does not reach, observers, and host functions that throw.        *)
(***************************************************************************)
EXTENDS Integers, Sequences, FiniteSets

CONSTANTS
    MaxPublications,  \* bound: the publications a run commits
    MaxGeneration,    \* bound: how often the consumer is replaced
    None              \* JavaScript's null

ASSUME BoundsAssumption == MaxPublications \in Nat /\ MaxGeneration \in Nat
ASSUME NoneAssumption == None \notin Nat

MaxPerPublicationAttempts == 3

Slots   == 1..MaxPublications
Numbers == 1..MaxPerPublicationAttempts

VARIABLES
    committed,    \* publications the authority lists, a prefix of the slots
    generation,   \* consumerGeneration
    records,      \* currentRecordsByPublicationId
    attempts,     \* attemptsById, by slot and attemptNumber
    tokens,       \* retryTokensById and exactTokens: [slot, number, kind]
    acks,         \* acknowledgementsByPublicationId, in acknowledgedOrder
    requests,     \* requests: attempts that may still be begun
    gates,        \* gates, by attempt
    invalidated,
    sinks,        \* what the sink given an attempt is doing
    display       \* the slots of the answers on display, as they appeared

root     == <<committed, generation, records, attempts, tokens, acks>>
external == <<sinks, display>>
vars     == <<root, requests, gates, invalidated, external>>

ActiveStates == {"prepared", "in_flight", "sink_succeeded", "failed_retryable"}
FinalStates  == {"failed_terminal", "acknowledged", "abandoned"}

(* Attempts start before their deadline, then have a grace of a second.    *)
Stages == <<"timely", "grace", "elapsed">>
NewGate == [stage |-> "timely", latched |-> FALSE, primary |-> TRUE, cleanup |-> FALSE]

Init ==
    /\ committed = 0 /\ generation = 0
    /\ records = [s \in Slots |-> None]
    /\ attempts = [s \in Slots |-> <<>>]
    /\ tokens = {} /\ acks = <<>> /\ requests = {}
    /\ gates = [a \in {} |-> NewGate]
    /\ invalidated = FALSE
    /\ sinks = [a \in {} |-> "writing"] /\ display = <<>>

-----------------------------------------------------------------------------
(* Helpers *)

StateOf(a) == attempts[a[1]][a[2]].state

(* pendingRecord *)
Pending == [state |-> "pending", number |-> None, generation |-> generation]

(* currentRecordForAttempt *)
RecordFor(attempt, number) ==
    [state |-> attempt.state, number |-> number, generation |-> attempt.generation]

Resolved(s) == records[s] # None /\ records[s].state = "acknowledged"

(* unresolvedHead: only an acknowledgement lets the next slot through.     *)
IsHead(s) ==
    /\ s \in 1..committed /\ ~Resolved(s)
    /\ \A t \in 1..(s - 1) : Resolved(t)

(* Attempt a moves on to new; the record of its publication follows.       *)
Becomes(a, new) ==
    /\ attempts' = [attempts EXCEPT ![a[1]][a[2]] = new]
    /\ records' = [records EXCEPT ![a[1]] = RecordFor(new, a[2])]

(* A new attempt of slot s; old are the attempts it had.                   *)
Starts(s, old, state) ==
    LET new == [state |-> state, generation |-> generation, token |-> None] IN
    /\ attempts' = [attempts EXCEPT ![s] = Append(old, new)]
    /\ records' = [records EXCEPT ![s] = RecordFor(new, Len(old) + 1)]

-----------------------------------------------------------------------------
(* The authority commits another answer. *)
Commit ==
    /\ ~invalidated /\ committed < MaxPublications
    /\ committed' = committed + 1
    /\ UNCHANGED <<generation, records, attempts, tokens, acks, requests, gates,
                   invalidated, external>>

(* discoverPendingNpcPublications: the head gets its record.               *)
Discover(s) ==
    /\ ~invalidated /\ IsHead(s) /\ records[s] = None
    /\ records' = [records EXCEPT ![s] = Pending]
    /\ UNCHANGED <<committed, generation, attempts, tokens, acks, requests, gates,
                   invalidated, external>>

MayPrepare(s) ==
    /\ ~invalidated /\ IsHead(s)
    /\ records[s] # None /\ records[s].state = "pending"
    /\ Len(attempts[s]) < MaxPerPublicationAttempts

(* prepareNpcPublicationDelivery: an answer that does not render fails.    *)
Prepare(s, renders) ==
    /\ MayPrepare(s)
    /\ Starts(s, attempts[s], IF renders THEN "prepared" ELSE "failed_terminal")
    /\ requests' = IF renders THEN requests \union {<<s, Len(attempts[s]) + 1>>}
                   ELSE requests
    /\ UNCHANGED <<committed, generation, tokens, acks, gates, invalidated, external>>

(* beginNpcPublicationSink, and the caller calls the sink.                 *)
Begin(a) ==
    /\ ~invalidated /\ a \in requests /\ StateOf(a) = "prepared"
    /\ attempts[a[1]][a[2]].generation = generation
    /\ Becomes(a, [attempts[a[1]][a[2]] EXCEPT !.state = "in_flight"])
    /\ requests' = requests \ {a}
    /\ gates' = [b \in (DOMAIN gates) \union {a} |-> IF b = a THEN NewGate ELSE gates[b]]
    /\ sinks' = [b \in (DOMAIN sinks) \union {a} |-> IF b = a THEN "writing" ELSE sinks[b]]
    /\ UNCHANGED <<committed, generation, tokens, acks, invalidated, display>>

-----------------------------------------------------------------------------
(* Settling an attempt under way *)

(* Defect: latching a timeout does not wait for the end of the grace.      *)
LatchedForGood(a) == [gates[a] EXCEPT !.latched = TRUE, !.primary = FALSE]

(* latchTimeout *)
Latched(a) ==
    IF gates[a].latched THEN gates[a]
    ELSE [gates[a] EXCEPT !.latched = TRUE, !.primary = FALSE, !.cleanup = TRUE]

(* cleanupGate *)
Released(a) == [b \in DOMAIN gates \ {a} |-> gates[b]]

(* settleFailure *)
Fails(a, retryable) ==
    /\ Becomes(a, [attempts[a[1]][a[2]] EXCEPT
         !.state = IF retryable THEN "failed_retryable" ELSE "failed_terminal",
         !.token = IF retryable THEN "repeat_sink" ELSE None])
    /\ tokens' = IF retryable
                 THEN tokens \union {[slot |-> a[1], number |-> a[2], kind |-> "repeat_sink"]}
                 ELSE tokens
    /\ gates' = Released(a)
    /\ UNCHANGED <<committed, generation, acks, requests, invalidated>>

(* Defect: an attempt that timed out may be repeated.                      *)
TimesOutOnly(a) == Fails(a, TRUE)

(* settleTerminalTimeout *)
TimesOut(a) == Fails(a, FALSE)

(* The attempt latches the timeout and goes on waiting for its sink.       *)
Latches(a) ==
    /\ gates' = [gates EXCEPT ![a] = Latched(a)]
    /\ UNCHANGED <<root, requests, invalidated>>

Succeeds(a) ==
    /\ Becomes(a, [attempts[a[1]][a[2]] EXCEPT
         !.state = "sink_succeeded", !.token = "ack_only"])
    /\ tokens' = tokens \union {[slot |-> a[1], number |-> a[2], kind |-> "ack_only"]}
    /\ gates' = Released(a)
    /\ UNCHANGED <<committed, generation, acks, requests, invalidated>>

(* completeNpcPublicationSink: a success at the deadline is too late.      *)
Complete(a) ==
    /\ a \in DOMAIN gates
    /\ IF gates[a].stage = "timely" THEN Succeeds(a) ELSE TimesOut(a)

(* Defect: the last attempt may be repeated like the others.               *)
OneMoreAttempt(a) == a[2] <= MaxPerPublicationAttempts

AttemptsLeft(a) == a[2] < MaxPerPublicationAttempts

(* recordNpcPublicationSinkFailure.  Evidence of a timeout counts once the *)
(* timeout is latched, and other evidence until then.  The call itself     *)
(* latches a timeout that is due; refused evidence leaves the attempt.     *)
RecordFailure(a, timeout, proved) ==
    /\ a \in DOMAIN gates
    /\ \/ gates[a].stage = "elapsed" /\ TimesOut(a)
       \/ /\ gates[a].stage # "elapsed" /\ timeout # (gates[a].stage = "grace")
          /\ IF gates[a].stage = "grace" THEN Latches(a)
             ELSE UNCHANGED <<root, requests, gates, invalidated>>
       \/ /\ gates[a].stage # "elapsed" /\ timeout = (gates[a].stage = "grace")
          /\ Fails(a, proved /\ AttemptsLeft(a))

(* Time passes for an attempt under way.                                   *)
Elapse(a) ==
    /\ a \in DOMAIN gates
    /\ \E i \in {1, 2} : /\ gates[a].stage = Stages[i]
                         /\ gates' = [gates EXCEPT ![a].stage = Stages[i + 1]]
    /\ UNCHANGED <<root, requests, invalidated, external>>

(* timerCallback: a timer that fires early is set again, which is no step. *)
PrimaryTimer(a) ==
    /\ a \in DOMAIN gates /\ gates[a].primary /\ gates[a].stage # "timely"
    /\ IF gates[a].stage = "grace" THEN Latches(a) ELSE TimesOut(a)
    /\ UNCHANGED external

CleanupTimer(a) ==
    /\ a \in DOMAIN gates /\ gates[a].cleanup /\ gates[a].stage = "elapsed"
    /\ TimesOut(a)
    /\ UNCHANGED external

-----------------------------------------------------------------------------
(* The sink.  It shows the answer or it does not, and then says so.        *)

SinkStates == {"writing", "written", "failed_clean", "failed_unknown", "done"}

(* Output cannot be stopped: an aborted sink may still show the answer.    *)
Write(a) ==
    /\ a \in DOMAIN sinks /\ sinks[a] = "writing"
    /\ \/ /\ sinks' = [sinks EXCEPT ![a] = "failed_clean"]
          /\ UNCHANGED display
       \/ /\ \E outcome \in {"written", "failed_unknown"} :
               sinks' = [sinks EXCEPT ![a] = outcome]
          /\ display' = Append(display, a[1])
       \/ /\ sinks' = [sinks EXCEPT ![a] = "failed_unknown"]
          /\ UNCHANGED display
    /\ UNCHANGED <<root, requests, gates, invalidated>>

(* What a sink says when its attempt has been settled is refused.          *)
Report(a) ==
    /\ a \in DOMAIN sinks
    /\ \/ sinks[a] = "written" /\ Complete(a)
       \/ \E timeout \in BOOLEAN :
            \/ sinks[a] = "failed_clean" /\ RecordFailure(a, timeout, TRUE)
            \/ sinks[a] = "failed_unknown" /\ RecordFailure(a, timeout, FALSE)
    /\ sinks' = [sinks EXCEPT ![a] = "done"]
    /\ UNCHANGED display

-----------------------------------------------------------------------------
(* retryNpcPublicationDelivery, with a token to call the sink once more    *)
Retry(t) ==
    LET s   == t.slot
        old == [attempts[s] EXCEPT ![t.number].state = "abandoned", ![t.number].token = None]
    IN
    /\ ~invalidated /\ t \in tokens /\ t.kind = "repeat_sink"
    /\ attempts[s][t.number].generation = generation
    /\ StateOf(<<s, t.number>>) = "failed_retryable"
    /\ Len(old) < MaxPerPublicationAttempts
    /\ Starts(s, old, "prepared")
    /\ tokens' = tokens \ {t}
    /\ requests' = requests \union {<<s, Len(old) + 1>>}
    /\ UNCHANGED <<committed, generation, acks, gates, invalidated, external>>

(* acknowledgeNpcPublication, with the receipt of attempt a or, by way of  *)
(* retryNpcPublicationDelivery, with its token.  A second acknowledgement  *)
(* returns the first.                                                      *)
Acknowledge(a) ==
    LET token == [slot |-> a[1], number |-> a[2], kind |-> "ack_only"] IN
    /\ ~invalidated /\ a[2] \in DOMAIN attempts[a[1]]
    /\ attempts[a[1]][a[2]].generation = generation
    /\ StateOf(a) = "sink_succeeded" /\ token \in tokens
    /\ Becomes(a, [attempts[a[1]][a[2]] EXCEPT !.state = "acknowledged", !.token = None])
    /\ tokens' = tokens \ {token}
    /\ acks' = Append(acks, a[1])
    /\ UNCHANGED <<committed, generation, requests, gates, invalidated, external>>

(* replaceNpcPublicationDeliveryConsumer: the new consumer takes over what *)
(* waits, and an attempt that failed may begin anew with it.               *)
Replaceable == \A s \in Slots :
    records[s] # None => records[s].state \notin {"prepared", "in_flight", "sink_succeeded"}

Failed(s) == records[s] # None /\ records[s].state = "failed_retryable"

(* Defect: what waits keeps the consumer that has been replaced.           *)
TakesOverFailures(s) == Failed(s)

TakesOver(s) == records[s] # None /\ records[s].state \in {"pending", "failed_retryable"}

ReplaceConsumer ==
    /\ ~invalidated /\ generation < MaxGeneration /\ Replaceable
    /\ generation' = generation + 1
    /\ records' = [s \in Slots |->
         IF TakesOver(s) THEN [Pending EXCEPT !.generation = generation + 1]
         ELSE records[s]]
    /\ attempts' = [s \in Slots |->
         IF Failed(s) THEN [attempts[s] EXCEPT ![records[s].number].state = "abandoned",
                                               ![records[s].number].token = None]
         ELSE attempts[s]]
    /\ tokens' = {t \in tokens : ~Failed(t.slot)}
    /\ UNCHANGED <<committed, acks, requests, gates, invalidated, external>>

(* reset: the attempts under way are abandoned, and so is the controller.  *)
Reset ==
    LET Active(s, n) == attempts[s][n].state \in ActiveStates IN
    /\ ~invalidated
    /\ attempts' = [s \in Slots |-> [n \in DOMAIN attempts[s] |->
         IF Active(s, n) THEN [attempts[s][n] EXCEPT !.state = "abandoned", !.token = None]
         ELSE attempts[s][n]]]
    /\ records' = [s \in Slots |->
         IF records[s] # None /\ records[s].state \in ActiveStates
         THEN [records[s] EXCEPT !.state = "abandoned"] ELSE records[s]]
    /\ tokens' = {} /\ requests' = {}
    /\ gates' = [a \in {} |-> NewGate]
    /\ invalidated' = TRUE
    /\ UNCHANGED <<committed, generation, acks, external>>

-----------------------------------------------------------------------------
Settle(a) == PrimaryTimer(a) \/ CleanupTimer(a)

Next ==
    \/ Commit
    \/ \E s \in Slots : Discover(s) \/ \E renders \in BOOLEAN : Prepare(s, renders)
    \/ \E a \in Slots \X Numbers :
         Begin(a) \/ Write(a) \/ Report(a) \/ Elapse(a) \/ Settle(a) \/ Acknowledge(a)
    \/ \E t \in tokens : Retry(t)
    \/ ReplaceConsumer
    \/ Reset

(* Time passes and the host's timers fire; nobody else has to do anything. *)
Fairness == \A a \in Slots \X Numbers : WF_vars(Elapse(a)) /\ WF_vars(Settle(a))

Spec == Init /\ [][Next]_vars /\ Fairness

-----------------------------------------------------------------------------
(* Properties *)

Kinds == {"repeat_sink", "ack_only"}

Attempt == [state : ActiveStates \union FinalStates,
            generation : 0..MaxGeneration, token : Kinds \union {None}]

Record == [state : {"pending"} \union ActiveStates \union FinalStates,
           number : Numbers \union {None}, generation : 0..MaxGeneration]

(* null is no kind of token, and no record.                                *)
ASSUME NullAssumption == None \notin Kinds /\ None \notin Record

Gate == [stage : {"timely", "grace", "elapsed"}, latched : BOOLEAN,
         primary : BOOLEAN, cleanup : BOOLEAN]

(* The types of the controller's root, its indexes and its environment.    *)
TypeOK ==
    /\ committed \in 0..MaxPublications /\ generation \in 0..MaxGeneration
    /\ records \in [Slots -> Record \union {None}]
    /\ attempts \in [Slots -> Seq(Attempt)]
    /\ tokens \subseteq [slot : Slots, number : Numbers, kind : Kinds]
    /\ acks \in Seq(Slots)
    /\ requests \subseteq Slots \X Numbers
    /\ DOMAIN gates \subseteq Slots \X Numbers
    /\ \A a \in DOMAIN gates : gates[a] \in Gate
    /\ invalidated \in BOOLEAN
    /\ DOMAIN sinks \subseteq Slots \X Numbers
    /\ \A a \in DOMAIN sinks : sinks[a] \in SinkStates
    /\ display \in Seq(Slots)

Attempts == {a \in Slots \X Numbers : a[2] \in DOMAIN attempts[a[1]]}
Token(a) == attempts[a[1]][a[2]].token

AttemptsAreValid ==
    /\ \A s \in Slots : Len(attempts[s]) <= MaxPerPublicationAttempts
    /\ \A a \in Attempts :
         Token(a) # None <=> StateOf(a) \in {"sink_succeeded", "failed_retryable"}

RecordsAreValid == \A s \in Slots : records[s] # None =>
    /\ records[s].state \in FinalStates \/ records[s].generation = generation
    /\ IF records[s].state = "pending" THEN records[s].number = None
       ELSE /\ records[s].number \in DOMAIN attempts[s]
            /\ records[s].state = StateOf(<<s, records[s].number>>)
            /\ records[s].generation = attempts[s][records[s].number].generation

TokensAreValid == \A t \in tokens :
    /\ <<t.slot, t.number>> \in Attempts
    /\ Token(<<t.slot, t.number>>) = t.kind
    /\ StateOf(<<t.slot, t.number>>) =
         IF t.kind = "repeat_sink" THEN "failed_retryable" ELSE "sink_succeeded"

AcksAreValid == \A i \in DOMAIN acks :
    \E n \in DOMAIN attempts[acks[i]] : StateOf(<<acks[i], n>>) = "acknowledged"

(* validateRoot accepts every root the controller publishes: records,      *)
(* attempts, retry tokens and acknowledgements agree with each other and   *)
(* with the consumer, whatever order the methods are called in.            *)
RootIsValid ==
    AttemptsAreValid /\ RecordsAreValid /\ TokensAreValid /\ AcksAreValid

(* An answer that waits to be prepared or retried has an attempt left for  *)
(* it, however often its sink failed and its consumer was replaced: the    *)
(* limit of three ends in failed_terminal, never in an answer that waits   *)
(* for an attempt prepare and retry refuse.                                *)
WaitingHasAnAttemptLeft == \A s \in Slots :
    records[s] # None /\ records[s].state \in {"pending", "failed_retryable"}
        => Len(attempts[s]) < MaxPerPublicationAttempts

Promise == INSTANCE OrderedDisplay WITH acknowledged <- Len(acks)

(* The player sees the answers in the order of their slots, none of them   *)
(* twice, and none before the one ahead of it was acknowledged, although   *)
(* sinks fail, are cut off, show an answer late and are called again.      *)
ImplementsOrderedDisplay == Promise!Spec

InFlight(s) == records[s] # None /\ records[s].state = "in_flight"

(* A sink that never answers does not keep its attempt in flight for ever: *)
(* the timers of beginNpcPublicationSink settle it.                        *)
InFlightSettles == \A s \in Slots : InFlight(s) ~> ~InFlight(s)
=============================================================================
