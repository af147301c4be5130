--------------------------- MODULE PlayerDelivery ---------------------------
(***************************************************************************)
(* How the player's own publications reach a display:                      *)
(* PlayerPublicationDeliveryController (src/src/playerPublicationDelivery  *)
(* .mjs), driven by the sinks of src/src/playerDisplaySink.mjs, beside the *)
(* engine that publishes.  The consumer starts in one of two modes and may *)
(* switch: the first switch to "structured" first drains, as legacy rows,  *)
(* everything published so far, and then commits a cutover slot.           *)
(*                                                                         *)
(* A publication is named by its slot order.  A game session has a single  *)
(* consumer (browser-main or the CLI), so its identity is left out; what a *)
(* row shows and the observer's records are left out too.  requestedMode   *)
(* is only reported, never read, and is not kept.                          *)
(***************************************************************************)
EXTENDS Integers, FiniteSets, Sequences

CONSTANTS
    None,             \* JavaScript's null
    MaxSlots,         \* bound: publication slots of a game
    MaxAttempts,      \* bound: delivery attempts of a game
    MaxGenerations    \* bound: changes of the consumer generation

ASSUME NoneAssumption == None \notin Nat
ASSUME BoundsAssumption ==
    /\ MaxSlots \in Nat /\ MaxAttempts \in Nat /\ MaxGenerations \in Nat

Modes      == {"legacy", "structured"}
Deliveries == {"structured", "legacy", "legacy_pre_cutover"}
States     == {"prepared", "in_flight", "sink_succeeded", "failed_retryable",
               "failed_terminal", "acknowledged", "evidence_recorded", "stale_session"}
(* The write behind an attempt: not there, begun, returned but not yet     *)
(* completed, or on display for good.                                      *)
Sinks      == {"absent", "writing", "written", "shown"}

VARIABLES
    published,    \* slots of the player's publications
    nextSlot,     \* conversation.nextPublicationSlotOrder, shared with NPCs
    command,      \* "idle" is what isQuiescent checks; else how far the
                  \* command in progress has come
    mode,         \* effectiveMode
    generation,   \* consumerGeneration
    cutover,      \* committedCutoverPublicationSlotOrder
    draining,     \* the required slots of the active transition, or None
    proposed,     \* its proposedCutoverPublicationSlotOrder, or None
    attempts,     \* every attempt ever made, in order
    active,       \* activeByPublication: slot -> index of its attempt
    terminal,     \* slots with a terminal failure
    acks,         \* acknowledgements: slot -> index of the attempt
    evidence,     \* preCutoverEvidence: slot -> index of the attempt
    live          \* ~invalidated

control == <<mode, generation, cutover, draining, proposed>>
records == <<attempts, active, terminal, acks, evidence>>
engine  == <<published, nextSlot, command>>
vars    == <<engine, control, records, live>>

Slots    == 0 .. MaxSlots - 1
Attempts == DOMAIN attempts
NoneYet  == [s \in Slots |-> None]

Init ==
    /\ published = {} /\ nextSlot = 0 /\ command = "idle"
    /\ generation = 0
    /\ \/ mode = "legacy" /\ cutover = None
       \/ mode = "structured" /\ cutover = 0
    /\ draining = None /\ proposed = None
    /\ attempts = <<>>
    /\ active = NoneYet /\ acks = NoneYet /\ evidence = NoneYet
    /\ terminal = {}
    /\ live = TRUE

-----------------------------------------------------------------------------
(* The engine: a command starts only when nothing is draining, and what it *)
(* publishes takes the next slot; the NPC's answer may take the one after. *)

StartCommand ==
    /\ live /\ command = "idle" /\ draining = None
    /\ command' = "running"
    /\ UNCHANGED <<published, nextSlot, control, records, live>>

Publish ==
    /\ live /\ command = "running" /\ nextSlot < MaxSlots
    /\ published' = published \cup {nextSlot}
    /\ nextSlot' = nextSlot + 1
    /\ command' = "published"
    /\ UNCHANGED <<control, records, live>>

NpcPublishes ==
    /\ live /\ command = "published" /\ nextSlot < MaxSlots
    /\ nextSlot' = nextSlot + 1
    /\ command' = "answered"
    /\ UNCHANGED <<published, control, records, live>>

EndCommand ==
    /\ command # "idle"
    /\ command' = "idle"
    /\ UNCHANGED <<published, nextSlot, control, records, live>>

-----------------------------------------------------------------------------
(* Which publications may be delivered, and how *)

ValidDelivery(d) ==
    CASE d = "structured"         -> mode = "structured"
      [] d = "legacy"             -> mode = "legacy" /\ cutover # None
      [] d = "legacy_pre_cutover" -> mode = "legacy" /\ cutover = None

SettledFor(s, d) ==
    IF d = "legacy_pre_cutover" THEN evidence[s] # None ELSE acks[s] # None

(* Defect: only a stale attempt is replaced, a failed one never retried.   *)
NoRetryAfterFailure(s, d) ==
    /\ ValidDelivery(d)
    /\ s \in published \ terminal
    /\ ~SettledFor(s, d)
    /\ d # "legacy_pre_cutover" => s >= cutover
    /\ active[s] # None => attempts[active[s]].state = "stale_session"

Deliverable(s, d) ==
    /\ ValidDelivery(d)
    /\ s \in published \ terminal
    /\ ~SettledFor(s, d)
    /\ d # "legacy_pre_cutover" => s >= cutover
    /\ d = "legacy_pre_cutover" /\ draining # None => s \in draining
    /\ active[s] # None =>
         attempts[active[s]].state \in {"failed_retryable", "stale_session"}

NewAttempt(s, d, st) ==
    [slot |-> s, generation |-> generation, delivery |-> d,
     state |-> st, sink |-> "absent"]

Prepare(s, d) ==
    /\ live /\ Len(attempts) < MaxAttempts
    /\ Deliverable(s, d)
    /\ attempts' = Append(attempts, NewAttempt(s, d, "prepared"))
    /\ active' = [active EXCEPT ![s] = Len(attempts) + 1]
    /\ UNCHANGED <<engine, control, terminal, acks, evidence, live>>

RenderFails(s, d) ==
    /\ live /\ Len(attempts) < MaxAttempts
    /\ Deliverable(s, d)
    /\ attempts' = Append(attempts, NewAttempt(s, d, "failed_terminal"))
    /\ active' = [active EXCEPT ![s] = Len(attempts) + 1]
    /\ terminal' = terminal \cup {s}
    /\ UNCHANGED <<engine, control, acks, evidence, live>>

-----------------------------------------------------------------------------
(* One attempt: begin, the asynchronous write, its outcome, the receipt *)

Current(a) == live /\ attempts[a].generation = generation

Set(a, st, sk) == attempts' = [attempts EXCEPT ![a].state = st, ![a].sink = sk]

Begin(a) ==
    /\ Current(a) /\ attempts[a].state = "prepared"
    /\ Set(a, "in_flight", "writing")
    /\ UNCHANGED <<engine, control, active, terminal, acks, evidence, live>>

WriteReturns(a) ==
    /\ attempts[a].sink = "writing"
    /\ Set(a, attempts[a].state, "written")
    /\ UNCHANGED <<engine, control, active, terminal, acks, evidence, live>>

(* The write throws; fail() itself throws when the attempt is no longer    *)
(* current, and then the attempt keeps the state it was given.             *)
WriteThrows(a) ==
    /\ attempts[a].sink = "writing"
    /\ Set(a, IF Current(a) THEN "failed_retryable" ELSE attempts[a].state, "absent")
    /\ UNCHANGED <<engine, control, active, terminal, acks, evidence, live>>

Complete(a) ==
    /\ attempts[a].sink = "written"
    /\ Current(a) /\ attempts[a].state = "in_flight"
    /\ Set(a, "sink_succeeded", "shown")
    /\ UNCHANGED <<engine, control, active, terminal, acks, evidence, live>>

(* complete() throws on a stale attempt: the browser takes its row back, a *)
(* terminal cannot, and the fail() that follows throws as well.            *)
CleanUp(a) ==
    /\ attempts[a].sink = "written"
    /\ ~(Current(a) /\ attempts[a].state = "in_flight")
    /\ \E sk \in {"absent", "shown"} : Set(a, attempts[a].state, sk)
    /\ UNCHANGED <<engine, control, active, terminal, acks, evidence, live>>

(* The two settlements of a receipt.  A second use of the same receipt     *)
(* returns the stored result and changes nothing.                          *)
(* Defect: the receipt is taken for a write that is still under way.       *)
AcknowledgeEarly(a) ==
    LET s == attempts[a].slot
    IN  /\ Current(a) /\ attempts[a].state \in {"in_flight", "sink_succeeded"}
        /\ attempts[a].delivery # "legacy_pre_cutover"
        /\ acks[s] = None
        /\ Set(a, "acknowledged", attempts[a].sink)
        /\ acks' = [acks EXCEPT ![s] = a]
        /\ active' = [active EXCEPT ![s] = None]
        /\ UNCHANGED <<engine, control, terminal, evidence, live>>

Acknowledge(a) ==
    LET s == attempts[a].slot
    IN  /\ Current(a) /\ attempts[a].state = "sink_succeeded"
        /\ attempts[a].delivery # "legacy_pre_cutover"
        /\ acks[s] = None
        /\ Set(a, "acknowledged", "shown")
        /\ acks' = [acks EXCEPT ![s] = a]
        /\ active' = [active EXCEPT ![s] = None]
        /\ UNCHANGED <<engine, control, terminal, evidence, live>>

RecordEvidence(a) ==
    LET s == attempts[a].slot
    IN  /\ Current(a) /\ attempts[a].state = "sink_succeeded"
        /\ attempts[a].delivery = "legacy_pre_cutover"
        /\ evidence[s] = None
        /\ Set(a, "evidence_recorded", "shown")
        /\ evidence' = [evidence EXCEPT ![s] = a]
        /\ active' = [active EXCEPT ![s] = None]
        /\ UNCHANGED <<engine, control, terminal, acks, live>>

-----------------------------------------------------------------------------
(* Switching the consumer mode *)

(* Defect: a row on display but not yet acknowledged counts as settled.    *)
OnlyInFlightUnsettled == \E a \in Attempts : attempts[a].state = "in_flight"

UnsettledSink ==
    \E a \in Attempts : attempts[a].state \in {"in_flight", "sink_succeeded"}

CanSwitch == live /\ command = "idle" /\ ~UnsettledSink /\ generation < MaxGenerations

(* _staleGenerationAttempts: every unsettled attempt becomes stale.        *)
Settled(st) == st \in {"acknowledged", "evidence_recorded", "failed_terminal"}
StaleAttempts ==
    /\ attempts' = [a \in Attempts |->
         IF Settled(attempts[a].state) THEN attempts[a]
         ELSE [attempts[a] EXCEPT !.state = "stale_session"]]
    /\ active' = NoneYet

SwitchToLegacy ==
    /\ CanSwitch /\ draining = None /\ mode = "structured"
    /\ mode' = "legacy" /\ generation' = generation + 1
    /\ StaleAttempts
    /\ UNCHANGED <<engine, cutover, draining, proposed, terminal, acks, evidence, live>>

SwitchBackToStructured ==
    /\ CanSwitch /\ draining = None /\ mode = "legacy" /\ cutover # None
    /\ mode' = "structured" /\ generation' = generation + 1
    /\ StaleAttempts
    /\ UNCHANGED <<engine, cutover, draining, proposed, terminal, acks, evidence, live>>

Required == {s \in published : s < nextSlot}
Missing(required) == {s \in required : evidence[s] = None}

CommitCutover(slot) ==
    /\ mode' = "structured" /\ generation' = generation + 1
    /\ cutover' = slot /\ draining' = None /\ proposed' = None

(* The first request for the structured mode completes at once when there  *)
(* is nothing to drain, and otherwise opens a transition.                  *)
RequestStructured ==
    /\ CanSwitch /\ draining = None /\ mode = "legacy" /\ cutover = None
    /\ IF Missing(Required) = {} /\ Required \cap terminal = {}
       THEN CommitCutover(nextSlot)
       ELSE /\ draining' = Required /\ proposed' = nextSlot
            /\ UNCHANGED <<mode, generation, cutover>>
    /\ UNCHANGED <<engine, records, live>>

(* Defect: the transition completes although some evidence is missing.     *)
CompleteEarly ==
    /\ live /\ draining # None /\ ~UnsettledSink
    /\ generation < MaxGenerations
    /\ CommitCutover(proposed)
    /\ UNCHANGED <<engine, records, live>>

CompleteTransition ==
    /\ live /\ draining # None /\ ~UnsettledSink
    /\ generation < MaxGenerations
    /\ draining \cap terminal = {}
    /\ Missing(draining) = {}
    /\ CommitCutover(proposed)
    /\ UNCHANGED <<engine, records, live>>

CancelTransition ==
    /\ live /\ draining # None /\ ~UnsettledSink
    /\ draining' = None /\ proposed' = None
    /\ mode' = "legacy"
    /\ UNCHANGED <<engine, generation, cutover, records, live>>

(* Defect: the attempts are dropped, what is acknowledged is kept.         *)
InvalidateDropsAttempts ==
    /\ live /\ live' = FALSE
    /\ attempts' = <<>>
    /\ active' = NoneYet /\ evidence' = NoneYet
    /\ draining' = None /\ proposed' = None
    /\ UNCHANGED <<engine, mode, generation, cutover, terminal, acks>>

(* invalidate: the engine is destroyed while writes may be under way.      *)
Invalidate ==
    /\ live /\ live' = FALSE
    /\ attempts' = [a \in Attempts |->
         IF attempts[a].state \in {"acknowledged", "evidence_recorded"} THEN attempts[a]
         ELSE [attempts[a] EXCEPT !.state = "stale_session"]]
    /\ active' = NoneYet /\ evidence' = NoneYet
    /\ draining' = None /\ proposed' = None
    /\ UNCHANGED <<engine, mode, generation, cutover, terminal, acks>>

-----------------------------------------------------------------------------
Next ==
    \/ StartCommand \/ Publish \/ NpcPublishes \/ EndCommand
    \/ \E s \in Slots, d \in Deliveries : Prepare(s, d) \/ RenderFails(s, d)
    \/ \E a \in Attempts :
         \/ Begin(a) \/ WriteReturns(a) \/ WriteThrows(a) \/ Complete(a)
         \/ CleanUp(a) \/ Acknowledge(a) \/ RecordEvidence(a)
    \/ SwitchToLegacy \/ SwitchBackToStructured
    \/ RequestStructured \/ CompleteTransition \/ CancelTransition
    \/ Invalidate

Spec == Init /\ [][Next]_vars

-----------------------------------------------------------------------------
Attempt == [slot : Slots, generation : Nat, delivery : Deliveries,
            state : States, sink : Sinks]

TypeOK ==
    /\ published \in SUBSET Slots /\ nextSlot \in 0 .. MaxSlots
    /\ command \in {"idle", "running", "published", "answered"}
    /\ mode \in Modes /\ generation \in Nat
    /\ cutover \in Nat \cup {None}
    /\ draining \in (SUBSET Slots) \cup {None} /\ proposed \in Nat \cup {None}
    /\ attempts \in Seq(Attempt)
    /\ active \in [Slots -> Attempts \cup {None}]
    /\ acks \in [Slots -> Attempts \cup {None}]
    /\ evidence \in [Slots -> Attempts \cup {None}]
    /\ terminal \in SUBSET Slots
    /\ live \in BOOLEAN

(* However the mode is switched, retried or torn down, a publication is on *)
(* display at most once, counting the writes still under way.              *)
OnDisplay(a) == attempts[a].sink # "absent"
ShownAtMostOnce ==
    \A a, b \in Attempts :
        OnDisplay(a) /\ OnDisplay(b) /\ attempts[a].slot = attempts[b].slot => a = b

(* Nothing is recorded as delivered that is not on display, and no         *)
(* publication is settled both before and after the cutover.               *)
SettledMeansShown ==
    \A s \in Slots :
        /\ acks[s] # None => attempts[acks[s]].slot = s /\ attempts[acks[s]].sink = "shown"
        /\ evidence[s] # None =>
             attempts[evidence[s]].slot = s /\ attempts[evidence[s]].sink = "shown"
        /\ acks[s] = None \/ evidence[s] = None

(* The cutover leaves nothing behind: every publication before it has the  *)
(* evidence of a legacy row, so none falls between the two consumers.      *)
CutoverIsEvidenced ==
    live /\ cutover # None => \A s \in published : s < cutover => evidence[s] # None

(* While old publications drain the set is closed: no command publishes,   *)
(* and no attempt of an earlier generation stays active.                   *)
DrainIsClosed ==
    /\ draining # None => published = draining /\ command = "idle"
    /\ \A s \in Slots : active[s] # None => attempts[active[s]].generation = generation

(* A drain that has hit no terminal failure can always go on: it can be    *)
(* completed, or some missing publication has a next step of its own.      *)
DrainCanProceed ==
    live /\ draining # None /\ draining \cap terminal = {} =>
        \/ Missing(draining) = {}
        \/ \E s \in Missing(draining) :
             \/ Deliverable(s, "legacy_pre_cutover")
             \/ active[s] # None /\
                  attempts[active[s]].state \in {"prepared", "in_flight", "sink_succeeded"}

(* A drain works on a fixed set of publications, and is never stuck.       *)
DrainIsSound == DrainIsClosed /\ DrainCanProceed

=============================================================================
