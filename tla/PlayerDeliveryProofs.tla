------------------------- MODULE PlayerDeliveryProofs -------------------------
(***************************************************************************)
(* Proofs about PlayerDelivery, for any number of slots, attempts and      *)
(* consumer generations: a row is on display at most once, what is settled *)
(* is on display, the cutover leaves no row behind, and a drain is closed  *)
(* and can always go on.                                                   *)
(***************************************************************************)
EXTENDS PlayerDelivery, TLAPS

(* The states of an attempt that goes on.                                  *)
UnderWay == {"prepared", "in_flight", "sink_succeeded"}

(* The active attempt of a slot was made under the present mode, and its   *)
(* slot is not settled.                                                    *)
ActiveIsCurrent == \A s \in Slots : active[s] # None =>
    /\ live /\ s \in published
    /\ attempts[active[s]].slot = s
    /\ attempts[active[s]].generation = generation
    /\ attempts[active[s]].state \in UnderWay \cup {"failed_retryable", "failed_terminal"}
    /\ acks[s] = None /\ evidence[s] = None
    /\ IF attempts[active[s]].delivery = "legacy_pre_cutover" THEN cutover = None
       ELSE cutover # None /\ s >= cutover

(* An attempt that goes on is the active one of its slot.                  *)
UnderWayIsActive == \A a \in Attempts :
    attempts[a].state \in UnderWay => active[attempts[a].slot] = a

(* What the write behind an attempt may have done, by the attempt's state. *)
SinkFollowsState == \A a \in Attempts :
    /\ attempts[a].state = "in_flight" => attempts[a].sink \in {"writing", "written"}
    /\ attempts[a].state \in {"sink_succeeded", "acknowledged", "evidence_recorded"} =>
         attempts[a].sink = "shown"
    /\ attempts[a].state \in {"prepared", "failed_retryable", "failed_terminal"} =>
         attempts[a].sink = "absent"
    /\ attempts[a].state = "stale_session" /\ live => attempts[a].sink = "absent"

(* Settlements and the states of attempts point at each other.             *)
SettlementsMatch ==
    /\ \A a \in Attempts :
         /\ attempts[a].state = "acknowledged" => acks[attempts[a].slot] = a
         /\ attempts[a].state = "evidence_recorded" /\ live => evidence[attempts[a].slot] = a
         /\ attempts[a].state = "failed_terminal" => attempts[a].slot \in terminal
    /\ \A s \in Slots :
         /\ acks[s] # None =>
              attempts[acks[s]].slot = s /\ attempts[acks[s]].state = "acknowledged"
         /\ evidence[s] # None =>
              attempts[evidence[s]].slot = s /\ attempts[evidence[s]].state = "evidence_recorded"

(* Evidence is of rows before the cutover, acknowledgements of rows after. *)
CutoverDivides ==
    /\ \A s \in published : s < nextSlot
    /\ cutover # None => cutover <= nextSlot
    /\ mode = "structured" => cutover # None
    /\ \A s \in Slots :
         /\ acks[s] # None => cutover # None /\ s >= cutover
         /\ evidence[s] # None => s \in published /\ (cutover # None => s < cutover)

(* A drain takes place before the first cutover, which it proposes.        *)
DrainHolds == draining # None =>
    /\ live /\ mode = "legacy" /\ cutover = None /\ command = "idle"
    /\ draining = published /\ proposed = nextSlot

(* The inductive invariant.                                                *)
IInv ==
    /\ TypeOK
    /\ ActiveIsCurrent
    /\ UnderWayIsActive
    /\ SinkFollowsState
    /\ SettlementsMatch
    /\ CutoverDivides
    /\ DrainHolds
    /\ CutoverIsEvidenced
    /\ ShownAtMostOnce

-----------------------------------------------------------------------------
(* The attempts.                                                           *)

(* What is known of an attempt that was made.                              *)
LEMMA AttemptFacts ==
    ASSUME TypeOK
    PROVE  /\ Len(attempts) \in Nat /\ Attempts = 1..Len(attempts)
           /\ \A a \in Attempts :
                /\ attempts[a] \in Attempt
                /\ attempts[a].slot \in Slots /\ attempts[a].generation \in Nat
                /\ attempts[a].delivery \in Deliveries /\ attempts[a].state \in States
                /\ attempts[a].sink \in Sinks /\ a # None
<1>1. Len(attempts) \in Nat /\ Attempts = 1..Len(attempts)
  BY DEF TypeOK, Attempts
<1>2. \A a \in Attempts : attempts[a] \in Attempt
  BY <1>1 DEF TypeOK
<1> QED
  BY <1>1, <1>2, NoneAssumption DEF Attempt

(* Set changes the state and the sink of one attempt.                      *)
LEMMA SetFacts ==
    ASSUME TypeOK, NEW a \in Attempts, NEW st \in States, NEW sk \in Sinks, Set(a, st, sk)
    PROVE  /\ attempts' \in Seq(Attempt) /\ Attempts' = Attempts
           /\ attempts'[a].state = st /\ attempts'[a].sink = sk
           /\ \A b \in Attempts :
                /\ attempts'[b].slot = attempts[b].slot
                /\ attempts'[b].generation = attempts[b].generation
                /\ attempts'[b].delivery = attempts[b].delivery
                /\ b # a => attempts'[b].state = attempts[b].state
                            /\ attempts'[b].sink = attempts[b].sink
<1>1. attempts \in Seq(Attempt) /\ Attempts = 1..Len(attempts) /\ Len(attempts) \in Nat
  BY AttemptFacts DEF TypeOK
<1>2. attempts[a] \in Attempt
  BY AttemptFacts
<1> DEFINE new == [attempts[a] EXCEPT !.state = st, !.sink = sk]
<1>3. attempts' = [attempts EXCEPT ![a] = new]
  BY DEF Set
<1>4. /\ new \in Attempt /\ new.state = st /\ new.sink = sk /\ new.slot = attempts[a].slot
      /\ new.generation = attempts[a].generation /\ new.delivery = attempts[a].delivery
  BY <1>2 DEF Attempt
<1> HIDE DEF new
<1>5. /\ attempts' \in Seq(Attempt) /\ Len(attempts') = Len(attempts)
      /\ \A b \in Attempts : attempts'[b] = IF b = a THEN new ELSE attempts[b]
  BY <1>1, <1>3, <1>4
<1>6. Attempts' = Attempts
  BY <1>1, <1>5 DEF Attempts
<1> QED
  BY <1>4, <1>5, <1>6

(* Prepare and RenderFails add an attempt after the others.                *)
LEMMA NewFacts ==
    ASSUME TypeOK, NEW s \in Slots, NEW d \in Deliveries, NEW st \in States,
           attempts' = Append(attempts, NewAttempt(s, d, st))
    PROVE  LET new == Len(attempts) + 1 IN
           /\ attempts' \in Seq(Attempt) /\ Attempts' = Attempts \cup {new} /\ new \notin Attempts
           /\ new # None
           /\ attempts'[new].slot = s /\ attempts'[new].generation = generation
           /\ attempts'[new].delivery = d /\ attempts'[new].state = st
           /\ attempts'[new].sink = "absent"
           /\ \A b \in Attempts : attempts'[b] = attempts[b]
<1>1. attempts \in Seq(Attempt) /\ Attempts = 1..Len(attempts) /\ Len(attempts) \in Nat
  BY AttemptFacts DEF TypeOK
<1>2. NewAttempt(s, d, st) \in Attempt
  BY DEF NewAttempt, Attempt, TypeOK, Sinks
<1>3. /\ attempts' \in Seq(Attempt) /\ Len(attempts') = Len(attempts) + 1
      /\ \A b \in Attempts : attempts'[b] = attempts[b]
      /\ attempts'[Len(attempts) + 1] = NewAttempt(s, d, st)
  BY <1>1, <1>2
<1>4. Attempts' = Attempts \cup {Len(attempts) + 1}
  BY <1>1, <1>3 DEF Attempts
<1> QED
  BY <1>1, <1>3, <1>4, NoneAssumption DEF NewAttempt

(* Making attempts stale changes the state of some and nothing else.       *)
LEMMA StaleFacts ==
    ASSUME TypeOK, NEW kept,
           attempts' = [a \in Attempts |-> IF attempts[a].state \in kept THEN attempts[a]
                                          ELSE [attempts[a] EXCEPT !.state = "stale_session"]]
    PROVE  /\ attempts' \in Seq(Attempt) /\ Attempts' = Attempts
           /\ \A a \in Attempts :
                /\ attempts'[a].slot = attempts[a].slot
                /\ attempts'[a].generation = attempts[a].generation
                /\ attempts'[a].delivery = attempts[a].delivery
                /\ attempts'[a].sink = attempts[a].sink
                /\ attempts'[a].state = IF attempts[a].state \in kept THEN attempts[a].state
                                        ELSE "stale_session"
<1>1. attempts \in Seq(Attempt) /\ Attempts = 1..Len(attempts) /\ Len(attempts) \in Nat
  BY AttemptFacts DEF TypeOK
<1>2. \A a \in Attempts : attempts[a] \in Attempt
  BY AttemptFacts
<1>3. \A a \in Attempts : attempts'[a] \in Attempt
  BY <1>2 DEF Attempt, States
<1>4. attempts' \in Seq(Attempt) /\ Attempts' = Attempts
  BY <1>1, <1>3 DEF Attempts
<1> QED
  BY <1>2, <1>4 DEF Attempt

-----------------------------------------------------------------------------
(* Every step keeps the invariant.                                         *)

(* The program starts in it.                                               *)
LEMMA InitInvariant == Init => IInv
<1> SUFFICES ASSUME Init PROVE IInv
  OBVIOUS
<1>1. attempts = <<>> /\ Attempts = {} /\ Attempts \in SUBSET Nat
  BY DEF Init, Attempts
<1>2. TypeOK
  <2>1. /\ nextSlot \in 0..MaxSlots /\ cutover \in Nat \cup {None} /\ mode \in Modes
        /\ draining \in (SUBSET Slots) \cup {None} /\ proposed \in Nat \cup {None}
    BY BoundsAssumption DEF Init, Modes
  <2>2. NoneYet \in [Slots -> Attempts \cup {None}]
    BY DEF NoneYet
  <2>3. attempts \in Seq(Attempt)
    BY <1>1
  <2> QED
    BY <2>1, <2>2, <2>3 DEF Init, TypeOK
<1>3. ActiveIsCurrent /\ UnderWayIsActive /\ SinkFollowsState /\ SettlementsMatch
  BY <1>1 DEF Init, NoneYet, ActiveIsCurrent, UnderWayIsActive, SinkFollowsState, SettlementsMatch
<1>4. CutoverDivides /\ DrainHolds /\ CutoverIsEvidenced /\ ShownAtMostOnce
  BY <1>1, NoneAssumption DEF Init, NoneYet, CutoverDivides, DrainHolds, CutoverIsEvidenced,
                              ShownAtMostOnce
<1> QED
  BY <1>2, <1>3, <1>4 DEF IInv

(* The parts of the invariant that speak of attempts and settlements hold  *)
(* after a step that leaves these and the consumer alone.                  *)
LEMMA RecordsStay ==
    ASSUME IInv, UNCHANGED <<records, generation, cutover, live>>, published \subseteq published'
    PROVE  ActiveIsCurrent' /\ UnderWayIsActive' /\ SinkFollowsState' /\ SettlementsMatch'
           /\ ShownAtMostOnce' /\ Attempts' = Attempts
<1>1. /\ Attempts' = Attempts
      /\ UNCHANGED <<attempts, active, terminal, acks, evidence, generation, cutover, live>>
  BY DEF records, Attempts
<1>2. ActiveIsCurrent' /\ UnderWayIsActive'
  BY <1>1 DEF IInv, ActiveIsCurrent, UnderWayIsActive
<1>3. SinkFollowsState' /\ ShownAtMostOnce'
  BY <1>1 DEF IInv, SinkFollowsState, ShownAtMostOnce, OnDisplay
<1>4. SettlementsMatch'
  BY <1>1 DEF IInv, SettlementsMatch
<1> QED
  BY <1>1, <1>2, <1>3, <1>4

(* The engine's own steps: they publish after all that has been published, *)
(* and never while rows drain.                                             *)
LEMMA EngineKeeps ==
    ASSUME IInv, StartCommand \/ Publish \/ NpcPublishes \/ EndCommand PROVE IInv'
<1>1. /\ UNCHANGED <<control, records, live>> /\ nextSlot \in 0..MaxSlots
      /\ \/ published' = published /\ nextSlot' \in {nextSlot, nextSlot + 1}
         \/ published' = published \cup {nextSlot} /\ nextSlot' = nextSlot + 1
      /\ nextSlot' # nextSlot => nextSlot < MaxSlots
      /\ draining # None => command' = "idle" /\ UNCHANGED <<published, nextSlot>>
      /\ command' \in {"idle", "running", "published", "answered"}
  BY DEF StartCommand, Publish, NpcPublishes, EndCommand, IInv, TypeOK, DrainHolds
<1>2. TypeOK'
  <2>1. published' \in SUBSET Slots /\ nextSlot' \in 0..MaxSlots
    <3>1. nextSlot \in Nat /\ published \subseteq 0..(MaxSlots - 1) /\ MaxSlots \in Nat
      BY BoundsAssumption DEF IInv, TypeOK, Slots
    <3>2. nextSlot' \in 0..MaxSlots
      BY <1>1, <3>1
    <3>3. published' \subseteq 0..(MaxSlots - 1)
      <4>1. CASE published' = published
        BY <3>1, <4>1
      <4>2. CASE published' = published \cup {nextSlot} /\ nextSlot' = nextSlot + 1
        <5>1. nextSlot < MaxSlots
          BY <1>1, <3>1, <4>2
        <5> QED
          BY <3>1, <4>2, <5>1
      <4> QED
        BY <1>1, <4>1, <4>2
    <3> QED
      BY <3>2, <3>3 DEF Slots
  <2>2. UNCHANGED <<mode, generation, cutover, draining, proposed, attempts, active, terminal,
                    acks, evidence, live, Attempts>>
    BY <1>1 DEF control, records, Attempts
  <2> QED
    BY <1>1, <2>1, <2>2 DEF IInv, TypeOK
<1>3. ActiveIsCurrent' /\ UnderWayIsActive' /\ SinkFollowsState' /\ SettlementsMatch' /\ ShownAtMostOnce'
  BY <1>1, RecordsStay DEF control
<1>4. CutoverDivides' /\ CutoverIsEvidenced'
  <2>1. UNCHANGED <<mode, cutover, acks, evidence, live>>
    BY <1>1 DEF control, records
  <2>2. /\ \A s \in published' : s \in published \/ s = nextSlot
        /\ published \subseteq published' /\ nextSlot <= nextSlot' /\ nextSlot \in Nat
        /\ published \subseteq Nat /\ (nextSlot \in published' => nextSlot' = nextSlot + 1)
    BY <1>1 DEF IInv, TypeOK, Slots, CutoverDivides
  <2>3. nextSlot' \in Nat /\ cutover \in Nat \cup {None}
    BY <1>1 DEF IInv, TypeOK
  <2>4. CutoverDivides'
    <3>1. \A s \in published' : s < nextSlot'
      BY <2>2, <2>3 DEF IInv, CutoverDivides
    <3>2. cutover' # None => cutover' <= nextSlot'
      BY <2>1, <2>2, <2>3 DEF IInv, CutoverDivides
    <3>3. \A s \in Slots :
            /\ acks'[s] # None => cutover' # None /\ s >= cutover'
            /\ evidence'[s] # None => s \in published' /\ (cutover' # None => s < cutover')
      BY <2>1, <2>2 DEF IInv, CutoverDivides
    <3>4. mode' = "structured" => cutover' # None
      BY <2>1 DEF IInv, CutoverDivides
    <3> QED
      BY <3>1, <3>2, <3>3, <3>4 DEF CutoverDivides
  <2>5. CutoverIsEvidenced'
    BY <2>1, <2>2, <2>3 DEF IInv, CutoverDivides, CutoverIsEvidenced
  <2> QED
    BY <2>4, <2>5
<1>5. DrainHolds'
  BY <1>1 DEF IInv, DrainHolds, control
<1> QED
  BY <1>2, <1>3, <1>4, <1>5 DEF IInv

(* Prepare and RenderFails: an attempt is made for a row that is neither   *)
(* settled nor under way, in the way the present mode asks for.            *)
LEMMA NewKeeps ==
    ASSUME IInv, NEW s \in Slots, NEW d \in Deliveries, Prepare(s, d) \/ RenderFails(s, d)
    PROVE  IInv'
<1> DEFINE n == Len(attempts) + 1
<1>1. PICK st \in {"prepared", "failed_terminal"} :
        /\ attempts' = Append(attempts, NewAttempt(s, d, st))
        /\ IF st = "prepared" THEN terminal' = terminal ELSE terminal' = terminal \cup {s}
  BY DEF Prepare, RenderFails
<1>2. /\ live /\ Deliverable(s, d) /\ active' = [active EXCEPT ![s] = n]
      /\ UNCHANGED <<engine, control, acks, evidence, live>>
  BY DEF Prepare, RenderFails
<1>3. /\ attempts' \in Seq(Attempt) /\ Attempts' = Attempts \cup {n} /\ n \notin Attempts /\ n # None
      /\ attempts'[n].slot = s /\ attempts'[n].generation = generation
      /\ attempts'[n].delivery = d /\ attempts'[n].state = st /\ attempts'[n].sink = "absent"
      /\ \A b \in Attempts : attempts'[b] = attempts[b]
  BY <1>1, NewFacts DEF IInv, States
<1> HIDE DEF n
<1>4. /\ s \in published /\ s \notin terminal /\ acks[s] = None /\ evidence[s] = None
      /\ IF d = "legacy_pre_cutover" THEN cutover = None ELSE cutover # None /\ s >= cutover
      /\ active[s] = None \/ attempts[active[s]].state = "failed_retryable"
  <2>1. active[s] # None => attempts[active[s]].state = "failed_retryable"
    BY <1>2 DEF Deliverable, IInv, ActiveIsCurrent, UnderWay
  <2>2. s \in published /\ s \notin terminal
    BY <1>2 DEF Deliverable
  <2>3. CASE d = "legacy_pre_cutover"
    BY <1>2, <2>1, <2>2, <2>3 DEF Deliverable, ValidDelivery, SettledFor, IInv, CutoverDivides
  <2>4. CASE d # "legacy_pre_cutover"
    <3>1. cutover # None /\ s >= cutover /\ acks[s] = None
      BY <1>2, <2>4 DEF Deliverable, ValidDelivery, SettledFor, Deliveries, IInv, CutoverDivides
    <3>2. s \in Nat /\ cutover \in Nat
      BY <3>1 DEF IInv, TypeOK, Slots
    <3> QED
      BY <2>1, <2>2, <2>4, <3>1, <3>2 DEF IInv, CutoverDivides
  <2> QED
    BY <2>3, <2>4
<1>5. TypeOK'
  <2>1. active' \in [Slots -> Attempts' \cup {None}]
    BY <1>2, <1>3 DEF IInv, TypeOK
  <2>2. /\ acks' \in [Slots -> Attempts' \cup {None}] /\ evidence' \in [Slots -> Attempts' \cup {None}]
    BY <1>2, <1>3 DEF IInv, TypeOK
  <2>3. terminal' \in SUBSET Slots
    BY <1>1 DEF IInv, TypeOK
  <2> QED
    BY <1>2, <1>3, <2>1, <2>2, <2>3 DEF IInv, TypeOK, engine, control
<1>6. active'[s] = n /\ \A t \in Slots \ {s} : active'[t] = active[t]
  BY <1>2 DEF IInv, TypeOK
<1>7. \A t \in Slots : /\ active[t] \in Attempts \cup {None} /\ acks[t] \in Attempts \cup {None}
                       /\ evidence[t] \in Attempts \cup {None}
  BY DEF IInv, TypeOK
<1>8. \A b \in Attempts : attempts[b].slot \in Slots /\ b # None
  BY AttemptFacts DEF IInv
<1>9. ActiveIsCurrent'
  <2> SUFFICES ASSUME NEW t \in Slots, active'[t] # None
               PROVE  /\ live' /\ t \in published'
                      /\ attempts'[active'[t]].slot = t
                      /\ attempts'[active'[t]].generation = generation'
                      /\ attempts'[active'[t]].state
                            \in UnderWay \cup {"failed_retryable", "failed_terminal"}
                      /\ acks'[t] = None /\ evidence'[t] = None
                      /\ IF attempts'[active'[t]].delivery = "legacy_pre_cutover"
                         THEN cutover' = None ELSE cutover' # None /\ t >= cutover'
    BY DEF ActiveIsCurrent
  <2>1. UNCHANGED <<published, generation, cutover, acks, evidence, live>>
    BY <1>2 DEF engine, control
  <2>2. CASE t = s
    <3>1. active'[t] = n /\ acks'[t] = None /\ evidence'[t] = None /\ t \in published'
      BY <1>4, <1>6, <2>1, <2>2
    <3> QED
      <4>1. attempts'[active'[t]].state \in UnderWay \cup {"failed_retryable", "failed_terminal"}
        BY <1>1, <1>3, <3>1 DEF UnderWay
      <4>2. /\ attempts'[active'[t]].slot = t /\ attempts'[active'[t]].generation = generation'
            /\ attempts'[active'[t]].delivery = d
        BY <1>3, <2>1, <2>2, <3>1
      <4> QED
        BY <1>2, <1>4, <2>1, <2>2, <3>1, <4>1, <4>2
  <2>3. CASE t # s
    BY <1>3, <1>6, <1>7, <2>1, <2>3 DEF IInv, ActiveIsCurrent
  <2> QED
    BY <2>2, <2>3
<1>10. UnderWayIsActive'
  BY <1>3, <1>4, <1>6, <1>8 DEF IInv, UnderWayIsActive, UnderWay
<1>11. SinkFollowsState'
  BY <1>1, <1>2, <1>3 DEF IInv, SinkFollowsState
<1>12. SettlementsMatch'
  <2>1. UNCHANGED <<acks, evidence, live>>
    BY <1>2
  <2>2. \A b \in Attempts : attempts[b].state = "failed_terminal" => attempts[b].slot \in terminal'
    BY <1>1 DEF IInv, SettlementsMatch
  <2>3. st = "failed_terminal" => s \in terminal'
    BY <1>1
  <2> QED
    <3>1. \A b \in Attempts' :
            /\ attempts'[b].state = "acknowledged" => acks'[attempts'[b].slot] = b
            /\ attempts'[b].state = "evidence_recorded" /\ live' => evidence'[attempts'[b].slot] = b
            /\ attempts'[b].state = "failed_terminal" => attempts'[b].slot \in terminal'
      <4>1. \A b \in Attempts :
              /\ attempts[b].state = "acknowledged" => acks[attempts[b].slot] = b
              /\ attempts[b].state = "evidence_recorded" /\ live => evidence[attempts[b].slot] = b
        BY DEF IInv, SettlementsMatch
      <4>2. st \notin {"acknowledged", "evidence_recorded"}
        BY <1>1
      <4> QED
        BY <1>3, <2>1, <2>2, <2>3, <4>1, <4>2
    <3>2. \A t \in Slots :
            /\ acks'[t] # None =>
                 attempts'[acks'[t]].slot = t /\ attempts'[acks'[t]].state = "acknowledged"
            /\ evidence'[t] # None =>
                 attempts'[evidence'[t]].slot = t
                 /\ attempts'[evidence'[t]].state = "evidence_recorded"
      BY <1>3, <1>7, <2>1 DEF IInv, SettlementsMatch
    <3> QED
      BY <3>1, <3>2 DEF SettlementsMatch
<1>13. ShownAtMostOnce'
  BY <1>3 DEF IInv, ShownAtMostOnce, OnDisplay
<1>14. CutoverDivides' /\ CutoverIsEvidenced' /\ DrainHolds'
  BY <1>2 DEF IInv, CutoverDivides, CutoverIsEvidenced, DrainHolds, engine, control
<1> QED
  BY <1>5, <1>9, <1>10, <1>11, <1>12, <1>13, <1>14 DEF IInv

(* A step of one attempt that is not settled by it: it goes on, fails for  *)
(* now, or stays as it is while its write ends.                            *)
LEMMA AttemptKeeps ==
    ASSUME IInv, NEW a \in Attempts, NEW st \in States, NEW sk \in Sinks, Set(a, st, sk),
           UNCHANGED <<engine, control, active, terminal, acks, evidence, live>>,
           \/ st = attempts[a].state
           \/ /\ attempts[a].state \in UnderWay
              /\ st \in {"in_flight", "sink_succeeded", "failed_retryable"},
           /\ st = "in_flight" => sk \in {"writing", "written"}
           /\ st \in {"sink_succeeded", "acknowledged", "evidence_recorded"} => sk = "shown"
           /\ st \in {"prepared", "failed_retryable", "failed_terminal"} => sk = "absent"
           /\ st = "stale_session" /\ live => sk = "absent",
           sk # "absent" => \/ OnDisplay(a)
                            \/ \A b \in Attempts :
                                  OnDisplay(b) => attempts[b].slot # attempts[a].slot
    PROVE  IInv'
<1>1. /\ attempts' \in Seq(Attempt) /\ Attempts' = Attempts
      /\ attempts'[a].state = st /\ attempts'[a].sink = sk
      /\ \A b \in Attempts : /\ attempts'[b].slot = attempts[b].slot
                             /\ attempts'[b].generation = attempts[b].generation
                             /\ attempts'[b].delivery = attempts[b].delivery
                             /\ b # a => attempts'[b].state = attempts[b].state
                                         /\ attempts'[b].sink = attempts[b].sink
  BY SetFacts DEF IInv
<1>2. UNCHANGED <<published, nextSlot, command, mode, generation, cutover, draining, proposed,
                  active, terminal, acks, evidence, live>>
  BY DEF engine, control
<1>3. \A s \in Slots : /\ active[s] \in Attempts \cup {None} /\ acks[s] \in Attempts \cup {None}
                       /\ evidence[s] \in Attempts \cup {None}
  BY DEF IInv, TypeOK
<1>4. \A b \in Attempts : attempts[b].slot \in Slots /\ b # None /\ attempts[b].state \in States
  BY AttemptFacts DEF IInv
<1>5. TypeOK'
  BY <1>1, <1>2 DEF IInv, TypeOK
<1>6. ActiveIsCurrent'
  <2>1. st \in UnderWay \cup {"failed_retryable", "failed_terminal"} \/ st = attempts[a].state
    BY DEF UnderWay
  <2> QED
    BY <1>1, <1>2, <1>3, <2>1 DEF IInv, ActiveIsCurrent
<1>7. UnderWayIsActive'
  <2>1. \A b \in Attempts : attempts[b].state \in UnderWay => active[attempts[b].slot] = b
    BY DEF IInv, UnderWayIsActive
  <2>2. \A b \in Attempts : attempts'[b].state \in UnderWay => attempts[b].state \in UnderWay
    BY <1>1 DEF UnderWay
  <2> QED
    BY <1>1, <1>2, <2>1, <2>2 DEF UnderWayIsActive
<1>8. SinkFollowsState'
  BY <1>1, <1>2 DEF IInv, SinkFollowsState
<1>9. SettlementsMatch'
  <2>1. \A b \in Attempts : attempts[b].state \in {"acknowledged", "evidence_recorded", "failed_terminal"}
                              <=> attempts'[b].state \in {"acknowledged", "evidence_recorded", "failed_terminal"}
                                  /\ attempts'[b].state = attempts[b].state
    BY <1>1 DEF UnderWay
  <2>2. \A b \in Attempts :
          /\ attempts'[b].state = "acknowledged" => acks'[attempts'[b].slot] = b
          /\ attempts'[b].state = "evidence_recorded" /\ live' => evidence'[attempts'[b].slot] = b
          /\ attempts'[b].state = "failed_terminal" => attempts'[b].slot \in terminal'
    BY <1>1, <1>2, <2>1 DEF IInv, SettlementsMatch
  <2>3. \A s \in Slots :
          /\ acks'[s] # None =>
               attempts'[acks'[s]].slot = s /\ attempts'[acks'[s]].state = "acknowledged"
          /\ evidence'[s] # None =>
               attempts'[evidence'[s]].slot = s
               /\ attempts'[evidence'[s]].state = "evidence_recorded"
    <3> SUFFICES ASSUME NEW s \in Slots
                 PROVE  /\ acks[s] # None =>
                             /\ attempts'[acks[s]].slot = s
                             /\ attempts'[acks[s]].state = "acknowledged"
                        /\ evidence[s] # None =>
                             /\ attempts'[evidence[s]].slot = s
                             /\ attempts'[evidence[s]].state = "evidence_recorded"
      BY <1>2
    <3>1. /\ acks[s] # None =>
               attempts[acks[s]].slot = s /\ attempts[acks[s]].state = "acknowledged"
          /\ evidence[s] # None =>
               attempts[evidence[s]].slot = s
               /\ attempts[evidence[s]].state = "evidence_recorded"
      BY DEF IInv, SettlementsMatch
    <3>2. \A b \in Attempts : attempts[b].state \in {"acknowledged", "evidence_recorded"} =>
            attempts'[b].state = attempts[b].state /\ attempts'[b].slot = attempts[b].slot
      BY <1>1, <2>1
    <3> QED
      BY <1>3, <3>1, <3>2
  <2> QED
    BY <1>1, <2>2, <2>3 DEF SettlementsMatch
<1>10. ShownAtMostOnce'
  BY <1>1 DEF IInv, ShownAtMostOnce, OnDisplay
<1>11. CutoverDivides' /\ CutoverIsEvidenced' /\ DrainHolds'
  BY <1>2 DEF IInv, CutoverDivides, CutoverIsEvidenced, DrainHolds
<1> QED
  BY <1>5, <1>6, <1>7, <1>8, <1>9, <1>10, <1>11 DEF IInv

(* The row of a prepared attempt is not on display, not even by an earlier *)
(* attempt.                                                                *)
LEMMA PreparedIsNotShown ==
    ASSUME IInv, NEW a \in Attempts, attempts[a].state = "prepared", live,
           NEW b \in Attempts, OnDisplay(b)
    PROVE  attempts[b].slot # attempts[a].slot
<1> DEFINE s == attempts[a].slot
<1>1. s \in Slots /\ a # None /\ attempts[b].state \in States /\ b # None
  BY AttemptFacts DEF IInv
<1>2. active[s] = a
  BY DEF IInv, UnderWayIsActive, UnderWay
<1>3. acks[s] = None /\ evidence[s] = None
  BY <1>1, <1>2 DEF IInv, ActiveIsCurrent
<1> SUFFICES ASSUME attempts[b].slot = s PROVE FALSE
  OBVIOUS
<1>4. attempts[b].state \notin UnderWay
  <2>1. a # b
    BY DEF IInv, SinkFollowsState, OnDisplay
  <2> QED
    BY <1>2, <2>1 DEF IInv, UnderWayIsActive
<1>5. attempts[b].state \notin {"acknowledged", "evidence_recorded"}
  BY <1>1, <1>3 DEF IInv, SettlementsMatch
<1> QED
  BY <1>1, <1>4, <1>5 DEF IInv, SinkFollowsState, OnDisplay, UnderWay, States

(* Begin, WriteReturns, WriteThrows, Complete and CleanUp: a sink writes   *)
(* while its attempt is in flight, and afterwards only for a game that is  *)
(* over.                                                                   *)
LEMMA WriteKeeps ==
    ASSUME IInv, NEW a \in Attempts,
           Begin(a) \/ WriteReturns(a) \/ WriteThrows(a) \/ Complete(a) \/ CleanUp(a)
    PROVE  IInv'
<1>1. attempts[a].state \in States /\ attempts[a].sink \in Sinks /\ a # None
  BY AttemptFacts DEF IInv
<1>2. UNCHANGED <<engine, control, active, terminal, acks, evidence, live>>
  BY DEF Begin, WriteReturns, WriteThrows, Complete, CleanUp
<1>3. attempts[a].state \in UnderWay => Current(a)
  BY <1>1, AttemptFacts DEF IInv, UnderWayIsActive, ActiveIsCurrent, Current
<1>4. attempts[a].sink \in {"writing", "written"} =>
        attempts[a].state = "in_flight" \/ (attempts[a].state = "stale_session" /\ ~live)
  BY <1>1 DEF IInv, SinkFollowsState, States
<1>5. CASE Begin(a)
  BY <1>2, <1>5, AttemptKeeps, PreparedIsNotShown DEF Begin, Current, UnderWay, States, Sinks
<1>6. CASE WriteReturns(a)
  BY <1>1, <1>2, <1>4, <1>6, AttemptKeeps DEF WriteReturns, Sinks, OnDisplay
<1>7. CASE WriteThrows(a)
  <2>1. CASE Current(a)
    <3>1. attempts[a].state = "in_flight"
      BY <1>4, <1>7, <2>1 DEF WriteThrows, Current
    <3>2. Set(a, "failed_retryable", "absent")
      BY <1>7, <2>1 DEF WriteThrows, Set
    <3>3. "failed_retryable" \in States /\ "absent" \in Sinks /\ attempts[a].state \in UnderWay
      BY <3>1 DEF States, Sinks, UnderWay
    <3> QED
      BY <1>2, <3>2, <3>3, AttemptKeeps
  <2>2. CASE ~Current(a)
    <3>1. attempts[a].state = "stale_session" /\ ~live
      BY <1>3, <1>4, <1>7, <2>2 DEF WriteThrows, UnderWay
    <3>2. Set(a, attempts[a].state, "absent")
      BY <1>7, <2>2 DEF WriteThrows, Set
    <3>3. "absent" \in Sinks
      BY DEF Sinks
    <3> QED
      BY <1>1, <1>2, <3>1, <3>2, <3>3, AttemptKeeps
  <2> QED
    BY <2>1, <2>2
<1>8. CASE Complete(a)
  BY <1>2, <1>8, AttemptKeeps DEF Complete, States, Sinks, UnderWay, OnDisplay
<1>9. CASE CleanUp(a)
  <2>1. attempts[a].state = "stale_session" /\ ~live
    BY <1>3, <1>4, <1>9 DEF CleanUp, UnderWay
  <2> QED
    BY <1>1, <1>2, <1>9, <2>1, AttemptKeeps DEF CleanUp, Sinks, OnDisplay
<1> QED
  BY <1>5, <1>6, <1>7, <1>8, <1>9

(* Acknowledge and RecordEvidence: the row is on display, and an attempt   *)
(* of the present mode settles it on the present side of the cutover.      *)
LEMMA SettleKeeps ==
    ASSUME IInv, NEW a \in Attempts, Acknowledge(a) \/ RecordEvidence(a)
    PROVE  IInv'
<1> DEFINE s == attempts[a].slot
<1>1. PICK st \in {"acknowledged", "evidence_recorded"} :
        /\ Set(a, st, "shown") /\ active' = [active EXCEPT ![s] = None]
        /\ IF st = "acknowledged"
           THEN /\ attempts[a].delivery # "legacy_pre_cutover"
                /\ acks' = [acks EXCEPT ![s] = a] /\ evidence' = evidence
           ELSE /\ attempts[a].delivery = "legacy_pre_cutover"
                /\ evidence' = [evidence EXCEPT ![s] = a] /\ acks' = acks
  BY DEF Acknowledge, RecordEvidence
<1>2. /\ Current(a) /\ attempts[a].state = "sink_succeeded" /\ live
      /\ UNCHANGED <<published, nextSlot, command, mode, generation, cutover, draining, proposed,
                     terminal, live>>
  BY DEF Acknowledge, RecordEvidence, engine, control, Current
<1>3. /\ attempts' \in Seq(Attempt) /\ Attempts' = Attempts
      /\ attempts'[a].state = st /\ attempts'[a].sink = "shown"
      /\ \A b \in Attempts : /\ attempts'[b].slot = attempts[b].slot
                             /\ attempts'[b].generation = attempts[b].generation
                             /\ attempts'[b].delivery = attempts[b].delivery
                             /\ b # a => attempts'[b].state = attempts[b].state
                                         /\ attempts'[b].sink = attempts[b].sink
  BY <1>1, SetFacts DEF IInv, States, Sinks
<1>4. \A b \in Attempts : attempts[b].slot \in Slots /\ b # None /\ attempts[b].state \in States
  BY AttemptFacts DEF IInv
<1>5. s \in Slots /\ active[s] = a /\ a # None
  BY <1>2, <1>4 DEF IInv, UnderWayIsActive, UnderWay
<1>6. /\ s \in published /\ acks[s] = None /\ evidence[s] = None /\ attempts[a].sink = "shown"
      /\ IF attempts[a].delivery = "legacy_pre_cutover" THEN cutover = None
         ELSE cutover # None /\ s >= cutover
  BY <1>2, <1>5 DEF IInv, ActiveIsCurrent, SinkFollowsState
<1>7. /\ active'[s] = None /\ \A t \in Slots \ {s} : active'[t] = active[t]
      /\ st = "acknowledged" => /\ acks'[s] = a /\ evidence' = evidence
                                /\ \A t \in Slots \ {s} : acks'[t] = acks[t]
      /\ st = "evidence_recorded" => /\ evidence'[s] = a /\ acks' = acks
                                     /\ \A t \in Slots \ {s} : evidence'[t] = evidence[t]
  BY <1>1, <1>5 DEF IInv, TypeOK
<1>8. \A t \in Slots : /\ active[t] \in Attempts \cup {None} /\ acks[t] \in Attempts \cup {None}
                       /\ evidence[t] \in Attempts \cup {None}
  BY DEF IInv, TypeOK
<1> HIDE DEF s
<1>9. TypeOK'
  <2>1. /\ active' \in [Slots -> Attempts \cup {None}] /\ acks' \in [Slots -> Attempts \cup {None}]
        /\ evidence' \in [Slots -> Attempts \cup {None}]
    BY <1>1 DEF IInv, TypeOK
  <2> QED
    BY <1>2, <1>3, <2>1 DEF IInv, TypeOK
<1>10. ActiveIsCurrent'
  <2> SUFFICES ASSUME NEW t \in Slots, active'[t] # None
               PROVE  /\ live' /\ t \in published'
                      /\ attempts'[active'[t]].slot = t
                      /\ attempts'[active'[t]].generation = generation'
                      /\ attempts'[active'[t]].state
                            \in UnderWay \cup {"failed_retryable", "failed_terminal"}
                      /\ acks'[t] = None /\ evidence'[t] = None
                      /\ IF attempts'[active'[t]].delivery = "legacy_pre_cutover"
                         THEN cutover' = None ELSE cutover' # None /\ t >= cutover'
    BY DEF ActiveIsCurrent
  <2>1. t # s /\ active'[t] = active[t]
    BY <1>7
  <2>2. active[t] # a
    BY <2>1 DEF IInv, ActiveIsCurrent, s
  <2>3. acks'[t] = acks[t] /\ evidence'[t] = evidence[t]
    BY <1>1, <1>7, <2>1
  <2> QED
    BY <1>2, <1>3, <1>8, <2>1, <2>2, <2>3 DEF IInv, ActiveIsCurrent
<1>11. UnderWayIsActive'
  <2>1. \A b \in Attempts : attempts'[b].state \in UnderWay => b # a /\ attempts[b].state \in UnderWay
    BY <1>3 DEF UnderWay
  <2>2. \A b \in Attempts : attempts[b].state \in UnderWay => active[attempts[b].slot] = b
    BY DEF IInv, UnderWayIsActive
  <2>3. \A b \in Attempts : b # a /\ attempts[b].state \in UnderWay => attempts[b].slot # s
    BY <1>5, <2>2
  <2> QED
    BY <1>3, <1>4, <1>7, <2>1, <2>2, <2>3 DEF UnderWayIsActive
<1>12. SinkFollowsState'
  BY <1>1, <1>2, <1>3 DEF IInv, SinkFollowsState
<1>13. SettlementsMatch'
  <2>1. \A b \in Attempts :
          /\ attempts'[b].state = "acknowledged" => acks'[attempts'[b].slot] = b
          /\ attempts'[b].state = "evidence_recorded" => evidence'[attempts'[b].slot] = b
          /\ attempts'[b].state = "failed_terminal" => attempts'[b].slot \in terminal'
    <3> SUFFICES ASSUME NEW b \in Attempts
                 PROVE  /\ attempts'[b].state = "acknowledged" => acks'[attempts'[b].slot] = b
                        /\ attempts'[b].state = "evidence_recorded" =>
                             evidence'[attempts'[b].slot] = b
                        /\ attempts'[b].state = "failed_terminal" => attempts'[b].slot \in terminal'
      OBVIOUS
    <3>1. CASE b = a
      BY <1>1, <1>3, <1>7, <3>1 DEF s
    <3>2. CASE b # a
      <4>1. attempts'[b].state = attempts[b].state /\ attempts'[b].slot = attempts[b].slot
        BY <1>3, <3>2
      <4>2. attempts[b].state \in {"acknowledged", "evidence_recorded"} => attempts[b].slot # s
        BY <1>2, <1>4, <1>6 DEF IInv, SettlementsMatch
      <4>3. attempts[b].slot # s =>
              /\ acks'[attempts[b].slot] = acks[attempts[b].slot]
              /\ evidence'[attempts[b].slot] = evidence[attempts[b].slot]
        BY <1>1, <1>4, <1>7
      <4> QED
        BY <1>2, <4>1, <4>2, <4>3 DEF IInv, SettlementsMatch
    <3> QED
      BY <3>1, <3>2
  <2>2. ASSUME NEW t \in Slots
        PROVE  /\ acks'[t] # None =>
                    attempts'[acks'[t]].slot = t /\ attempts'[acks'[t]].state = "acknowledged"
               /\ evidence'[t] # None =>
                    attempts'[evidence'[t]].slot = t
                    /\ attempts'[evidence'[t]].state = "evidence_recorded"
    <3>1. /\ acks[t] # None => /\ attempts[acks[t]].slot = t /\ acks[t] # a
                               /\ attempts[acks[t]].state = "acknowledged"
          /\ evidence[t] # None => /\ attempts[evidence[t]].slot = t /\ evidence[t] # a
                                   /\ attempts[evidence[t]].state = "evidence_recorded"
      BY <1>2 DEF IInv, SettlementsMatch
    <3>2. CASE t # s
      <4>1. acks'[t] = acks[t] /\ evidence'[t] = evidence[t]
        BY <1>1, <1>7, <3>2
      <4> QED
        BY <1>3, <1>8, <3>1, <4>1
    <3>3. CASE t = s
      BY <1>1, <1>3, <1>5, <1>6, <1>7, <3>3 DEF s
    <3> QED
      BY <3>2, <3>3
  <2> QED
    BY <1>3, <2>1, <2>2 DEF SettlementsMatch
<1>14. ShownAtMostOnce'
  <2>1. \A b \in Attempts : attempts'[b].sink = attempts[b].sink
    BY <1>3, <1>6
  <2> QED
    BY <1>3, <2>1 DEF IInv, ShownAtMostOnce, OnDisplay
<1>15. CutoverDivides'
  <2>1. ASSUME NEW t \in Slots
        PROVE  /\ acks'[t] # None => cutover' # None /\ t >= cutover'
               /\ evidence'[t] # None => t \in published' /\ (cutover' # None => t < cutover')
    <3>1. /\ acks[t] # None => cutover # None /\ t >= cutover
          /\ evidence[t] # None => t \in published /\ (cutover # None => t < cutover)
      BY DEF IInv, CutoverDivides
    <3>2. CASE t # s
      BY <1>1, <1>2, <1>7, <3>1, <3>2
    <3>3. CASE t = s
      BY <1>1, <1>2, <1>6, <1>7, <3>3
    <3> QED
      BY <3>2, <3>3
  <2>2. UNCHANGED <<published, nextSlot, mode, cutover>>
    BY <1>2
  <2> QED
    BY <2>1, <2>2 DEF IInv, CutoverDivides
<1>16. CutoverIsEvidenced'
  <2>1. \A t \in Slots : evidence[t] # None => evidence'[t] # None
    BY <1>1, <1>5, <1>7
  <2>2. published \subseteq Slots
    BY DEF IInv, TypeOK
  <2> QED
    BY <1>2, <2>1, <2>2 DEF IInv, CutoverIsEvidenced
<1>17. DrainHolds'
  BY <1>2 DEF IInv, DrainHolds
<1> QED
  BY <1>9, <1>10, <1>11, <1>12, <1>13, <1>14, <1>15, <1>16, <1>17 DEF IInv

(* A change of mode, or the end of the game, leaves no attempt active; a   *)
(* change of mode finds no row half way to the display.                    *)
LEMMA StaleRecords ==
    ASSUME IInv, NEW kept,
           {"acknowledged", "evidence_recorded"} \subseteq kept,
           kept \subseteq {"acknowledged", "evidence_recorded", "failed_terminal"},
           attempts' = [a \in Attempts |-> IF attempts[a].state \in kept THEN attempts[a]
                                          ELSE [attempts[a] EXCEPT !.state = "stale_session"]],
           active' = NoneYet, UNCHANGED <<terminal, acks>>,
           evidence' = evidence \/ (evidence' = NoneYet /\ ~live'),
           live' => live /\ ~UnsettledSink
    PROVE  /\ attempts' \in Seq(Attempt) /\ Attempts' = Attempts
           /\ active' \in [Slots -> Attempts \cup {None}]
           /\ evidence' \in [Slots -> Attempts \cup {None}]
           /\ ActiveIsCurrent' /\ UnderWayIsActive' /\ SinkFollowsState' /\ SettlementsMatch'
           /\ ShownAtMostOnce'
<1>1. /\ attempts' \in Seq(Attempt) /\ Attempts' = Attempts
      /\ \A a \in Attempts : /\ attempts'[a].slot = attempts[a].slot
                             /\ attempts'[a].sink = attempts[a].sink
                             /\ attempts'[a].state = IF attempts[a].state \in kept
                                                     THEN attempts[a].state ELSE "stale_session"
  BY StaleFacts DEF IInv
<1>2. \A a \in Attempts : attempts[a].slot \in Slots /\ attempts[a].state \in States
  BY AttemptFacts DEF IInv
<1>3. \A s \in Slots : /\ active'[s] = None /\ acks[s] \in Attempts \cup {None}
                       /\ evidence[s] \in Attempts \cup {None}
                       /\ evidence' = evidence \/ (evidence'[s] = None /\ ~live')
  BY DEF NoneYet, IInv, TypeOK
<1>4. /\ active' \in [Slots -> Attempts \cup {None}]
      /\ evidence' \in [Slots -> Attempts \cup {None}]
  BY DEF NoneYet, IInv, TypeOK
<1>5. ActiveIsCurrent' /\ UnderWayIsActive'
  BY <1>1, <1>3 DEF ActiveIsCurrent, UnderWayIsActive, UnderWay
<1>6. SinkFollowsState'
  <2> SUFFICES ASSUME NEW a \in Attempts
               PROVE  /\ attempts'[a].state = "in_flight" =>
                           attempts'[a].sink \in {"writing", "written"}
                      /\ attempts'[a].state \in
                             {"sink_succeeded", "acknowledged", "evidence_recorded"} =>
                           attempts'[a].sink = "shown"
                      /\ attempts'[a].state \in
                             {"prepared", "failed_retryable", "failed_terminal"} =>
                           attempts'[a].sink = "absent"
                      /\ attempts'[a].state = "stale_session" /\ live' =>
                           attempts'[a].sink = "absent"
    BY <1>1 DEF SinkFollowsState
  <2>1. CASE attempts[a].state \in kept
    BY <1>1, <2>1 DEF IInv, SinkFollowsState
  <2>2. CASE attempts[a].state \notin kept
    <3>1. live' => live /\ attempts[a].state \in {"prepared", "failed_retryable", "failed_terminal",
                                                  "stale_session"}
      BY <1>2, <2>2 DEF UnsettledSink, States
    <3>2. live' => attempts[a].sink = "absent"
      BY <3>1 DEF IInv, SinkFollowsState
    <3>3. attempts'[a].state = "stale_session" /\ attempts'[a].sink = attempts[a].sink
      BY <1>1, <2>2
    <3> QED
      BY <3>2, <3>3
  <2> QED
    BY <2>1, <2>2
<1>7. SettlementsMatch'
  <2>1. \A a \in Attempts :
          /\ attempts'[a].state = "acknowledged" => acks'[attempts'[a].slot] = a
          /\ attempts'[a].state = "evidence_recorded" /\ live' => evidence'[attempts'[a].slot] = a
          /\ attempts'[a].state = "failed_terminal" => attempts'[a].slot \in terminal'
    BY <1>1, <1>2, <1>3 DEF IInv, SettlementsMatch
  <2>2. ASSUME NEW s \in Slots
        PROVE  /\ acks'[s] # None =>
                    attempts'[acks'[s]].slot = s /\ attempts'[acks'[s]].state = "acknowledged"
               /\ evidence'[s] # None =>
                    attempts'[evidence'[s]].slot = s
                    /\ attempts'[evidence'[s]].state = "evidence_recorded"
    <3>1. /\ acks[s] # None =>
               attempts[acks[s]].slot = s /\ attempts[acks[s]].state = "acknowledged"
          /\ evidence[s] # None =>
               attempts[evidence[s]].slot = s /\ attempts[evidence[s]].state = "evidence_recorded"
      BY DEF IInv, SettlementsMatch
    <3>2. \A a \in Attempts : attempts[a].state \in {"acknowledged", "evidence_recorded"} =>
            attempts'[a].state = attempts[a].state /\ attempts'[a].slot = attempts[a].slot
      BY <1>1
    <3> QED
      BY <1>3, <3>1, <3>2
  <2> QED
    BY <1>1, <2>1, <2>2 DEF SettlementsMatch
<1>8. ShownAtMostOnce'
  BY <1>1 DEF IInv, ShownAtMostOnce, OnDisplay
<1> QED
  BY <1>1, <1>4, <1>5, <1>6, <1>7, <1>8

(* SwitchToLegacy and SwitchBackToStructured move between the two modes on *)
(* the present side of the cutover.                                        *)
LEMMA SwitchKeeps == ASSUME IInv, SwitchToLegacy \/ SwitchBackToStructured PROVE IInv'
<1>1. /\ StaleAttempts /\ live /\ ~UnsettledSink /\ draining = None /\ mode' \in Modes
      /\ generation' = generation + 1 /\ (mode' = "structured" => cutover # None)
      /\ UNCHANGED <<engine, cutover, draining, proposed, terminal, acks, evidence, live>>
  BY DEF SwitchToLegacy, SwitchBackToStructured, CanSwitch, Modes
<1>2. UNCHANGED <<published, nextSlot, command, cutover, draining, proposed, terminal, acks,
                  evidence, live>>
  BY <1>1 DEF engine
<1>3. /\ attempts' \in Seq(Attempt) /\ Attempts' = Attempts
      /\ active' \in [Slots -> Attempts \cup {None}]
      /\ ActiveIsCurrent' /\ UnderWayIsActive' /\ SinkFollowsState' /\ SettlementsMatch'
      /\ ShownAtMostOnce'
  <2> DEFINE kept == {"acknowledged", "evidence_recorded", "failed_terminal"}
  <2>1. /\ attempts' = [a \in Attempts |-> IF attempts[a].state \in kept THEN attempts[a]
                                           ELSE [attempts[a] EXCEPT !.state = "stale_session"]]
        /\ active' = NoneYet
    BY <1>1 DEF StaleAttempts, Settled
  <2>2. {"acknowledged", "evidence_recorded"} \subseteq kept
    OBVIOUS
  <2>3. kept \subseteq {"acknowledged", "evidence_recorded", "failed_terminal"}
    OBVIOUS
  <2> HIDE DEF kept
  <2> QED
    BY <1>1, <1>2, <2>1, <2>2, <2>3, StaleRecords
<1>4. TypeOK'
  BY <1>1, <1>2, <1>3 DEF IInv, TypeOK
<1>5. CutoverDivides' /\ CutoverIsEvidenced' /\ DrainHolds'
  BY <1>1, <1>2 DEF IInv, CutoverDivides, CutoverIsEvidenced, DrainHolds
<1> QED
  BY <1>3, <1>4, <1>5 DEF IInv

(* Invalidate: the game ends, and what was acknowledged stays.             *)
LEMMA InvalidateKeeps == ASSUME IInv, Invalidate PROVE IInv'
<1>1. /\ live' = FALSE /\ draining' = None /\ proposed' = None
      /\ UNCHANGED <<published, nextSlot, command, mode, generation, cutover, terminal, acks>>
      /\ evidence' = NoneYet
  BY DEF Invalidate, engine
<1>2. /\ attempts' \in Seq(Attempt) /\ Attempts' = Attempts
      /\ active' \in [Slots -> Attempts \cup {None}]
      /\ evidence' \in [Slots -> Attempts \cup {None}]
      /\ ActiveIsCurrent' /\ UnderWayIsActive' /\ SinkFollowsState' /\ SettlementsMatch'
      /\ ShownAtMostOnce'
  <2> DEFINE kept == {"acknowledged", "evidence_recorded"}
  <2>1. /\ attempts' = [a \in Attempts |-> IF attempts[a].state \in kept THEN attempts[a]
                                           ELSE [attempts[a] EXCEPT !.state = "stale_session"]]
        /\ active' = NoneYet
    BY DEF Invalidate
  <2>2. {"acknowledged", "evidence_recorded"} \subseteq kept
    OBVIOUS
  <2>3. kept \subseteq {"acknowledged", "evidence_recorded", "failed_terminal"}
    OBVIOUS
  <2> HIDE DEF kept
  <2> QED
    BY <1>1, <2>1, <2>2, <2>3, StaleRecords
<1>3. TypeOK'
  BY <1>1, <1>2 DEF IInv, TypeOK
<1>4. CutoverDivides' /\ CutoverIsEvidenced' /\ DrainHolds'
  BY <1>1 DEF IInv, CutoverDivides, CutoverIsEvidenced, DrainHolds, NoneYet
<1> QED
  BY <1>2, <1>3, <1>4 DEF IInv

(* The first switch to the structured mode: with the evidence of every row *)
(* published so far, no attempt is active and the next slot is the cutover.*)
LEMMA CutoverKeeps ==
    ASSUME IInv, live, cutover = None, \A s \in published : evidence[s] # None,
           CommitCutover(nextSlot), UNCHANGED <<engine, records, live>>
    PROVE  IInv'
<1>1. /\ mode' = "structured" /\ generation' = generation + 1 /\ cutover' = nextSlot
      /\ draining' = None /\ proposed' = None
      /\ UNCHANGED <<published, nextSlot, command, attempts, active, terminal, acks, evidence, live>>
      /\ Attempts' = Attempts
  BY DEF CommitCutover, engine, records, Attempts
<1>2. nextSlot \in Nat /\ nextSlot # None /\ published \subseteq Slots
  BY NoneAssumption DEF IInv, TypeOK
<1>3. \A s \in Slots : active[s] = None /\ acks[s] = None
  BY DEF IInv, ActiveIsCurrent, CutoverDivides
<1>4. TypeOK'
  BY <1>1, <1>2 DEF IInv, TypeOK, Modes
<1>5. ActiveIsCurrent' /\ UnderWayIsActive' /\ SinkFollowsState' /\ ShownAtMostOnce'
  <2>1. ActiveIsCurrent'
    BY <1>1, <1>3 DEF ActiveIsCurrent
  <2>2. UnderWayIsActive'
    BY <1>1 DEF IInv, UnderWayIsActive
  <2>3. SinkFollowsState' /\ ShownAtMostOnce'
    BY <1>1 DEF IInv, SinkFollowsState, ShownAtMostOnce, OnDisplay
  <2> QED
    BY <2>1, <2>2, <2>3
<1>6. SettlementsMatch'
  BY <1>1 DEF IInv, SettlementsMatch
<1>7. CutoverDivides'
  <2>1. \A s \in published : s < nextSlot
    BY DEF IInv, CutoverDivides
  <2>2. \A s \in Slots : evidence[s] # None => s \in published
    BY DEF IInv, CutoverDivides
  <2> QED
    BY <1>1, <1>2, <1>3, <2>1, <2>2 DEF CutoverDivides
<1>8. CutoverIsEvidenced' /\ DrainHolds'
  BY <1>1 DEF CutoverIsEvidenced, DrainHolds
<1> QED
  BY <1>4, <1>5, <1>6, <1>7, <1>8 DEF IInv

(* RequestStructured, CompleteTransition and CancelTransition.             *)
LEMMA TransitionKeeps ==
    ASSUME IInv, RequestStructured \/ CompleteTransition \/ CancelTransition PROVE IInv'
<1>1. Required = published /\ published \subseteq Slots /\ nextSlot \in Nat
  BY DEF Required, IInv, CutoverDivides, TypeOK
<1>2. CASE RequestStructured /\ CommitCutover(nextSlot)
  <2>1. cutover' # cutover
    BY <1>1, <1>2, NoneAssumption DEF RequestStructured, CommitCutover
  <2>2. Missing(Required) = {}
    BY <1>2, <2>1 DEF RequestStructured
  <2>3. \A s \in published : evidence[s] # None
    BY <1>1, <2>2 DEF Missing
  <2> QED
    BY <1>2, <2>3, CutoverKeeps DEF RequestStructured, CanSwitch
<1>3. CASE CompleteTransition
  <2>1. draining # None /\ cutover = None /\ draining = published /\ proposed = nextSlot
    BY <1>3 DEF CompleteTransition, IInv, DrainHolds
  <2>2. \A s \in published : evidence[s] # None
    BY <1>3, <2>1 DEF CompleteTransition, Missing
  <2> QED
    BY <1>3, <2>1, <2>2, CutoverKeeps DEF CompleteTransition
<1>4. CASE /\ RequestStructured \/ CancelTransition
           /\ ~CommitCutover(nextSlot)
  <2>1. /\ live /\ mode = "legacy" /\ mode' = mode /\ cutover = None
        /\ UNCHANGED <<engine, generation, cutover, records, live>>
        /\ \/ draining' = None /\ proposed' = None
           \/ draining' = published /\ proposed' = nextSlot /\ command = "idle"
    BY <1>1, <1>4 DEF RequestStructured, CancelTransition, CanSwitch, IInv, DrainHolds
  <2>2. UNCHANGED <<published, nextSlot, command, mode, attempts, active, terminal, acks, evidence,
                    generation, cutover, live>>
    BY <2>1 DEF engine, records
  <2>3. /\ ActiveIsCurrent' /\ UnderWayIsActive' /\ SinkFollowsState' /\ SettlementsMatch'
        /\ ShownAtMostOnce' /\ Attempts' = Attempts
    BY <2>1, <2>2, RecordsStay
  <2>4. TypeOK'
    BY <1>1, <2>1, <2>2, <2>3 DEF IInv, TypeOK
  <2>5. CutoverDivides' /\ CutoverIsEvidenced' /\ DrainHolds'
    BY <2>1, <2>2 DEF IInv, CutoverDivides, CutoverIsEvidenced, DrainHolds
  <2> QED
    BY <2>3, <2>4, <2>5 DEF IInv
<1> QED
  BY <1>2, <1>3, <1>4 DEF CancelTransition, CommitCutover

(* Every step of the deliveries keeps the invariant.                       *)
LEMMA NextInvariant == IInv /\ [Next]_vars => IInv'
<1> SUFFICES ASSUME IInv, [Next]_vars PROVE IInv'
  OBVIOUS
<1>1. CASE StartCommand \/ Publish \/ NpcPublishes \/ EndCommand
  BY <1>1, EngineKeeps
<1>2. CASE \E s \in Slots, d \in Deliveries : Prepare(s, d) \/ RenderFails(s, d)
  BY <1>2, NewKeeps
<1>3. ASSUME NEW a \in Attempts,
             \/ Begin(a) \/ WriteReturns(a) \/ WriteThrows(a) \/ Complete(a)
             \/ CleanUp(a) \/ Acknowledge(a) \/ RecordEvidence(a)
      PROVE  IInv'
  BY <1>3, WriteKeeps, SettleKeeps
<1>4. CASE SwitchToLegacy \/ SwitchBackToStructured
  BY <1>4, SwitchKeeps
<1>5. CASE RequestStructured \/ CompleteTransition \/ CancelTransition
  BY <1>5, TransitionKeeps
<1>6. CASE Invalidate
  BY <1>6, InvalidateKeeps
<1>7. CASE UNCHANGED vars
  <2>1. UNCHANGED <<engine, control, records, live, published, nextSlot, command>>
    BY <1>7 DEF vars, engine
  <2>2. UNCHANGED <<mode, generation, cutover, draining, proposed, attempts, active, terminal,
                    acks, evidence>>
    BY <2>1 DEF control, records
  <2>3. /\ ActiveIsCurrent' /\ UnderWayIsActive' /\ SinkFollowsState' /\ SettlementsMatch'
        /\ ShownAtMostOnce' /\ Attempts' = Attempts
    BY <2>1, <2>2, RecordsStay
  <2>4. TypeOK'
    BY <2>1, <2>2, <2>3 DEF IInv, TypeOK
  <2>5. CutoverDivides' /\ CutoverIsEvidenced' /\ DrainHolds'
    BY <2>1, <2>2 DEF IInv, CutoverDivides, CutoverIsEvidenced, DrainHolds
  <2> QED
    BY <2>3, <2>4, <2>5 DEF IInv
<1> QED
  BY <1>1, <1>2, <1>3, <1>4, <1>5, <1>6, <1>7 DEF Next

-----------------------------------------------------------------------------
(* What follows from the invariant.                                        *)

(* A settled row is on display, and settled on one side of the cutover.    *)
LEMMA InvariantShowsSettled == IInv => SettledMeansShown
<1> SUFFICES ASSUME IInv, NEW s \in Slots
             PROVE  /\ acks[s] # None =>
                         attempts[acks[s]].slot = s /\ attempts[acks[s]].sink = "shown"
                    /\ evidence[s] # None =>
                         attempts[evidence[s]].slot = s /\ attempts[evidence[s]].sink = "shown"
                    /\ acks[s] = None \/ evidence[s] = None
  BY DEF SettledMeansShown
<1>1. /\ acks[s] # None =>
           /\ acks[s] \in Attempts /\ attempts[acks[s]].slot = s
           /\ attempts[acks[s]].state = "acknowledged" /\ cutover # None /\ s >= cutover
      /\ evidence[s] # None =>
           /\ evidence[s] \in Attempts /\ attempts[evidence[s]].slot = s
           /\ attempts[evidence[s]].state = "evidence_recorded"
           /\ cutover # None => s < cutover
  BY DEF IInv, TypeOK, SettlementsMatch, CutoverDivides
<1>2. s \in Nat /\ cutover \in Nat \cup {None}
  BY DEF IInv, TypeOK, Slots
<1>3. acks[s] = None \/ evidence[s] = None
  BY <1>1, <1>2
<1> QED
  BY <1>1, <1>3 DEF IInv, SinkFollowsState

(* A drain is closed, and some missing row has a next step of its own as   *)
(* long as no row has failed for good.                                     *)
LEMMA InvariantDrains == IInv => DrainIsSound
<1> SUFFICES ASSUME IInv PROVE DrainIsSound
  OBVIOUS
<1>1. DrainIsClosed
  BY DEF DrainIsClosed, IInv, DrainHolds, ActiveIsCurrent
<1>2. DrainCanProceed
  <2> SUFFICES ASSUME draining # None, draining \cap terminal = {},
                      NEW s \in Missing(draining)
               PROVE  \/ Deliverable(s, "legacy_pre_cutover")
                      \/ active[s] # None /\
                           attempts[active[s]].state \in {"prepared", "in_flight", "sink_succeeded"}
    BY DEF DrainCanProceed
  <2>1. /\ mode = "legacy" /\ cutover = None /\ draining = published
        /\ s \in published /\ s \notin terminal /\ s \in draining /\ evidence[s] = None /\ s \in Slots
    BY DEF IInv, DrainHolds, Missing, TypeOK
  <2>2. active[s] # None =>
          \/ attempts[active[s]].state \in UnderWay
          \/ attempts[active[s]].state = "failed_retryable"
    <3>1. active[s] \in Attempts \cup {None}
      BY <2>1 DEF IInv, TypeOK
    <3> QED
      BY <2>1, <3>1 DEF IInv, ActiveIsCurrent, SettlementsMatch
  <2>3. ValidDelivery("legacy_pre_cutover") /\ ~SettledFor(s, "legacy_pre_cutover")
    BY <2>1 DEF ValidDelivery, SettledFor
  <2> QED
    BY <2>1, <2>2, <2>3 DEF Deliverable, UnderWay
<1> QED
  BY <1>1, <1>2 DEF DrainIsSound

(* The inductive invariant holds in every reachable state.                 *)
THEOREM Invariance == Spec => []IInv
<1> QED
  BY InitInvariant, NextInvariant, PTL DEF Spec

(* The controller's records have their shapes: every settlement and active *)
(* entry points at an attempt that was made.                               *)
THEOREM TypeCorrect == Spec => []TypeOK
<1>1. IInv => TypeOK
  BY DEF IInv
<1> QED
  BY Invariance, <1>1, PTL

(* The player never sees a publication twice, however the consumer mode is *)
(* switched, an attempt retried or the game torn down under a write.       *)
THEOREM RowsShownOnce == Spec => []ShownAtMostOnce
<1>1. IInv => ShownAtMostOnce
  BY DEF IInv
<1> QED
  BY Invariance, <1>1, PTL

(* What the controller has recorded as delivered is on display, and is     *)
(* recorded either as an acknowledgement or as evidence of a legacy row.   *)
THEOREM SettledAreShown == Spec => []SettledMeansShown
<1> QED
  BY Invariance, InvariantShowsSettled, PTL

(* No publication falls between the two consumers: each before the cutover *)
(* has the evidence of its legacy row.                                     *)
THEOREM CutoverLeavesNothing == Spec => []CutoverIsEvidenced
<1>1. IInv => CutoverIsEvidenced
  BY DEF IInv
<1> QED
  BY Invariance, <1>1, PTL

(* A drain works on a fixed set of publications, with no command running   *)
(* and no attempt of another mode, and is stuck only on a terminal failure.*)
THEOREM DrainsAreSound == Spec => []DrainIsSound
<1> QED
  BY Invariance, InvariantDrains, PTL

=============================================================================
