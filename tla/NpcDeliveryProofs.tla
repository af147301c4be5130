--------------------------- MODULE NpcDeliveryProofs ---------------------------
(***************************************************************************)
(* Proofs about NpcDelivery, for any number of answers, attempts and       *)
(* replaced consumers: the controller's root is always valid, an answer    *)
(* that waits has an attempt left, and the display keeps the promise of    *)
(* OrderedDisplay.                                                         *)
(***************************************************************************)
EXTENDS NpcDelivery, TLAPS

(* The answers acknowledged are the first ones, in the order of the slots. *)
AcksAreAPrefix ==
    /\ Len(acks) <= committed
    /\ \A i \in 1..Len(acks) : acks[i] = i
    /\ \A s \in Slots : Resolved(s) <=> s <= Len(acks)

(* Nothing is known of an answer beyond the first that is not acknowledged.*)
NothingAhead == \A s \in Slots :
    /\ s > Len(acks) + 1 \/ s > committed => records[s] = None
    /\ records[s] = None => attempts[s] = <<>>

(* A record is that of the last attempt, the others being given up, or it  *)
(* waits for an attempt that the limit allows.                             *)
RecordIsTheLast(s) ==
    /\ \A n \in DOMAIN attempts[s] :
         n # records[s].number => attempts[s][n].state = "abandoned"
    /\ IF records[s].state = "pending" THEN records[s].number = None
       ELSE /\ records[s].number = Len(attempts[s]) /\ Len(attempts[s]) > 0
            /\ records[s] = RecordFor(attempts[s][Len(attempts[s])], Len(attempts[s]))
    /\ records[s].state \in {"pending", "failed_retryable"} =>
         Len(attempts[s]) < MaxPerPublicationAttempts
    /\ records[s].state = "abandoned" => invalidated
    /\ records[s].state \in FinalStates \/ records[s].generation = generation

RecordsAreTheLast == \A s \in Slots : records[s] # None => RecordIsTheLast(s)

(* The answer in slot s stands at attempt n, in a given state.             *)
StandsAt(s, n, state) ==
    records[s] # None /\ records[s].number = n /\ records[s].state = state

(* The gates are those of the attempts in flight, the requests those of    *)
(* prepared ones, the tokens those of attempts that may be retried.        *)
IndexesMatch ==
    /\ \A s \in Slots, n \in Numbers :
         /\ <<s, n>> \in DOMAIN gates <=> StandsAt(s, n, "in_flight")
         /\ <<s, n>> \in requests => StandsAt(s, n, "prepared")
    /\ \A t \in tokens :
         StandsAt(t.slot, t.number,
                  IF t.kind = "repeat_sink" THEN "failed_retryable" ELSE "sink_succeeded")

(* The token an attempt carries.                                           *)
TokenIn(state) ==
    IF state = "sink_succeeded" THEN "ack_only"
    ELSE IF state = "failed_retryable" THEN "repeat_sink" ELSE None

AttemptIsValid(attempt) == attempt.token = TokenIn(attempt.state)

AttemptsCarryTokens == \A s \in Slots :
    /\ Len(attempts[s]) <= MaxPerPublicationAttempts
    /\ \A n \in DOMAIN attempts[s] : AttemptIsValid(attempts[s][n])

(* A sink that has not ended is that of the last attempt of the first      *)
(* answer not acknowledged, and it fits what is on display.                *)
SinksFit == \A s \in Slots, n \in Numbers : <<s, n>> \in DOMAIN sinks =>
    /\ n \in DOMAIN attempts[s]
    /\ sinks[<<s, n>>] # "done" =>
         /\ s = Len(acks) + 1 /\ records[s] # None /\ records[s].number = n
         /\ records[s].state \in {"in_flight", "failed_terminal", "abandoned"}
    /\ sinks[<<s, n>>] \in {"writing", "failed_clean"} => Len(display) = Len(acks)
    /\ sinks[<<s, n>>] = "written" => Len(display) = Len(acks) + 1

(* What is on display: the acknowledged answers, and perhaps the next one, *)
(* which then cannot be shown again.                                       *)
DisplayFits ==
    /\ Len(display) \in {Len(acks), Len(acks) + 1}
    /\ \A i \in 1..Len(display) : display[i] = i
    /\ \A s \in Slots : records[s] # None /\ s > Len(acks) =>
         /\ records[s].state = "sink_succeeded" => Len(display) = Len(acks) + 1
         /\ records[s].state \in {"pending", "prepared", "failed_retryable"} =>
              Len(display) = Len(acks)
    /\ Len(display) > Len(acks) =>
         Len(acks) + 1 \in Slots /\ records[Len(acks) + 1] # None

(* What the root's records, attempts and acknowledgements say of each other.*)
RootFits == AcksAreAPrefix /\ NothingAhead /\ RecordsAreTheLast /\ AttemptsCarryTokens

(* The inductive invariant.                                                *)
IInv ==
    /\ TypeOK
    /\ RootFits
    /\ IndexesMatch
    /\ SinksFit
    /\ DisplayFits

-----------------------------------------------------------------------------
(* What the invariant says of single answers and attempts.                 *)

(* The shapes of what the controller keeps.                                *)
LEMMA Shapes ==
    ASSUME TypeOK
    PROVE  /\ MaxPublications \in Nat /\ Slots = 1..MaxPublications /\ Numbers = 1..3
           /\ acks \in Seq(Slots) /\ Len(acks) \in Nat /\ committed \in Nat
           /\ committed <= MaxPublications /\ generation \in Nat
           /\ display \in Seq(Slots) /\ Len(display) \in Nat
           /\ \A s \in Slots :
                /\ s \in Nat /\ s > 0 /\ attempts[s] \in Seq(Attempt) /\ Len(attempts[s]) \in Nat
                /\ DOMAIN attempts[s] = 1..Len(attempts[s])
                /\ \A n \in DOMAIN attempts[s] : attempts[s][n] \in Attempt
                /\ records[s] \in Record \union {None}
<1>1. \A s \in Slots : attempts[s] \in Seq(Attempt) /\ records[s] \in Record \union {None}
  BY DEF TypeOK
<1> QED
  BY <1>1, BoundsAssumption DEF TypeOK, Slots, Numbers, MaxPerPublicationAttempts

(* The members of records.                                                 *)
LEMMA RecordShape ==
    ASSUME NEW r \in Record
    PROVE  /\ r # None /\ r.state \in {"pending"} \union ActiveStates \union FinalStates
           /\ r.number \in Numbers \union {None} /\ r.generation \in 0..MaxGeneration
BY NullAssumption DEF Record

(* RecordFor gives the record of an attempt.                               *)
LEMMA RecordForShape ==
    ASSUME NEW attempt \in Attempt, NEW n \in Numbers
    PROVE  /\ RecordFor(attempt, n) \in Record /\ RecordFor(attempt, n) # None
           /\ RecordFor(attempt, n).state = attempt.state
           /\ RecordFor(attempt, n).number = n
           /\ RecordFor(attempt, n).generation = attempt.generation
<1>1. RecordFor(attempt, n) \in Record
  BY DEF RecordFor, Attempt, Record
<1> QED
  BY <1>1, RecordShape DEF RecordFor

(* Only the first answer not acknowledged is the unresolved head.          *)
LEMMA HeadIsNext ==
    ASSUME IInv, NEW s \in Slots
    PROVE  IsHead(s) <=> s = Len(acks) + 1 /\ s <= committed
<1>1. \A t \in Slots : Resolved(t) <=> t <= Len(acks)
  BY DEF IInv, RootFits, AcksAreAPrefix
<1>2. /\ Len(acks) \in Nat /\ committed \in Nat /\ MaxPublications \in Nat
      /\ Slots = 1..MaxPublications /\ s \in Nat /\ s > 0
  BY Shapes DEF IInv
<1>3. ASSUME IsHead(s) PROVE s = Len(acks) + 1 /\ s <= committed
  <2>1. s \in 1..committed /\ s > Len(acks)
    BY <1>1, <1>2, <1>3 DEF IsHead
  <2>2. ASSUME s > Len(acks) + 1 PROVE FALSE
    <3>1. Len(acks) + 1 \in 1..(s - 1) /\ Len(acks) + 1 \in Slots
      BY <1>2, <2>1, <2>2
    <3> QED
      BY <1>1, <1>2, <1>3, <3>1 DEF IsHead
  <2> QED
    BY <1>2, <2>1, <2>2
<1>4. ASSUME s = Len(acks) + 1, s <= committed PROVE IsHead(s)
  <2>1. \A t \in 1..(s - 1) : t \in Slots /\ t <= Len(acks)
    BY <1>2, <1>4
  <2> QED
    BY <1>1, <1>2, <1>4, <2>1 DEF IsHead
<1> QED
  BY <1>3, <1>4

(* An attempt that is not over is the last of the first answer that is not *)
(* acknowledged, and its record says so.                                   *)
LEMMA ActiveIsLast ==
    ASSUME IInv, NEW s \in Slots, NEW n \in DOMAIN attempts[s],
           attempts[s][n].state \in ActiveStates
    PROVE  /\ s = Len(acks) + 1 /\ s <= committed /\ n = Len(attempts[s]) /\ n \in Numbers
           /\ attempts[s][n] \in Attempt
           /\ records[s] = RecordFor(attempts[s][n], n) /\ records[s] # None
           /\ records[s].state = attempts[s][n].state /\ records[s].number = n
           /\ records[s].generation = attempts[s][n].generation
           /\ attempts[s][n].generation = generation
<1>1. /\ attempts[s] \in Seq(Attempt) /\ DOMAIN attempts[s] = 1..Len(attempts[s])
      /\ Len(attempts[s]) \in Nat /\ attempts[s][n] \in Attempt /\ records[s] \in Record \union {None}
      /\ Len(acks) \in Nat /\ committed \in Nat /\ s \in Nat
  BY Shapes DEF IInv
<1>2. records[s] # None /\ RecordIsTheLast(s)
  BY <1>1 DEF IInv, RootFits, NothingAhead, RecordsAreTheLast
<1>3. records[s].number = n
  BY <1>2 DEF RecordIsTheLast, ActiveStates
<1>4. n = Len(attempts[s]) /\ records[s] = RecordFor(attempts[s][n], n)
  BY <1>1, <1>2, <1>3, NoneAssumption DEF RecordIsTheLast
<1>5. n \in Numbers
  <2>1. Len(attempts[s]) <= 3 /\ Numbers = 1..3
    BY Shapes DEF IInv, RootFits, AttemptsCarryTokens, MaxPerPublicationAttempts
  <2>2. n \in 1..Len(attempts[s]) /\ Len(attempts[s]) \in Nat
    BY <1>1
  <2> QED
    BY <2>1, <2>2
<1>6. /\ records[s].state = attempts[s][n].state
      /\ records[s].generation = attempts[s][n].generation
  BY <1>1, <1>4, <1>5, RecordForShape
<1>7. s = Len(acks) + 1 /\ s <= committed
  <2>1. s > Len(acks)
    BY <1>1, <1>2, <1>6 DEF IInv, RootFits, AcksAreAPrefix, Resolved, ActiveStates
  <2> QED
    BY <1>1, <1>2, <2>1 DEF IInv, RootFits, NothingAhead
<1>8. records[s].generation = generation
  BY <1>2, <1>6 DEF RecordIsTheLast, ActiveStates, FinalStates
<1> QED
  BY <1>1, <1>2, <1>3, <1>4, <1>5, <1>6, <1>7, <1>8

(* An answer stands at its last attempt.                                   *)
LEMMA StandsAtLast ==
    ASSUME IInv, NEW s \in Slots, NEW n \in Numbers, NEW state \in ActiveStates,
           StandsAt(s, n, state)
    PROVE  n \in DOMAIN attempts[s] /\ n = Len(attempts[s]) /\ attempts[s][n].state = state
<1>1. /\ Len(attempts[s]) \in Nat /\ DOMAIN attempts[s] = 1..Len(attempts[s])
      /\ \A m \in DOMAIN attempts[s] : attempts[s][m] \in Attempt
  BY Shapes DEF IInv
<1>2. /\ n = Len(attempts[s]) /\ Len(attempts[s]) > 0
      /\ records[s] = RecordFor(attempts[s][n], n)
  BY DEF IInv, RootFits, RecordsAreTheLast, RecordIsTheLast, StandsAt, ActiveStates
<1>3. n \in DOMAIN attempts[s]
  BY <1>1, <1>2
<1> QED
  BY <1>1, <1>2, <1>3, RecordForShape DEF StandsAt

-----------------------------------------------------------------------------
(* Steps of one answer.                                                    *)

(* A step that gives the first answer not acknowledged other attempts and  *)
(* another record.                                                         *)
LEMMA HeadKeeps ==
    ASSUME IInv, NEW s \in Slots, NEW seq \in Seq(Attempt), NEW r \in Record,
           attempts' = [attempts EXCEPT ![s] = seq], records' = [records EXCEPT ![s] = r],
           UNCHANGED <<committed, generation, acks, invalidated>>,
           s = Len(acks) + 1, s <= committed, r.state # "acknowledged",
           RecordIsTheLast(s)',
           Len(seq) <= MaxPerPublicationAttempts,
           \A n \in DOMAIN seq : AttemptIsValid(seq[n])
    PROVE  /\ records' \in [Slots -> Record \union {None}] /\ attempts' \in [Slots -> Seq(Attempt)]
           /\ attempts'[s] = seq /\ records'[s] = r
           /\ \A t \in Slots \ {s} : attempts'[t] = attempts[t] /\ records'[t] = records[t]
           /\ RootFits'
<1>1. /\ records' \in [Slots -> Record \union {None}] /\ attempts' \in [Slots -> Seq(Attempt)]
      /\ attempts'[s] = seq /\ records'[s] = r
      /\ \A t \in Slots \ {s} : attempts'[t] = attempts[t] /\ records'[t] = records[t]
  BY DEF IInv, TypeOK
<1>2. r # None
  BY RecordShape
<1>3. AcksAreAPrefix'
  <2>1. \A t \in Slots : Resolved(t)' <=> t <= Len(acks)
    <3> SUFFICES ASSUME NEW t \in Slots PROVE Resolved(t)' <=> t <= Len(acks)
      OBVIOUS
    <3>1. CASE t = s
      BY <1>1, <3>1, Shapes DEF IInv, Resolved
    <3>2. CASE t # s
      BY <1>1, <3>2 DEF IInv, RootFits, AcksAreAPrefix, Resolved
    <3> QED
      BY <3>1, <3>2
  <2> QED
    BY <2>1 DEF IInv, RootFits, AcksAreAPrefix
<1>4. NothingAhead'
  <2> SUFFICES ASSUME NEW t \in Slots
               PROVE  /\ t > Len(acks) + 1 \/ t > committed => records'[t] = None
                      /\ records'[t] = None => attempts'[t] = <<>>
    BY DEF NothingAhead
  <2>1. CASE t = s
    BY <1>1, <1>2, <2>1, Shapes DEF IInv
  <2>2. CASE t # s
    BY <1>1, <2>2 DEF IInv, RootFits, NothingAhead
  <2> QED
    BY <2>1, <2>2
<1>5. RecordsAreTheLast'
  <2> SUFFICES ASSUME NEW t \in Slots, records'[t] # None PROVE RecordIsTheLast(t)'
    BY DEF RecordsAreTheLast
  <2>1. CASE t = s
    BY <2>1
  <2>2. CASE t # s
    <3>1. RecordIsTheLast(t)
      BY <1>1, <2>2 DEF IInv, RootFits, RecordsAreTheLast
    <3> QED
      BY <1>1, <2>2, <3>1 DEF RecordIsTheLast
  <2> QED
    BY <2>1, <2>2
<1>6. AttemptsCarryTokens'
  <2> SUFFICES ASSUME NEW t \in Slots
               PROVE  /\ Len(attempts'[t]) <= MaxPerPublicationAttempts
                      /\ \A n \in DOMAIN attempts'[t] : AttemptIsValid(attempts'[t][n])
    BY DEF AttemptsCarryTokens, AttemptIsValid
  <2>1. CASE t = s
    BY <1>1, <2>1
  <2>2. CASE t # s
    BY <1>1, <2>2 DEF IInv, RootFits, AttemptsCarryTokens
  <2> QED
    BY <2>1, <2>2
<1> QED
  BY <1>1, <1>3, <1>4, <1>5, <1>6 DEF RootFits

(* An attempt that is not over moves on.                                   *)
LEMMA BecomesKeeps ==
    ASSUME IInv, NEW s \in Slots, NEW n \in DOMAIN attempts[s],
           attempts[s][n].state \in ActiveStates,
           NEW new \in Attempt, Becomes(<<s, n>>, new), AttemptIsValid(new),
           new.generation = attempts[s][n].generation,
           new.state \in (ActiveStates \union {"failed_terminal"}),
           new.state = "failed_retryable" => AttemptsLeft(<<s, n>>),
           UNCHANGED <<committed, generation, acks, invalidated>>
    PROVE  /\ records' \in [Slots -> Record \union {None}] /\ attempts' \in [Slots -> Seq(Attempt)]
           /\ s = Len(acks) + 1 /\ s <= committed /\ n = Len(attempts[s]) /\ n \in Numbers
           /\ records[s] # None /\ records[s].number = n /\ records[s].state = attempts[s][n].state
           /\ records'[s] # None /\ records'[s].number = n /\ records'[s].state = new.state
           /\ \A t \in Slots : DOMAIN attempts'[t] = DOMAIN attempts[t]
           /\ Len(attempts'[s]) = Len(attempts[s]) /\ attempts'[s][n] = new
           /\ \A t \in Slots \ {s} : attempts'[t] = attempts[t] /\ records'[t] = records[t]
           /\ RootFits'
<1> DEFINE seq == [attempts[s] EXCEPT ![n] = new]
<1> DEFINE r == RecordFor(new, n)
<1>1. /\ s = Len(acks) + 1 /\ s <= committed /\ n = Len(attempts[s]) /\ n \in Numbers
      /\ records[s] # None /\ records[s].number = n /\ records[s].state = attempts[s][n].state
      /\ records[s] = RecordFor(attempts[s][n], n) /\ attempts[s][n].generation = generation
  BY ActiveIsLast
<1>2. /\ attempts[s] \in Seq(Attempt) /\ Len(attempts[s]) \in Nat
      /\ DOMAIN attempts[s] = 1..Len(attempts[s])
  BY Shapes DEF IInv
<1>3. /\ seq \in Seq(Attempt) /\ Len(seq) = Len(attempts[s]) /\ DOMAIN seq = DOMAIN attempts[s]
      /\ seq[n] = new /\ \A m \in DOMAIN attempts[s] : m # n => seq[m] = attempts[s][m]
  BY <1>2
<1>4. /\ r \in Record /\ r # None /\ r.state = new.state /\ r.number = n
      /\ r.generation = new.generation
  BY <1>1, RecordForShape
<1>5. attempts' = [attempts EXCEPT ![s] = seq] /\ records' = [records EXCEPT ![s] = r]
  BY DEF Becomes
<1> HIDE DEF seq, r
<1>6. attempts'[s] = seq /\ records'[s] = r
  BY <1>5 DEF IInv, TypeOK
<1>7. RecordIsTheLast(s)'
  <2>1. \A m \in DOMAIN attempts[s] : m # n => attempts[s][m].state = "abandoned"
    BY <1>1 DEF IInv, RootFits, RecordsAreTheLast, RecordIsTheLast
  <2>2. \A m \in DOMAIN attempts'[s] : m # n => attempts'[s][m].state = "abandoned"
    BY <1>3, <1>6, <2>1
  <2>3. Len(attempts'[s]) = n /\ n > 0 /\ records'[s] = RecordFor(attempts'[s][n], n)
    BY <1>1, <1>2, <1>3, <1>6 DEF r
  <2>4. r.state # "pending" /\ r.state # "abandoned" /\ r.generation = generation
    BY <1>1, <1>4 DEF ActiveStates
  <2>5. r.state = "failed_retryable" => n < MaxPerPublicationAttempts
    BY <1>4 DEF AttemptsLeft
  <2> QED
    BY <1>4, <1>6, <2>2, <2>3, <2>4, <2>5 DEF RecordIsTheLast
<1>8. /\ Len(seq) <= MaxPerPublicationAttempts
      /\ \A m \in DOMAIN seq : AttemptIsValid(seq[m])
  <2>1. /\ Len(attempts[s]) <= MaxPerPublicationAttempts
        /\ \A m \in DOMAIN attempts[s] : AttemptIsValid(attempts[s][m])
    BY DEF IInv, RootFits, AttemptsCarryTokens
  <2> QED
    BY <1>3, <2>1
<1>9. r.state # "acknowledged"
  BY <1>4 DEF ActiveStates
<1>10. /\ records' \in [Slots -> Record \union {None}] /\ attempts' \in [Slots -> Seq(Attempt)]
       /\ attempts'[s] = seq /\ records'[s] = r
       /\ \A t \in Slots \ {s} : attempts'[t] = attempts[t] /\ records'[t] = records[t]
       /\ RootFits'
  BY <1>1, <1>3, <1>4, <1>5, <1>7, <1>8, <1>9, HeadKeeps
<1> QED
  BY <1>1, <1>3, <1>4, <1>10

(* The first answer not acknowledged is given another attempt.             *)
LEMMA StartsKeeps ==
    ASSUME IInv, NEW s \in Slots, s = Len(acks) + 1, s <= committed,
           NEW old \in Seq(Attempt), Len(old) = Len(attempts[s]),
           Len(old) < MaxPerPublicationAttempts,
           \A n \in DOMAIN old : old[n].state = "abandoned" /\ AttemptIsValid(old[n]),
           NEW state \in {"prepared", "failed_terminal"}, Starts(s, old, state),
           UNCHANGED <<committed, generation, acks, invalidated>>
    PROVE  LET n == Len(old) + 1 IN
           /\ records' \in [Slots -> Record \union {None}] /\ attempts' \in [Slots -> Seq(Attempt)]
           /\ n \in Numbers /\ n \notin DOMAIN attempts[s]
           /\ records'[s] # None /\ records'[s].number = n /\ records'[s].state = state
           /\ DOMAIN attempts'[s] = DOMAIN attempts[s] \union {n}
           /\ \A t \in Slots \ {s} : attempts'[t] = attempts[t] /\ records'[t] = records[t]
           /\ RootFits'
<1> DEFINE n == Len(old) + 1
<1> DEFINE new == [state |-> state, generation |-> generation, token |-> None]
<1> DEFINE seq == Append(old, new)
<1> DEFINE r == RecordFor(new, n)
<1>1. /\ Len(attempts[s]) \in Nat /\ DOMAIN attempts[s] = 1..Len(attempts[s])
      /\ Numbers = 1..3 /\ MaxPerPublicationAttempts = 3 /\ Len(old) \in Nat
  BY Shapes DEF IInv, MaxPerPublicationAttempts
<1>2. new \in Attempt /\ new.state = state /\ new.generation = generation /\ new.token = None
  BY DEF Attempt, IInv, TypeOK, ActiveStates, FinalStates
<1>3. n \in Numbers /\ n > 0
  BY <1>1
<1>4. /\ r \in Record /\ r # None /\ r.state = state /\ r.number = n /\ r.generation = generation
  BY <1>2, <1>3, RecordForShape
<1>5. attempts' = [attempts EXCEPT ![s] = seq] /\ records' = [records EXCEPT ![s] = r]
  BY DEF Starts
<1> HIDE DEF new
<1>6. /\ seq \in Seq(Attempt) /\ Len(seq) = n /\ seq[n] = new
      /\ DOMAIN seq = 1..n /\ DOMAIN old = 1..Len(old)
      /\ \A m \in DOMAIN old : seq[m] = old[m]
  BY <1>1, <1>2
<1>7. DOMAIN seq = DOMAIN old \union {n} /\ DOMAIN old = DOMAIN attempts[s] /\ n \notin DOMAIN old
  BY <1>1, <1>6
<1>8. r = RecordFor(new, n)
  OBVIOUS
<1> HIDE DEF seq, r, n
<1>9. attempts'[s] = seq /\ records'[s] = r
  BY <1>5 DEF IInv, TypeOK
<1>10. RecordIsTheLast(s)'
  <2>1. \A m \in DOMAIN attempts'[s] : m # n => attempts'[s][m].state = "abandoned"
    BY <1>6, <1>7, <1>9
  <2>2. r.state \notin {"pending", "failed_retryable", "abandoned"} /\ r.generation = generation
    BY <1>4
  <2> QED
    BY <1>3, <1>4, <1>6, <1>8, <1>9, <2>1, <2>2 DEF RecordIsTheLast
<1>11. /\ Len(seq) <= MaxPerPublicationAttempts
       /\ \A m \in DOMAIN seq : AttemptIsValid(seq[m])
  <2>1. AttemptIsValid(new)
    BY <1>2 DEF AttemptIsValid, TokenIn
  <2>2. Len(seq) <= MaxPerPublicationAttempts
    BY <1>1, <1>3, <1>6
  <2>3. \A m \in DOMAIN seq : m = n \/ m \in DOMAIN old
    BY <1>7
  <2>4. \A m \in DOMAIN old : AttemptIsValid(seq[m])
    BY <1>6
  <2> QED
    BY <1>6, <2>1, <2>2, <2>3, <2>4
<1>12. r.state # "acknowledged"
  BY <1>4
<1>13. /\ records' \in [Slots -> Record \union {None}] /\ attempts' \in [Slots -> Seq(Attempt)]
       /\ attempts'[s] = seq /\ records'[s] = r
       /\ \A t \in Slots \ {s} : attempts'[t] = attempts[t] /\ records'[t] = records[t]
       /\ RootFits'
  BY <1>4, <1>5, <1>6, <1>10, <1>11, <1>12, HeadKeeps
<1> QED
  BY <1>3, <1>4, <1>7, <1>13 DEF n

(* A step that leaves the root alone, but for another committed answer.    *)
LEMMA RootStays ==
    ASSUME IInv, UNCHANGED <<records, attempts, acks, generation, invalidated>>,
           committed' \in {committed, committed + 1}
    PROVE  RootFits'
<1>1. committed \in Nat /\ Len(acks) \in Nat /\ \A s \in Slots : s \in Nat
  BY Shapes DEF IInv
<1>2. AcksAreAPrefix'
  BY <1>1 DEF IInv, RootFits, AcksAreAPrefix, Resolved
<1>3. NothingAhead'
  BY <1>1 DEF IInv, RootFits, NothingAhead
<1>4. RecordsAreTheLast'
  BY DEF IInv, RootFits, RecordsAreTheLast, RecordIsTheLast
<1>5. AttemptsCarryTokens'
  BY DEF IInv, RootFits, AttemptsCarryTokens
<1> QED
  BY <1>2, <1>3, <1>4, <1>5 DEF RootFits

(* A step of the first answer not acknowledged, by slots: the indexes, the *)
(* sinks and the display fit again when those of this answer do.           *)
LEMMA HeadStep ==
    ASSUME IInv, TypeOK', RootFits', UNCHANGED <<acks, display>>,
           NEW s \in Slots, s = Len(acks) + 1, records'[s] # None,
           \A t \in Slots \ {s} : attempts'[t] = attempts[t] /\ records'[t] = records[t],
           \A t \in Slots \ {s}, n \in Numbers :
             /\ <<t, n>> \in DOMAIN gates' <=> <<t, n>> \in DOMAIN gates
             /\ <<t, n>> \in requests' => <<t, n>> \in requests
             /\ <<t, n>> \in DOMAIN sinks' =>
                  <<t, n>> \in DOMAIN sinks /\ sinks'[<<t, n>>] = sinks[<<t, n>>],
           \A n \in Numbers :
             /\ <<s, n>> \in DOMAIN gates' <=> StandsAt(s, n, "in_flight")'
             /\ <<s, n>> \in requests' => StandsAt(s, n, "prepared")'
             /\ <<s, n>> \in DOMAIN sinks' =>
                  /\ n \in DOMAIN attempts'[s]
                  /\ sinks'[<<s, n>>] # "done" =>
                       /\ records'[s].number = n
                       /\ records'[s].state \in {"in_flight", "failed_terminal", "abandoned"}
                  /\ sinks'[<<s, n>>] \in {"writing", "failed_clean"} => Len(display) = Len(acks)
                  /\ sinks'[<<s, n>>] = "written" => Len(display) = Len(acks) + 1,
           \A t \in tokens' :
             \/ t \in tokens /\ t.slot # s
             \/ /\ t.slot = s
                /\ StandsAt(s, t.number, IF t.kind = "repeat_sink" THEN "failed_retryable"
                                         ELSE "sink_succeeded")',
           records'[s].state = "sink_succeeded" => Len(display) = Len(acks) + 1,
           records'[s].state \in {"pending", "prepared", "failed_retryable"} =>
             Len(display) = Len(acks)
    PROVE  IInv'
<1>1. IndexesMatch'
  <2>1. ASSUME NEW t \in Slots, NEW n \in Numbers
        PROVE  /\ <<t, n>> \in DOMAIN gates' <=> StandsAt(t, n, "in_flight")'
               /\ <<t, n>> \in requests' => StandsAt(t, n, "prepared")'
    <3>1. CASE t = s
      BY <3>1
    <3>2. CASE t # s
      BY <3>2 DEF IInv, IndexesMatch, StandsAt
    <3> QED
      BY <3>1, <3>2
  <2>2. ASSUME NEW t \in tokens'
        PROVE  StandsAt(t.slot, t.number,
                        IF t.kind = "repeat_sink" THEN "failed_retryable" ELSE "sink_succeeded")'
    <3>1. t.slot \in Slots
      BY DEF TypeOK
    <3>2. CASE t \in tokens /\ t.slot # s
      <4>1. records'[t.slot] = records[t.slot]
        BY <3>1, <3>2
      <4>2. StandsAt(t.slot, t.number,
                     IF t.kind = "repeat_sink" THEN "failed_retryable" ELSE "sink_succeeded")
        BY <3>2 DEF IInv, IndexesMatch
      <4> QED
        BY <4>1, <4>2 DEF StandsAt
    <3>3. CASE ~(t \in tokens /\ t.slot # s)
      <4>1. /\ t.slot = s
            /\ StandsAt(s, t.number, IF t.kind = "repeat_sink" THEN "failed_retryable"
                                     ELSE "sink_succeeded")'
        BY <3>3
      <4> QED
        BY <4>1 DEF StandsAt
    <3> QED
      BY <3>2, <3>3
  <2> QED
    BY <2>1, <2>2 DEF IndexesMatch, StandsAt
<1>2. SinksFit'
  <2> SUFFICES ASSUME NEW t \in Slots, NEW n \in Numbers, <<t, n>> \in DOMAIN sinks'
               PROVE  /\ n \in DOMAIN attempts'[t]
                      /\ sinks'[<<t, n>>] # "done" =>
                           /\ t = Len(acks) + 1 /\ records'[t] # None /\ records'[t].number = n
                           /\ records'[t].state \in {"in_flight", "failed_terminal", "abandoned"}
                      /\ sinks'[<<t, n>>] \in {"writing", "failed_clean"} =>
                           Len(display) = Len(acks)
                      /\ sinks'[<<t, n>>] = "written" => Len(display) = Len(acks) + 1
    BY DEF SinksFit
  <2>1. CASE t = s
    BY <2>1
  <2>2. CASE t # s
    <3>1. /\ attempts'[t] = attempts[t] /\ records'[t] = records[t]
          /\ <<t, n>> \in DOMAIN sinks /\ sinks'[<<t, n>>] = sinks[<<t, n>>]
      BY <2>2
    <3> QED
      BY <3>1 DEF IInv, SinksFit
  <2> QED
    BY <2>1, <2>2
<1>3. DisplayFits'
  <2>1. ASSUME NEW t \in Slots, records'[t] # None, t > Len(acks)
        PROVE  /\ records'[t].state = "sink_succeeded" => Len(display) = Len(acks) + 1
               /\ records'[t].state \in {"pending", "prepared", "failed_retryable"} =>
                    Len(display) = Len(acks)
    <3>1. CASE t = s
      BY <3>1
    <3>2. CASE t # s
      BY <2>1, <3>2 DEF IInv, DisplayFits
    <3> QED
      BY <3>1, <3>2
  <2> QED
    BY <2>1 DEF IInv, DisplayFits
<1> QED
  BY <1>1, <1>2, <1>3 DEF IInv

(* The attempts that have a gate, a request or a token are active.         *)
LEMMA IndexedAreActive ==
    ASSUME IInv, NEW s \in Slots, NEW n \in Numbers, NEW state \in ActiveStates,
           \/ <<s, n>> \in DOMAIN gates /\ state = "in_flight"
           \/ <<s, n>> \in requests /\ state = "prepared"
           \/ \E t \in tokens : /\ t.slot = s /\ t.number = n
                                /\ state = IF t.kind = "repeat_sink" THEN "failed_retryable"
                                           ELSE "sink_succeeded"
    PROVE  /\ n \in DOMAIN attempts[s] /\ attempts[s][n].state = state
           /\ s = Len(acks) + 1 /\ n = Len(attempts[s])
           /\ records[s] # None /\ records[s].state = state /\ records[s].number = n
<1>1. StandsAt(s, n, state)
  BY DEF IInv, IndexesMatch
<1>2. n \in DOMAIN attempts[s] /\ attempts[s][n].state = state
  BY <1>1, StandsAtLast
<1> QED
  BY <1>2, ActiveIsLast

(* Of the answers but the first not acknowledged no index speaks.          *)
LEMMA OnlyHeadIsIndexed ==
    ASSUME IInv, NEW s \in Slots, s # Len(acks) + 1
    PROVE  /\ \A n \in Numbers : <<s, n>> \notin DOMAIN gates /\ <<s, n>> \notin requests
           /\ \A t \in tokens : t.slot # s
<1>1. \A n \in Numbers : <<s, n>> \notin DOMAIN gates /\ <<s, n>> \notin requests
  BY IndexedAreActive DEF ActiveStates
<1>2. ASSUME NEW t \in tokens, t.slot = s PROVE FALSE
  <2> DEFINE state == IF t.kind = "repeat_sink" THEN "failed_retryable" ELSE "sink_succeeded"
  <2>1. t.number \in Numbers
    BY DEF IInv, TypeOK
  <2>2. state \in ActiveStates
    BY DEF ActiveStates
  <2>3. StandsAt(s, t.number, state)
    BY <1>2 DEF IInv, IndexesMatch
  <2> HIDE DEF state
  <2>4. t.number \in DOMAIN attempts[s] /\ attempts[s][t.number].state = state
    BY <2>1, <2>2, <2>3, StandsAtLast
  <2> QED
    BY <2>2, <2>4, ActiveIsLast
<1> QED
  BY <1>1, <1>2

(* Commit: the next answer is committed.                                   *)
LEMMA CommitKeeps == ASSUME IInv, Commit PROVE IInv'
<1>1. /\ committed' \in {committed, committed + 1} /\ committed' \in 0..MaxPublications
      /\ UNCHANGED <<generation, records, attempts, tokens, acks, requests, gates, invalidated,
                     sinks, display>>
  BY Shapes DEF Commit, external, IInv
<1>2. RootFits'
  BY <1>1, RootStays
<1>3. TypeOK'
  BY <1>1 DEF IInv, TypeOK
<1>4. IndexesMatch' /\ SinksFit' /\ DisplayFits'
  BY <1>1 DEF IInv, IndexesMatch, StandsAt, SinksFit, DisplayFits
<1> QED
  BY <1>2, <1>3, <1>4 DEF IInv

(* Discover: the head gets a record and has no attempt yet.                *)
LEMMA DiscoverKeeps == ASSUME IInv, NEW s \in Slots, Discover(s) PROVE IInv'
<1>1. /\ s = Len(acks) + 1 /\ s <= committed /\ records[s] = None /\ attempts[s] = <<>>
      /\ records' = [records EXCEPT ![s] = Pending]
      /\ UNCHANGED <<committed, generation, attempts, tokens, acks, requests, gates, invalidated,
                     sinks, display>>
  BY HeadIsNext DEF Discover, external, IInv, RootFits, NothingAhead
<1>2. /\ Pending \in Record /\ Pending # None /\ Pending.state = "pending"
      /\ Pending.number = None /\ Pending.generation = generation
  <2>1. Pending \in Record
    BY DEF Pending, Record, IInv, TypeOK
  <2> QED
    BY <2>1, RecordShape DEF Pending
<1>3. attempts' = [attempts EXCEPT ![s] = attempts[s]] /\ attempts[s] \in Seq(Attempt)
  BY <1>1 DEF IInv, TypeOK
<1>4. records'[s] = Pending
  BY <1>1 DEF IInv, TypeOK
<1>5. RecordIsTheLast(s)'
  BY <1>1, <1>2, <1>4 DEF RecordIsTheLast, MaxPerPublicationAttempts
<1>6. /\ Len(attempts[s]) <= MaxPerPublicationAttempts
      /\ \A n \in DOMAIN attempts[s] : AttemptIsValid(attempts[s][n])
  BY DEF IInv, RootFits, AttemptsCarryTokens
<1>7. /\ records' \in [Slots -> Record \union {None}]
      /\ \A t \in Slots \ {s} : attempts'[t] = attempts[t] /\ records'[t] = records[t]
      /\ RootFits'
  BY <1>1, <1>2, <1>3, <1>5, <1>6, HeadKeeps
<1>8. TypeOK'
  BY <1>1, <1>7 DEF IInv, TypeOK
<1>9. \A n \in Numbers : /\ <<s, n>> \notin DOMAIN gates /\ <<s, n>> \notin requests
                         /\ <<s, n>> \notin DOMAIN sinks
  BY <1>1 DEF IInv, IndexesMatch, StandsAt, SinksFit
<1>10. \A t \in tokens : t.slot # s
  BY <1>1 DEF IInv, IndexesMatch, StandsAt
<1>11. Len(display) = Len(acks)
  <2>1. ~(Len(display) > Len(acks)) /\ Len(display) \in {Len(acks), Len(acks) + 1}
    BY <1>1 DEF IInv, DisplayFits
  <2> QED
    BY <2>1, Shapes DEF IInv
<1>12. \A n \in Numbers : ~StandsAt(s, n, "in_flight")'
  BY <1>2, <1>4 DEF StandsAt
<1> QED
  BY <1>1, <1>2, <1>4, <1>7, <1>8, <1>9, <1>10, <1>11, <1>12, HeadStep

(* A sink at work keeps its answer's record where it is; in any other      *)
(* state of the record the answer's sinks have ended.                      *)
LEMMA SinksEnded ==
    ASSUME IInv, NEW s \in Slots,
           records[s] = None \/ records[s].state \notin {"in_flight", "failed_terminal", "abandoned"},
           NEW n \in Numbers, <<s, n>> \in DOMAIN sinks
    PROVE  n \in DOMAIN attempts[s] /\ sinks[<<s, n>>] = "done"
BY DEF IInv, SinksFit

(* Prepare and Retry: another attempt of an answer that is not on display. *)
LEMMA StartStep ==
    ASSUME IInv, NEW s \in Slots, s = Len(acks) + 1, s <= committed,
           NEW old \in Seq(Attempt), Len(old) = Len(attempts[s]),
           Len(old) < MaxPerPublicationAttempts,
           \A n \in DOMAIN old : old[n].state = "abandoned" /\ AttemptIsValid(old[n]),
           NEW state \in {"prepared", "failed_terminal"}, Starts(s, old, state),
           records[s] # None, records[s].state \in {"pending", "failed_retryable"},
           requests' = IF state = "prepared" THEN requests \union {<<s, Len(old) + 1>>}
                       ELSE requests,
           tokens' \subseteq tokens, \A t \in tokens' : t.slot # s,
           UNCHANGED <<committed, generation, acks, gates, invalidated, external>>
    PROVE  IInv'
<1> DEFINE new == Len(old) + 1
<1>1. /\ records' \in [Slots -> Record \union {None}] /\ attempts' \in [Slots -> Seq(Attempt)]
      /\ new \in Numbers /\ new \notin DOMAIN attempts[s]
      /\ records'[s] # None /\ records'[s].number = new /\ records'[s].state = state
      /\ DOMAIN attempts'[s] = DOMAIN attempts[s] \union {new}
      /\ \A t \in Slots \ {s} : attempts'[t] = attempts[t] /\ records'[t] = records[t]
      /\ RootFits'
  BY StartsKeeps
<1> HIDE DEF new
<1>2. /\ UNCHANGED <<committed, generation, acks, gates, invalidated, sinks, display>>
      /\ requests' = IF state = "prepared" THEN requests \union {<<s, new>>} ELSE requests
  BY DEF external, new
<1>3. TypeOK'
  BY <1>1, <1>2 DEF IInv, TypeOK
<1>4. \A n \in Numbers : <<s, n>> \notin DOMAIN gates /\ <<s, n>> \notin requests
  BY DEF IInv, IndexesMatch, StandsAt
<1>5. \A n \in Numbers : <<s, n>> \in DOMAIN sinks => n \in DOMAIN attempts[s] /\ sinks[<<s, n>>] = "done"
  BY SinksEnded
<1>6. Len(display) = Len(acks)
  <2>1. s > Len(acks)
    BY Shapes DEF IInv
  <2> QED
    BY <2>1 DEF IInv, DisplayFits
<1>7. \A n \in Numbers : /\ <<s, n>> \in DOMAIN gates' <=> StandsAt(s, n, "in_flight")'
                         /\ <<s, n>> \in requests' => StandsAt(s, n, "prepared")'
  <2>1. \A n \in Numbers : ~StandsAt(s, n, "in_flight")'
    BY <1>1 DEF StandsAt
  <2>2. ASSUME NEW n \in Numbers, <<s, n>> \in requests' PROVE StandsAt(s, n, "prepared")'
    <3>1. state = "prepared" /\ n = new
      BY <1>2, <1>4, <2>2
    <3> QED
      BY <1>1, <3>1 DEF StandsAt
  <2> QED
    BY <1>2, <1>4, <2>1, <2>2
<1>8. \A t \in Slots \ {s}, n \in Numbers :
        /\ <<t, n>> \in DOMAIN gates' <=> <<t, n>> \in DOMAIN gates
        /\ <<t, n>> \in requests' => <<t, n>> \in requests
        /\ <<t, n>> \in DOMAIN sinks' =>
             <<t, n>> \in DOMAIN sinks /\ sinks'[<<t, n>>] = sinks[<<t, n>>]
  BY <1>2
<1>9. \A n \in Numbers :
        /\ <<s, n>> \in DOMAIN gates' <=> StandsAt(s, n, "in_flight")'
        /\ <<s, n>> \in requests' => StandsAt(s, n, "prepared")'
        /\ <<s, n>> \in DOMAIN sinks' =>
             /\ n \in DOMAIN attempts'[s]
             /\ sinks'[<<s, n>>] # "done" =>
                  /\ records'[s].number = n
                  /\ records'[s].state \in {"in_flight", "failed_terminal", "abandoned"}
             /\ sinks'[<<s, n>>] \in {"writing", "failed_clean"} => Len(display) = Len(acks)
             /\ sinks'[<<s, n>>] = "written" => Len(display) = Len(acks) + 1
  <2>1. \A n \in Numbers : <<s, n>> \in DOMAIN sinks' =>
          n \in DOMAIN attempts'[s] /\ sinks'[<<s, n>>] = "done"
    BY <1>1, <1>2, <1>5
  <2> QED
    BY <1>7, <2>1
<1>10. \A t \in tokens' :
         \/ t \in tokens /\ t.slot # s
         \/ /\ t.slot = s
            /\ StandsAt(s, t.number, IF t.kind = "repeat_sink" THEN "failed_retryable"
                                     ELSE "sink_succeeded")'
  OBVIOUS
<1>11. UNCHANGED <<acks, display>> /\ records'[s].state # "sink_succeeded"
  BY <1>1, <1>2
<1> QED
  BY <1>1, <1>3, <1>6, <1>8, <1>9, <1>10, <1>11, HeadStep

(* Prepare: the head's next attempt.                                       *)
LEMMA PrepareKeeps ==
    ASSUME IInv, NEW s \in Slots, NEW renders \in BOOLEAN, Prepare(s, renders) PROVE IInv'
<1> DEFINE state == IF renders THEN "prepared" ELSE "failed_terminal"
<1>1. /\ s = Len(acks) + 1 /\ s <= committed /\ records[s] # None /\ records[s].state = "pending"
      /\ Len(attempts[s]) < MaxPerPublicationAttempts
  BY HeadIsNext DEF Prepare, MayPrepare
<1>2. attempts[s] \in Seq(Attempt) /\ \A n \in DOMAIN attempts[s] : n # None
  BY Shapes, NoneAssumption DEF IInv
<1>3. \A n \in DOMAIN attempts[s] :
        attempts[s][n].state = "abandoned" /\ AttemptIsValid(attempts[s][n])
  <2>1. RecordIsTheLast(s)
    BY <1>1 DEF IInv, RootFits, RecordsAreTheLast
  <2>2. \A n \in DOMAIN attempts[s] : attempts[s][n].state = "abandoned"
    BY <1>1, <1>2, <2>1 DEF RecordIsTheLast
  <2>3. \A n \in DOMAIN attempts[s] : AttemptIsValid(attempts[s][n])
    BY DEF IInv, RootFits, AttemptsCarryTokens
  <2> QED
    BY <2>2, <2>3
<1>4. \A t \in tokens : t.slot # s
  BY <1>1 DEF IInv, IndexesMatch, StandsAt
<1>5. /\ Starts(s, attempts[s], state) /\ state \in {"prepared", "failed_terminal"}
      /\ requests' = IF state = "prepared" THEN requests \union {<<s, Len(attempts[s]) + 1>>}
                     ELSE requests
      /\ UNCHANGED <<committed, generation, tokens, acks, gates, invalidated, external>>
  BY DEF Prepare
<1> HIDE DEF state
<1> QED
  BY <1>1, <1>2, <1>3, <1>4, <1>5, StartStep

(* Retry: the answer has not been shown, and its next attempt is the only  *)
(* one that may show it.                                                   *)
LEMMA RetryKeeps == ASSUME IInv, NEW t \in tokens, Retry(t) PROVE IInv'
<1> DEFINE s == t.slot
<1> DEFINE n == t.number
<1> DEFINE old == [attempts[s] EXCEPT ![n].state = "abandoned", ![n].token = None]
<1>1. s \in Slots /\ n \in Numbers /\ t.kind = "repeat_sink"
  BY DEF IInv, TypeOK, Retry
<1>2. StandsAt(s, n, "failed_retryable")
  BY <1>1 DEF IInv, IndexesMatch
<1>3. n \in DOMAIN attempts[s] /\ n = Len(attempts[s]) /\ attempts[s][n].state = "failed_retryable"
  BY <1>1, <1>2, StandsAtLast DEF ActiveStates
<1>4. /\ s = Len(acks) + 1 /\ s <= committed /\ attempts[s][n] \in Attempt
      /\ records[s] # None /\ records[s].number = n /\ records[s].state = "failed_retryable"
  BY <1>1, <1>3, ActiveIsLast DEF ActiveStates
<1>5. /\ attempts[s] \in Seq(Attempt) /\ Len(attempts[s]) \in Nat
      /\ DOMAIN attempts[s] = 1..Len(attempts[s])
  BY <1>1, Shapes DEF IInv
<1> DEFINE last == [attempts[s][n] EXCEPT !.state = "abandoned", !.token = None]
<1>6. old = [attempts[s] EXCEPT ![n] = last]
  BY <1>3
<1>7. last \in Attempt /\ last.state = "abandoned" /\ AttemptIsValid(last)
  BY <1>4 DEF Attempt, FinalStates, AttemptIsValid, TokenIn
<1>8. /\ Starts(s, old, "prepared") /\ Len(old) < MaxPerPublicationAttempts
      /\ tokens' = tokens \ {t} /\ requests' = requests \union {<<s, Len(old) + 1>>}
      /\ UNCHANGED <<committed, generation, acks, gates, invalidated, external>>
  BY DEF Retry
<1> HIDE DEF old, last
<1>9. /\ old \in Seq(Attempt) /\ Len(old) = Len(attempts[s]) /\ DOMAIN old = DOMAIN attempts[s]
      /\ old[n] = last /\ \A m \in DOMAIN attempts[s] : m # n => old[m] = attempts[s][m]
  BY <1>3, <1>5, <1>6, <1>7
<1>10. \A m \in DOMAIN attempts[s] : m # n =>
         attempts[s][m].state = "abandoned" /\ AttemptIsValid(attempts[s][m])
  BY <1>1, <1>4 DEF IInv, RootFits, RecordsAreTheLast, RecordIsTheLast, AttemptsCarryTokens
<1>11. \A m \in DOMAIN old : old[m].state = "abandoned" /\ AttemptIsValid(old[m])
  BY <1>7, <1>9, <1>10
<1>12. \A u \in tokens' : u.slot # s
  <2> SUFFICES ASSUME NEW u \in tokens, u.slot = s PROVE u = t
    BY <1>8
  <2>1. u \in [slot : Slots, number : Numbers, kind : Kinds] /\ t \in [slot : Slots, number : Numbers, kind : Kinds]
    BY DEF IInv, TypeOK
  <2>2. StandsAt(s, u.number, IF u.kind = "repeat_sink" THEN "failed_retryable" ELSE "sink_succeeded")
    BY DEF IInv, IndexesMatch
  <2>3. u.number = n /\ u.kind = t.kind
    BY <1>1, <1>4, <2>1, <2>2 DEF StandsAt, Kinds
  <2> QED
    BY <2>1, <2>3
<1> HIDE DEF s, n
<1> QED
  BY <1>1, <1>4, <1>8, <1>9, <1>11, <1>12, StartStep

(* A step of the attempt under way: it begins, or its gate is released.    *)
LEMMA MoveStep ==
    ASSUME IInv, NEW s \in Slots, NEW n \in Numbers, n \in DOMAIN attempts[s],
           NEW state \in {"prepared", "in_flight"}, attempts[s][n].state = state,
           NEW new \in Attempt, Becomes(<<s, n>>, new), AttemptIsValid(new),
           new.generation = attempts[s][n].generation,
           new.state \in {"in_flight", "sink_succeeded", "failed_retryable", "failed_terminal"},
           new.state = "failed_retryable" => AttemptsLeft(<<s, n>>),
           UNCHANGED <<committed, generation, acks, invalidated, display>>,
           DOMAIN gates' = IF new.state = "in_flight" THEN (DOMAIN gates) \union {<<s, n>>}
                           ELSE DOMAIN gates \ {<<s, n>>},
           \A a \in DOMAIN gates' : gates'[a] \in Gate,
           requests' \subseteq requests \ {<<s, n>>},
           tokens' = tokens \/
             (new.state \in {"sink_succeeded", "failed_retryable"}
              /\ tokens' = tokens \union {[slot |-> s, number |-> n, kind |-> new.token]}),
           DOMAIN sinks' \subseteq (DOMAIN sinks) \union {<<s, n>>},
           \A a \in DOMAIN sinks' : a # <<s, n>> => sinks'[a] = sinks[a],
           <<s, n>> \in DOMAIN sinks' =>
             /\ sinks'[<<s, n>>] \in SinkStates
             /\ sinks'[<<s, n>>] # "done" => new.state \in {"in_flight", "failed_terminal"}
             /\ sinks'[<<s, n>>] \in {"writing", "failed_clean"} => Len(display) = Len(acks)
             /\ sinks'[<<s, n>>] = "written" => Len(display) = Len(acks) + 1,
           new.state = "sink_succeeded" => Len(display) = Len(acks) + 1,
           new.state = "failed_retryable" => Len(display) = Len(acks)
    PROVE  IInv'
<1>1. attempts[s][n].state \in ActiveStates
  BY DEF ActiveStates
<1>2. new.state \in ActiveStates \union {"failed_terminal"}
  BY DEF ActiveStates
<1>3. /\ records' \in [Slots -> Record \union {None}] /\ attempts' \in [Slots -> Seq(Attempt)]
      /\ s = Len(acks) + 1 /\ s <= committed /\ n = Len(attempts[s])
      /\ records[s] # None /\ records[s].number = n /\ records[s].state = state
      /\ records'[s] # None /\ records'[s].number = n /\ records'[s].state = new.state
      /\ \A t \in Slots : DOMAIN attempts'[t] = DOMAIN attempts[t]
      /\ \A t \in Slots \ {s} : attempts'[t] = attempts[t] /\ records'[t] = records[t]
      /\ RootFits'
  BY <1>1, <1>2, BecomesKeeps
<1>4. TypeOK'
  <2>1. /\ DOMAIN gates' \subseteq Slots \X Numbers /\ requests' \subseteq Slots \X Numbers
        /\ DOMAIN sinks' \subseteq Slots \X Numbers
    BY DEF IInv, TypeOK
  <2>2. \A a \in DOMAIN sinks' : sinks'[a] \in SinkStates
    BY DEF IInv, TypeOK
  <2>3. tokens' \subseteq [slot : Slots, number : Numbers, kind : Kinds]
    <3>1. new.state \in {"sink_succeeded", "failed_retryable"} => new.token \in Kinds
      BY DEF AttemptIsValid, TokenIn, Kinds
    <3> QED
      BY <3>1 DEF IInv, TypeOK
  <2> QED
    BY <1>3, <2>1, <2>2, <2>3 DEF IInv, TypeOK
<1>5. \A m \in Numbers : /\ <<s, m>> \in DOMAIN gates => m = n
                         /\ <<s, m>> \in requests => m = n
  BY <1>3 DEF IInv, IndexesMatch, StandsAt
<1>6. \A m \in Numbers : <<s, m>> \in DOMAIN sinks =>
        m \in DOMAIN attempts[s] /\ (m # n => sinks[<<s, m>>] = "done")
  BY <1>3 DEF IInv, SinksFit
<1>7. \A t \in tokens : t.slot # s
  BY <1>3 DEF IInv, IndexesMatch, StandsAt
<1>8. \A t \in Slots \ {s}, m \in Numbers :
        /\ <<t, m>> \in DOMAIN gates' <=> <<t, m>> \in DOMAIN gates
        /\ <<t, m>> \in requests' => <<t, m>> \in requests
        /\ <<t, m>> \in DOMAIN sinks' =>
             <<t, m>> \in DOMAIN sinks /\ sinks'[<<t, m>>] = sinks[<<t, m>>]
  <2> SUFFICES ASSUME NEW t \in Slots \ {s}, NEW m \in Numbers
               PROVE  /\ <<t, m>> \in DOMAIN gates' <=> <<t, m>> \in DOMAIN gates
                      /\ <<t, m>> \in requests' => <<t, m>> \in requests
                      /\ <<t, m>> \in DOMAIN sinks' =>
                           <<t, m>> \in DOMAIN sinks /\ sinks'[<<t, m>>] = sinks[<<t, m>>]
    OBVIOUS
  <2>1. <<t, m>> # <<s, n>>
    OBVIOUS
  <2> QED
    BY <2>1
<1>9. \A m \in Numbers :
        /\ <<s, m>> \in DOMAIN gates' <=> StandsAt(s, m, "in_flight")'
        /\ <<s, m>> \in requests' => StandsAt(s, m, "prepared")'
        /\ <<s, m>> \in DOMAIN sinks' =>
             /\ m \in DOMAIN attempts'[s]
             /\ sinks'[<<s, m>>] # "done" =>
                  /\ records'[s].number = m
                  /\ records'[s].state \in {"in_flight", "failed_terminal", "abandoned"}
             /\ sinks'[<<s, m>>] \in {"writing", "failed_clean"} => Len(display) = Len(acks)
             /\ sinks'[<<s, m>>] = "written" => Len(display) = Len(acks) + 1
  <2> SUFFICES ASSUME NEW m \in Numbers
               PROVE  /\ <<s, m>> \in DOMAIN gates' <=> StandsAt(s, m, "in_flight")'
                      /\ <<s, m>> \in requests' => StandsAt(s, m, "prepared")'
                      /\ <<s, m>> \in DOMAIN sinks' =>
                           /\ m \in DOMAIN attempts'[s]
                           /\ sinks'[<<s, m>>] # "done" =>
                                /\ records'[s].number = m
                                /\ records'[s].state \in
                                     {"in_flight", "failed_terminal", "abandoned"}
                           /\ sinks'[<<s, m>>] \in {"writing", "failed_clean"} =>
                                Len(display) = Len(acks)
                           /\ sinks'[<<s, m>>] = "written" => Len(display) = Len(acks) + 1
    OBVIOUS
  <2>1. CASE m = n
    <3>1. <<s, m>> \notin requests' /\ (<<s, m>> \in DOMAIN gates' <=> new.state = "in_flight")
      BY <2>1
    <3>2. StandsAt(s, m, "in_flight")' <=> new.state = "in_flight"
      BY <1>3, <2>1 DEF StandsAt
    <3> QED
      BY <1>3, <2>1, <3>1, <3>2
  <2>2. CASE m # n
    <3>1. <<s, m>> # <<s, n>>
      BY <2>2
    <3>2. <<s, m>> \notin requests' /\ <<s, m>> \notin DOMAIN gates'
      BY <1>5, <2>2, <3>1
    <3>3. ~StandsAt(s, m, "in_flight")'
      BY <1>3, <2>2 DEF StandsAt
    <3>4. <<s, m>> \in DOMAIN sinks' => m \in DOMAIN attempts'[s] /\ sinks'[<<s, m>>] = "done"
      BY <1>3, <1>6, <2>2, <3>1
    <3> QED
      BY <3>2, <3>3, <3>4
  <2> QED
    BY <2>1, <2>2
<1>10. \A t \in tokens' :
         \/ t \in tokens /\ t.slot # s
         \/ /\ t.slot = s
            /\ StandsAt(s, t.number, IF t.kind = "repeat_sink" THEN "failed_retryable"
                                     ELSE "sink_succeeded")'
  <2> SUFFICES ASSUME NEW t \in tokens', t \notin tokens
               PROVE  /\ t.slot = s
                      /\ StandsAt(s, t.number, IF t.kind = "repeat_sink" THEN "failed_retryable"
                                               ELSE "sink_succeeded")'
    BY <1>7
  <2>1. /\ t = [slot |-> s, number |-> n, kind |-> new.token]
        /\ new.state \in {"sink_succeeded", "failed_retryable"}
    OBVIOUS
  <2>2. t.slot = s /\ t.number = n /\ t.kind = TokenIn(new.state)
    BY <2>1 DEF AttemptIsValid
  <2>3. new.state = IF t.kind = "repeat_sink" THEN "failed_retryable" ELSE "sink_succeeded"
    BY <2>1, <2>2 DEF TokenIn
  <2> QED
    BY <1>3, <2>2, <2>3 DEF StandsAt
<1>11. /\ records'[s].state = "sink_succeeded" => Len(display) = Len(acks) + 1
       /\ records'[s].state \in {"pending", "prepared", "failed_retryable"} =>
            Len(display) = Len(acks)
       /\ UNCHANGED <<acks, display>>
  BY <1>3
<1> QED
  BY <1>3, <1>4, <1>8, <1>9, <1>10, <1>11, HeadStep

(* A new gate, and a gate whose timeout is latched.                        *)
LEMMA GateShapes ==
    /\ NewGate \in Gate
    /\ \A a \in DOMAIN gates : gates[a] \in Gate => Latched(a) \in Gate
<1>1. NewGate \in Gate
  BY DEF NewGate, Gate
<1>2. ASSUME NEW a \in DOMAIN gates, gates[a] \in Gate PROVE Latched(a) \in Gate
  BY <1>2 DEF Latched, Gate
<1> QED
  BY <1>1, <1>2

(* Begin: the sink is called for an attempt that was requested.            *)
LEMMA BeginKeeps == ASSUME IInv, NEW s \in Slots, NEW n \in Numbers, Begin(<<s, n>>) PROVE IInv'
<1> DEFINE new == [attempts[s][n] EXCEPT !.state = "in_flight"]
<1>1. <<s, n>> \in requests
  BY DEF Begin
<1>2. /\ n \in DOMAIN attempts[s] /\ attempts[s][n].state = "prepared"
      /\ records[s] # None /\ records[s].state = "prepared" /\ s = Len(acks) + 1
  BY <1>1, IndexedAreActive DEF ActiveStates
<1>3. attempts[s][n] \in Attempt /\ AttemptIsValid(attempts[s][n])
  BY <1>2, Shapes DEF IInv, RootFits, AttemptsCarryTokens
<1>4. /\ new \in Attempt /\ new.state = "in_flight" /\ AttemptIsValid(new)
      /\ new.generation = attempts[s][n].generation
  BY <1>2, <1>3 DEF Attempt, ActiveStates, AttemptIsValid, TokenIn
<1>5. /\ Becomes(<<s, n>>, new) /\ requests' = requests \ {<<s, n>>}
      /\ gates' = [b \in (DOMAIN gates) \union {<<s, n>>} |->
                     IF b = <<s, n>> THEN NewGate ELSE gates[b]]
      /\ sinks' = [b \in (DOMAIN sinks) \union {<<s, n>>} |->
                     IF b = <<s, n>> THEN "writing" ELSE sinks[b]]
      /\ UNCHANGED <<committed, generation, tokens, acks, invalidated, display>>
  BY DEF Begin
<1> HIDE DEF new
<1>6. /\ DOMAIN gates' = (DOMAIN gates) \union {<<s, n>>}
      /\ \A a \in DOMAIN gates' : gates'[a] \in Gate
  BY <1>5, GateShapes DEF IInv, TypeOK
<1>7. /\ DOMAIN sinks' = (DOMAIN sinks) \union {<<s, n>>} /\ sinks'[<<s, n>>] = "writing"
      /\ \A a \in DOMAIN sinks' : a # <<s, n>> => sinks'[a] = sinks[a]
  BY <1>5
<1>8. Len(display) = Len(acks)
  BY <1>2, Shapes DEF IInv, DisplayFits
<1>9. "writing" \in SinkStates
  BY DEF SinkStates
<1> QED
  BY <1>2, <1>4, <1>5, <1>6, <1>7, <1>8, <1>9, MoveStep

(* What settles an attempt finds it in flight, and what its sink did.      *)
LEMMA GatedIsInFlight ==
    ASSUME IInv, NEW s \in Slots, NEW n \in Numbers, <<s, n>> \in DOMAIN gates
    PROVE  /\ n \in DOMAIN attempts[s] /\ attempts[s][n].state = "in_flight"
           /\ attempts[s][n] \in Attempt
           /\ <<s, n>> \in DOMAIN sinks =>
                /\ sinks[<<s, n>>] \in SinkStates
                /\ sinks[<<s, n>>] \in {"writing", "failed_clean"} => Len(display) = Len(acks)
                /\ sinks[<<s, n>>] = "written" => Len(display) = Len(acks) + 1
<1>1. n \in DOMAIN attempts[s] /\ attempts[s][n].state = "in_flight"
  BY IndexedAreActive DEF ActiveStates
<1> QED
  BY <1>1, Shapes DEF IInv, TypeOK, SinksFit

(* The sink of attempt a ends with a's settlement, or goes on regardless.  *)
SinkGoesOn(a) ==
    \/ UNCHANGED sinks
    \/ a \in DOMAIN sinks /\ sinks' = [sinks EXCEPT ![a] = "done"]

(* Fails: the answer may be tried again only if its sink has shown nothing *)
(* and is done.                                                            *)
LEMMA FailsKeeps ==
    ASSUME IInv, NEW s \in Slots, NEW n \in Numbers, <<s, n>> \in DOMAIN gates,
           NEW retryable \in BOOLEAN, Fails(<<s, n>>, retryable),
           UNCHANGED display, SinkGoesOn(<<s, n>>),
           retryable => /\ AttemptsLeft(<<s, n>>) /\ <<s, n>> \in DOMAIN sinks
                        /\ sinks[<<s, n>>] = "failed_clean"
                        /\ sinks' = [sinks EXCEPT ![<<s, n>>] = "done"]
    PROVE  IInv'
<1> DEFINE new == [attempts[s][n] EXCEPT
                     !.state = IF retryable THEN "failed_retryable" ELSE "failed_terminal",
                     !.token = IF retryable THEN "repeat_sink" ELSE None]
<1>1. /\ n \in DOMAIN attempts[s] /\ attempts[s][n].state = "in_flight"
      /\ attempts[s][n] \in Attempt
      /\ <<s, n>> \in DOMAIN sinks =>
           /\ sinks[<<s, n>>] \in SinkStates
           /\ sinks[<<s, n>>] \in {"writing", "failed_clean"} => Len(display) = Len(acks)
           /\ sinks[<<s, n>>] = "written" => Len(display) = Len(acks) + 1
  BY GatedIsInFlight
<1>2. /\ new \in Attempt /\ AttemptIsValid(new) /\ new.generation = attempts[s][n].generation
      /\ new.state = IF retryable THEN "failed_retryable" ELSE "failed_terminal"
      /\ new.token = IF retryable THEN "repeat_sink" ELSE None
  BY <1>1 DEF Attempt, ActiveStates, FinalStates, Kinds, AttemptIsValid, TokenIn
<1>3. /\ Becomes(<<s, n>>, new) /\ gates' = Released(<<s, n>>)
      /\ tokens' = IF retryable
                   THEN tokens \union {[slot |-> s, number |-> n, kind |-> "repeat_sink"]}
                   ELSE tokens
      /\ UNCHANGED <<committed, generation, acks, requests, invalidated>>
  BY DEF Fails
<1> HIDE DEF new
<1>4. /\ DOMAIN gates' = DOMAIN gates \ {<<s, n>>}
      /\ \A a \in DOMAIN gates' : gates'[a] \in Gate
  BY <1>3 DEF Released, IInv, TypeOK
<1>5. <<s, n>> \notin requests
  <2>1. <<s, n>> \in requests => attempts[s][n].state = "prepared"
    BY IndexedAreActive DEF ActiveStates
  <2> QED
    BY <1>1, <2>1
<1>6. /\ DOMAIN sinks' \subseteq (DOMAIN sinks) \union {<<s, n>>}
      /\ \A a \in DOMAIN sinks' : a # <<s, n>> => sinks'[a] = sinks[a]
      /\ <<s, n>> \in DOMAIN sinks' =>
           /\ sinks'[<<s, n>>] \in SinkStates
           /\ sinks'[<<s, n>>] # "done" => ~retryable
           /\ sinks'[<<s, n>>] \in {"writing", "failed_clean"} => Len(display) = Len(acks)
           /\ sinks'[<<s, n>>] = "written" => Len(display) = Len(acks) + 1
  <2>1. CASE UNCHANGED sinks
    <3>1. ~retryable
      <4>1. ASSUME retryable PROVE FALSE
        <5>1. sinks'[<<s, n>>] = "done" /\ sinks[<<s, n>>] = "failed_clean"
          BY <4>1
        <5> QED
          BY <2>1, <5>1
      <4> QED
        BY <4>1
    <3> QED
      BY <1>1, <2>1, <3>1
  <2>2. CASE <<s, n>> \in DOMAIN sinks /\ sinks' = [sinks EXCEPT ![<<s, n>>] = "done"]
    <3>1. /\ DOMAIN sinks' = DOMAIN sinks /\ sinks'[<<s, n>>] = "done"
          /\ \A a \in DOMAIN sinks' : a # <<s, n>> => sinks'[a] = sinks[a]
      BY <2>2
    <3> QED
      BY <3>1 DEF SinkStates
  <2> QED
    BY <2>1, <2>2 DEF SinkGoesOn
<1>7. retryable => Len(display) = Len(acks)
  BY <1>1
<1>8. /\ new.state \in {"in_flight", "sink_succeeded", "failed_retryable", "failed_terminal"}
      /\ new.state # "in_flight" /\ new.state # "sink_succeeded"
      /\ new.state = "failed_retryable" => AttemptsLeft(<<s, n>>) /\ Len(display) = Len(acks)
      /\ DOMAIN gates' = IF new.state = "in_flight" THEN (DOMAIN gates) \union {<<s, n>>}
                         ELSE DOMAIN gates \ {<<s, n>>}
      /\ requests' \subseteq requests \ {<<s, n>>}
      /\ tokens' = tokens \/
           (new.state \in {"sink_succeeded", "failed_retryable"}
            /\ tokens' = tokens \union {[slot |-> s, number |-> n, kind |-> new.token]})
      /\ <<s, n>> \in DOMAIN sinks' /\ sinks'[<<s, n>>] # "done" =>
           new.state \in {"in_flight", "failed_terminal"}
  BY <1>2, <1>3, <1>4, <1>5, <1>6, <1>7
<1> QED
  BY <1>1, <1>2, <1>3, <1>4, <1>6, <1>8, MoveStep

(* Succeeds: the answer is on display, and may only be acknowledged.       *)
LEMMA SucceedsKeeps ==
    ASSUME IInv, NEW s \in Slots, NEW n \in Numbers, <<s, n>> \in DOMAIN gates,
           <<s, n>> \in DOMAIN sinks, sinks[<<s, n>>] = "written",
           Succeeds(<<s, n>>), UNCHANGED display, sinks' = [sinks EXCEPT ![<<s, n>>] = "done"]
    PROVE  IInv'
<1> DEFINE new == [attempts[s][n] EXCEPT !.state = "sink_succeeded", !.token = "ack_only"]
<1>1. /\ n \in DOMAIN attempts[s] /\ attempts[s][n].state = "in_flight"
      /\ attempts[s][n] \in Attempt /\ Len(display) = Len(acks) + 1
  BY GatedIsInFlight
<1>2. /\ new \in Attempt /\ AttemptIsValid(new) /\ new.generation = attempts[s][n].generation
      /\ new.state = "sink_succeeded" /\ new.token = "ack_only"
  BY <1>1 DEF Attempt, ActiveStates, Kinds, AttemptIsValid, TokenIn
<1>3. /\ Becomes(<<s, n>>, new) /\ gates' = Released(<<s, n>>)
      /\ tokens' = tokens \union {[slot |-> s, number |-> n, kind |-> "ack_only"]}
      /\ UNCHANGED <<committed, generation, acks, requests, invalidated>>
  BY DEF Succeeds
<1> HIDE DEF new
<1>4. /\ DOMAIN gates' = DOMAIN gates \ {<<s, n>>}
      /\ \A a \in DOMAIN gates' : gates'[a] \in Gate
  BY <1>3 DEF Released, IInv, TypeOK
<1>5. <<s, n>> \notin requests
  <2>1. <<s, n>> \in requests => attempts[s][n].state = "prepared"
    BY IndexedAreActive DEF ActiveStates
  <2> QED
    BY <1>1, <2>1
<1>6. /\ DOMAIN sinks' = DOMAIN sinks /\ sinks'[<<s, n>>] = "done"
      /\ \A a \in DOMAIN sinks' : a # <<s, n>> => sinks'[a] = sinks[a]
      /\ "done" \in SinkStates
  BY DEF SinkStates
<1> QED
  BY <1>1, <1>2, <1>3, <1>4, <1>5, <1>6, MoveStep

(* Time, a latched timeout, and a report the controller refuses.           *)
LEMMA GatesOnly ==
    ASSUME IInv, UNCHANGED <<root, requests, invalidated, display>>,
           DOMAIN gates' = DOMAIN gates, \A a \in DOMAIN gates : gates'[a] \in Gate,
           DOMAIN sinks' = DOMAIN sinks,
           \A a \in DOMAIN sinks : sinks'[a] = sinks[a] \/ sinks'[a] = "done"
    PROVE  IInv'
<1>1. UNCHANGED <<committed, generation, records, attempts, tokens, acks, requests, invalidated,
                  display>>
  BY DEF root
<1>2. RootFits'
  BY <1>1, RootStays
<1>3. TypeOK'
  <2>1. \A a \in DOMAIN sinks' : sinks'[a] \in SinkStates
    BY DEF IInv, TypeOK, SinkStates
  <2> QED
    BY <1>1, <2>1 DEF IInv, TypeOK
<1>4. IndexesMatch' /\ DisplayFits'
  BY <1>1 DEF IInv, IndexesMatch, StandsAt, DisplayFits
<1>5. SinksFit'
  <2> SUFFICES ASSUME NEW s \in Slots, NEW n \in Numbers, <<s, n>> \in DOMAIN sinks
               PROVE  /\ n \in DOMAIN attempts[s]
                      /\ sinks'[<<s, n>>] # "done" =>
                           /\ s = Len(acks) + 1 /\ records[s] # None /\ records[s].number = n
                           /\ records[s].state \in {"in_flight", "failed_terminal", "abandoned"}
                      /\ sinks'[<<s, n>>] \in {"writing", "failed_clean"} =>
                           Len(display) = Len(acks)
                      /\ sinks'[<<s, n>>] = "written" => Len(display) = Len(acks) + 1
    BY <1>1 DEF SinksFit
  <2> QED
    BY DEF IInv, SinksFit
<1> QED
  BY <1>2, <1>3, <1>4, <1>5 DEF IInv

(* Elapse, the timers, and the latch.                                      *)
LEMMA TimeKeeps ==
    ASSUME IInv, NEW s \in Slots, NEW n \in Numbers,
           Elapse(<<s, n>>) \/ Settle(<<s, n>>)
    PROVE  IInv'
<1>1. /\ <<s, n>> \in DOMAIN gates /\ UNCHANGED <<sinks, display>>
      /\ \A a \in DOMAIN gates : gates[a] \in Gate
  BY DEF Elapse, Settle, PrimaryTimer, CleanupTimer, external, IInv, TypeOK
<1>2. CASE Elapse(<<s, n>>)
  <2>1. PICK i \in {1, 2} : gates' = [gates EXCEPT ![<<s, n>>].stage = Stages[i + 1]]
    BY <1>2 DEF Elapse
  <2>2. Stages[i + 1] \in {"grace", "elapsed"}
    BY DEF Stages
  <2>3. DOMAIN gates' = DOMAIN gates /\ \A a \in DOMAIN gates : gates'[a] \in Gate
    BY <1>1, <2>1, <2>2 DEF Gate
  <2> QED
    BY <1>1, <1>2, <2>3, GatesOnly DEF Elapse
<1>3. CASE Latches(<<s, n>>)
  <2>1. DOMAIN gates' = DOMAIN gates /\ \A a \in DOMAIN gates : gates'[a] \in Gate
    BY <1>1, <1>3, GateShapes DEF Latches
  <2> QED
    BY <1>1, <1>3, <2>1, GatesOnly DEF Latches
<1>4. CASE TimesOut(<<s, n>>)
  BY <1>1, <1>4, FailsKeeps DEF TimesOut, SinkGoesOn
<1> QED
  BY <1>2, <1>3, <1>4 DEF Settle, PrimaryTimer, CleanupTimer

(* Report: what the sink says of the attempt it was given.                 *)
LEMMA ReportKeeps == ASSUME IInv, NEW s \in Slots, NEW n \in Numbers, Report(<<s, n>>) PROVE IInv'
<1> DEFINE a == <<s, n>>
<1>1. /\ a \in DOMAIN sinks /\ sinks' = [sinks EXCEPT ![a] = "done"] /\ UNCHANGED display
      /\ SinkGoesOn(a)
      /\ \/ sinks[a] = "written" /\ Complete(a)
         \/ \E timeout \in BOOLEAN, proved \in BOOLEAN :
              RecordFailure(a, timeout, proved) /\ (proved => sinks[a] = "failed_clean")
  BY DEF Report, SinkGoesOn
<1>2. a \in DOMAIN gates /\ \A b \in DOMAIN gates : gates[b] \in Gate
  BY <1>1 DEF Complete, RecordFailure, IInv, TypeOK
<1>3. /\ DOMAIN sinks' = DOMAIN sinks
      /\ \A b \in DOMAIN sinks : sinks'[b] = sinks[b] \/ sinks'[b] = "done"
  BY <1>1
<1>4. CASE Succeeds(a) /\ sinks[a] = "written"
  BY <1>1, <1>2, <1>4, SucceedsKeeps
<1>5. CASE TimesOut(a)
  BY <1>1, <1>2, <1>5, FailsKeeps DEF TimesOut
<1>6. CASE Latches(a)
  <2>1. DOMAIN gates' = DOMAIN gates /\ \A b \in DOMAIN gates : gates'[b] \in Gate
    BY <1>2, <1>6, GateShapes DEF Latches
  <2> QED
    BY <1>1, <1>3, <1>6, <2>1, GatesOnly DEF Latches
<1>7. CASE UNCHANGED <<root, requests, gates, invalidated>>
  <2>1. gates' = gates /\ UNCHANGED <<root, requests, invalidated>>
    BY <1>7
  <2> QED
    BY <1>1, <1>2, <1>3, <2>1, GatesOnly
<1>8. ASSUME NEW proved \in BOOLEAN, Fails(a, proved /\ AttemptsLeft(a)),
             proved => sinks[a] = "failed_clean"
      PROVE  IInv'
  <2> DEFINE retryable == proved /\ AttemptsLeft(a)
  <2>1. retryable \in BOOLEAN /\ Fails(a, retryable)
    BY <1>8 DEF AttemptsLeft
  <2>2. retryable => AttemptsLeft(a) /\ sinks[a] = "failed_clean"
    BY <1>8
  <2> HIDE DEF retryable
  <2> QED
    BY <1>1, <1>2, <2>1, <2>2, FailsKeeps
<1> HIDE DEF a
<1>9. CASE sinks[a] = "written" /\ Complete(a)
  BY <1>4, <1>5, <1>9 DEF Complete
<1>10. ASSUME NEW timeout \in BOOLEAN, NEW proved \in BOOLEAN,
              RecordFailure(a, timeout, proved), proved => sinks[a] = "failed_clean"
       PROVE  IInv'
  BY <1>5, <1>6, <1>7, <1>8, <1>10 DEF RecordFailure
<1> QED
  BY <1>1, <1>9, <1>10

(* Write: the one sink at work puts the next answer on display, or not.    *)
LEMMA WriteKeeps == ASSUME IInv, NEW s \in Slots, NEW n \in Numbers, Write(<<s, n>>) PROVE IInv'
<1> DEFINE a == <<s, n>>
<1>1. /\ a \in DOMAIN sinks /\ sinks[a] = "writing"
      /\ UNCHANGED <<committed, generation, records, attempts, tokens, acks, requests, gates,
                     invalidated>>
  BY DEF Write, root
<1>2. /\ s = Len(acks) + 1 /\ records[s] # None /\ records[s].number = n
      /\ records[s].state \in {"in_flight", "failed_terminal", "abandoned"}
      /\ Len(display) = Len(acks) /\ n \in DOMAIN attempts[s]
  BY <1>1 DEF IInv, SinksFit
<1>3. PICK outcome \in {"written", "failed_clean", "failed_unknown"} :
        /\ sinks' = [sinks EXCEPT ![a] = outcome]
        /\ \/ display' = display /\ outcome # "written"
           \/ display' = Append(display, s) /\ outcome # "failed_clean"
  BY DEF Write
<1>4. /\ DOMAIN sinks' = DOMAIN sinks /\ sinks'[a] = outcome
      /\ \A b \in DOMAIN sinks : b # a => sinks'[b] = sinks[b]
  BY <1>1, <1>3
<1>5. /\ display \in Seq(Slots) /\ Len(display) \in Nat /\ Len(acks) \in Nat
      /\ \A i \in 1..Len(display) : display[i] = i
  BY Shapes DEF IInv, DisplayFits
<1>6. /\ display' \in Seq(Slots) /\ Len(display') \in {Len(acks), Len(acks) + 1}
      /\ \A i \in 1..Len(display') : display'[i] = i
      /\ outcome = "written" => Len(display') = Len(acks) + 1
      /\ outcome = "failed_clean" => Len(display') = Len(acks)
  <2>1. CASE display' = display /\ outcome # "written"
    BY <1>2, <1>5, <2>1
  <2>2. CASE display' = Append(display, s) /\ outcome # "failed_clean"
    <3>1. /\ display' \in Seq(Slots) /\ Len(display') = Len(acks) + 1 /\ display'[s] = s
          /\ \A i \in 1..Len(display) : display'[i] = display[i]
      BY <1>2, <1>5, <2>2
    <3> QED
      BY <1>2, <1>5, <2>2, <3>1
  <2> QED
    BY <1>3, <2>1, <2>2
<1> HIDE DEF a
<1>7. RootFits'
  BY <1>1, RootStays
<1>8. TypeOK'
  <2>1. \A b \in DOMAIN sinks' : sinks'[b] \in SinkStates
    BY <1>4 DEF IInv, TypeOK, SinkStates
  <2> QED
    BY <1>1, <1>4, <1>6, <2>1 DEF IInv, TypeOK
<1>9. IndexesMatch'
  BY <1>1 DEF IInv, IndexesMatch, StandsAt
<1>10. SinksFit'
  <2> SUFFICES ASSUME NEW t \in Slots, NEW m \in Numbers, <<t, m>> \in DOMAIN sinks
               PROVE  /\ m \in DOMAIN attempts[t]
                      /\ sinks'[<<t, m>>] # "done" =>
                           /\ t = Len(acks) + 1 /\ records[t] # None /\ records[t].number = m
                           /\ records[t].state \in {"in_flight", "failed_terminal", "abandoned"}
                      /\ sinks'[<<t, m>>] \in {"writing", "failed_clean"} =>
                           Len(display') = Len(acks)
                      /\ sinks'[<<t, m>>] = "written" => Len(display') = Len(acks) + 1
    BY <1>1, <1>4 DEF SinksFit
  <2>1. CASE t = s /\ m = n
    BY <1>2, <1>4, <1>6, <2>1 DEF a
  <2>2. CASE ~(t = s /\ m = n)
    <3>1. <<t, m>> # a
      BY <2>2 DEF a
    <3>2. sinks[<<t, m>>] = "done" /\ m \in DOMAIN attempts[t]
      BY <1>2, <2>2 DEF IInv, SinksFit
    <3> QED
      BY <1>4, <3>1, <3>2
  <2> QED
    BY <2>1, <2>2
<1>11. DisplayFits'
  <2> SUFFICES ASSUME NEW t \in Slots, records[t] # None, t > Len(acks)
               PROVE  records[t].state \in {"in_flight", "failed_terminal", "abandoned"}
    BY <1>1, <1>2, <1>6 DEF DisplayFits
  <2>1. t = s
    BY <1>2, <1>5, Shapes DEF IInv, RootFits, NothingAhead
  <2> QED
    BY <1>2, <2>1
<1> QED
  BY <1>7, <1>8, <1>9, <1>10, <1>11 DEF IInv

(* Acknowledge: the answer on display is acknowledged, and the one after   *)
(* it, of which nothing is known yet, is the next.                         *)
LEMMA AcknowledgeFacts ==
    ASSUME IInv, NEW s \in Slots, NEW n \in Numbers, Acknowledge(<<s, n>>)
    PROVE  /\ s = Len(acks) + 1 /\ s <= committed /\ n = Len(attempts[s])
           /\ n \in DOMAIN attempts[s] /\ attempts[s][n].state = "sink_succeeded"
           /\ records[s] # None /\ records[s].number = n /\ records[s].state = "sink_succeeded"
           /\ Len(display) = Len(acks) + 1 /\ acks' = Append(acks, s) /\ Len(acks') = s
<1>1. n \in DOMAIN attempts[s] /\ attempts[s][n].state = "sink_succeeded" /\ acks' = Append(acks, s)
  BY DEF Acknowledge, StateOf
<1>2. /\ s = Len(acks) + 1 /\ s <= committed /\ n = Len(attempts[s])
      /\ records[s] # None /\ records[s].number = n /\ records[s].state = "sink_succeeded"
  BY <1>1, ActiveIsLast DEF ActiveStates
<1>3. Len(display) = Len(acks) + 1
  BY <1>2, Shapes DEF IInv, DisplayFits
<1>4. Len(acks') = s
  BY <1>1, <1>2, Shapes DEF IInv
<1> QED
  BY <1>1, <1>2, <1>3, <1>4

(* An acknowledgement keeps the invariant.                                 *)
LEMMA AcknowledgeKeeps ==
    ASSUME IInv, NEW s \in Slots, NEW n \in Numbers, Acknowledge(<<s, n>>) PROVE IInv'
<1> DEFINE new == [attempts[s][n] EXCEPT !.state = "acknowledged", !.token = None]
<1> DEFINE seq == [attempts[s] EXCEPT ![n] = new]
<1> DEFINE r == RecordFor(new, n)
<1>1. /\ s = Len(acks) + 1 /\ s <= committed /\ n = Len(attempts[s])
      /\ n \in DOMAIN attempts[s] /\ attempts[s][n].state = "sink_succeeded"
      /\ records[s] # None /\ records[s].number = n /\ records[s].state = "sink_succeeded"
      /\ Len(display) = Len(acks) + 1 /\ acks' = Append(acks, s) /\ Len(acks') = s
  BY AcknowledgeFacts
<1>2. /\ attempts' = [attempts EXCEPT ![s] = seq] /\ records' = [records EXCEPT ![s] = r]
      /\ tokens' = tokens \ {[slot |-> s, number |-> n, kind |-> "ack_only"]}
      /\ UNCHANGED <<committed, generation, requests, gates, invalidated, sinks, display>>
  BY DEF Acknowledge, Becomes, external
<1>3. /\ attempts[s] \in Seq(Attempt) /\ Len(attempts[s]) \in Nat
      /\ DOMAIN attempts[s] = 1..Len(attempts[s]) /\ attempts[s][n] \in Attempt
      /\ acks \in Seq(Slots) /\ Len(acks) \in Nat /\ committed \in Nat
      /\ \A t \in Slots : t \in Nat /\ t > 0
  BY <1>1, Shapes DEF IInv
<1>4. /\ new \in Attempt /\ new.state = "acknowledged" /\ AttemptIsValid(new)
      /\ new.generation = attempts[s][n].generation
  BY <1>3 DEF Attempt, FinalStates, AttemptIsValid, TokenIn
<1>5. /\ r \in Record /\ r # None /\ r.state = "acknowledged" /\ r.number = n
  BY <1>4, RecordForShape
<1>6. r = RecordFor(new, n)
  OBVIOUS
<1> HIDE DEF new, r
<1>7. /\ seq \in Seq(Attempt) /\ Len(seq) = Len(attempts[s]) /\ DOMAIN seq = DOMAIN attempts[s]
      /\ seq[n] = new /\ \A m \in DOMAIN attempts[s] : m # n => seq[m] = attempts[s][m]
  BY <1>1, <1>3, <1>4
<1> HIDE DEF seq
<1>8. /\ attempts' \in [Slots -> Seq(Attempt)] /\ records' \in [Slots -> Record \union {None}]
      /\ attempts'[s] = seq /\ records'[s] = r
      /\ \A t \in Slots \ {s} : attempts'[t] = attempts[t] /\ records'[t] = records[t]
  BY <1>2, <1>5, <1>7 DEF IInv, TypeOK
<1>9. TypeOK'
  <2>1. acks' \in Seq(Slots)
    BY <1>1, <1>3
  <2> QED
    BY <1>2, <1>8, <2>1 DEF IInv, TypeOK
<1>10. AcksAreAPrefix'
  <2>1. \A k \in 1..Len(acks') : acks'[k] = k
    <3> SUFFICES ASSUME NEW k \in 1..Len(acks') PROVE acks'[k] = k
      OBVIOUS
    <3>1. CASE k = s
      BY <1>1, <1>3, <3>1
    <3>2. CASE k # s
      <4>1. k \in 1..Len(acks) /\ acks'[k] = acks[k]
        BY <1>1, <1>3, <3>2
      <4> QED
        BY <4>1 DEF IInv, RootFits, AcksAreAPrefix
    <3> QED
      BY <3>1, <3>2
  <2>2. ASSUME NEW t \in Slots PROVE Resolved(t)' <=> t <= Len(acks')
    <3>1. CASE t = s
      BY <1>1, <1>3, <1>5, <1>8, <3>1 DEF Resolved
    <3>2. CASE t # s
      <4>1. Resolved(t)' <=> t <= Len(acks)
        BY <1>8, <3>2 DEF Resolved, IInv, RootFits, AcksAreAPrefix
      <4> QED
        BY <1>1, <1>3, <3>2, <4>1
    <3> QED
      BY <3>1, <3>2
  <2> QED
    BY <1>1, <1>2, <2>1, <2>2 DEF AcksAreAPrefix
<1>11. NothingAhead'
  <2> SUFFICES ASSUME NEW t \in Slots
               PROVE  /\ t > s + 1 \/ t > committed => records'[t] = None
                      /\ records'[t] = None => attempts'[t] = <<>>
    BY <1>1, <1>2 DEF NothingAhead
  <2>1. CASE t = s
    BY <1>1, <1>3, <1>5, <1>8, <2>1
  <2>2. CASE t # s
    <3>1. /\ t > Len(acks) + 1 \/ t > committed => records[t] = None
          /\ records[t] = None => attempts[t] = <<>>
      BY DEF IInv, RootFits, NothingAhead
    <3>2. attempts'[t] = attempts[t] /\ records'[t] = records[t] /\ t \in Nat /\ s \in Nat
      BY <1>3, <1>8, <2>2
    <3> QED
      BY <1>1, <3>1, <3>2
  <2> QED
    BY <2>1, <2>2
<1>12. RecordsAreTheLast'
  <2> SUFFICES ASSUME NEW t \in Slots, records'[t] # None PROVE RecordIsTheLast(t)'
    BY DEF RecordsAreTheLast
  <2>1. CASE t = s
    <3>1. RecordIsTheLast(s)
      BY <1>1 DEF IInv, RootFits, RecordsAreTheLast
    <3>2. \A m \in DOMAIN attempts'[s] : m # n => attempts'[s][m].state = "abandoned"
      BY <1>1, <1>7, <1>8, <3>1 DEF RecordIsTheLast
    <3>3. /\ Len(attempts'[s]) = n /\ n > 0 /\ records'[s] = RecordFor(attempts'[s][n], n)
      BY <1>1, <1>3, <1>6, <1>7, <1>8
    <3>4. r.state = "acknowledged" /\ r.state \in FinalStates
      BY <1>5 DEF FinalStates
    <3> QED
      BY <1>5, <1>8, <2>1, <3>2, <3>3, <3>4 DEF RecordIsTheLast
  <2>2. CASE t # s
    <3>1. RecordIsTheLast(t)
      BY <1>8, <2>2 DEF IInv, RootFits, RecordsAreTheLast
    <3> QED
      BY <1>2, <1>8, <2>2, <3>1 DEF RecordIsTheLast
  <2> QED
    BY <2>1, <2>2
<1>13. AttemptsCarryTokens'
  <2> SUFFICES ASSUME NEW t \in Slots
               PROVE  /\ Len(attempts'[t]) <= MaxPerPublicationAttempts
                      /\ \A m \in DOMAIN attempts'[t] : AttemptIsValid(attempts'[t][m])
    BY DEF AttemptsCarryTokens, AttemptIsValid
  <2>1. /\ Len(attempts[t]) <= MaxPerPublicationAttempts
        /\ \A m \in DOMAIN attempts[t] : AttemptIsValid(attempts[t][m])
    BY DEF IInv, RootFits, AttemptsCarryTokens
  <2>2. CASE t = s
    <3>1. Len(attempts'[t]) <= MaxPerPublicationAttempts
      BY <1>7, <1>8, <2>1, <2>2
    <3>2. \A m \in DOMAIN attempts'[t] : AttemptIsValid(attempts'[t][m])
      BY <1>4, <1>7, <1>8, <2>1, <2>2
    <3> QED
      BY <3>1, <3>2
  <2>3. CASE t # s
    BY <1>8, <2>1, <2>3
  <2> QED
    BY <2>2, <2>3
<1>14. IndexesMatch'
  <2>1. ASSUME NEW t \in Slots, NEW m \in Numbers
        PROVE  /\ <<t, m>> \in DOMAIN gates <=> StandsAt(t, m, "in_flight")'
               /\ <<t, m>> \in requests => StandsAt(t, m, "prepared")'
    <3>1. /\ <<t, m>> \in DOMAIN gates <=> StandsAt(t, m, "in_flight")
          /\ <<t, m>> \in requests => StandsAt(t, m, "prepared")
      BY DEF IInv, IndexesMatch
    <3>2. CASE t = s
      BY <1>1, <1>5, <1>8, <3>1, <3>2 DEF StandsAt
    <3>3. CASE t # s
      BY <1>8, <3>1, <3>3 DEF StandsAt
    <3> QED
      BY <3>2, <3>3
  <2>2. ASSUME NEW t \in tokens' PROVE FALSE
    <3>1. t \in tokens /\ t \in [slot : Slots, number : Numbers, kind : Kinds]
      BY <1>2 DEF IInv, TypeOK
    <3>2. t.slot = s
      BY <1>1, <3>1, OnlyHeadIsIndexed
    <3>3. StandsAt(s, t.number, IF t.kind = "repeat_sink" THEN "failed_retryable"
                                ELSE "sink_succeeded")
      BY <3>1, <3>2 DEF IInv, IndexesMatch
    <3>4. t.number = n /\ t.kind = "ack_only"
      BY <1>1, <3>1, <3>3 DEF StandsAt, Kinds
    <3>5. t = [slot |-> s, number |-> n, kind |-> "ack_only"]
      BY <3>1, <3>2, <3>4
    <3> QED
      BY <1>2, <3>5
  <2> QED
    BY <1>2, <2>1, <2>2 DEF IndexesMatch, StandsAt
<1>15. SinksFit'
  <2> SUFFICES ASSUME NEW t \in Slots, NEW m \in Numbers, <<t, m>> \in DOMAIN sinks
               PROVE  m \in DOMAIN attempts'[t] /\ sinks[<<t, m>>] = "done"
    BY <1>2 DEF SinksFit
  <2>1. m \in DOMAIN attempts[t] /\ sinks[<<t, m>>] = "done"
    BY <1>1 DEF IInv, SinksFit
  <2>2. DOMAIN attempts'[t] = DOMAIN attempts[t]
    BY <1>7, <1>8
  <2> QED
    BY <2>1, <2>2
<1>16. DisplayFits'
  <2>1. \A t \in Slots : t > s => records'[t] = None
    BY <1>1, <1>3, <1>8 DEF IInv, RootFits, NothingAhead
  <2>2. Len(display) = Len(acks') /\ \A k \in 1..Len(display) : display[k] = k
    BY <1>1, <1>3 DEF IInv, DisplayFits
  <2> QED
    BY <1>1, <1>2, <1>3, <2>1, <2>2 DEF DisplayFits
<1> QED
  BY <1>9, <1>10, <1>11, <1>12, <1>13, <1>14, <1>15, <1>16 DEF IInv, RootFits

(* ReplaceConsumer: what waits is taken over by the next consumer.         *)
LEMMA ReplaceKeeps == ASSUME IInv, ReplaceConsumer PROVE IInv'
<1>1. /\ generation' = generation + 1 /\ generation' \in 0..MaxGeneration
      /\ UNCHANGED <<committed, acks, requests, gates, invalidated, sinks, display>>
      /\ tokens' \subseteq tokens /\ \A t \in tokens' : ~Failed(t.slot)
  BY BoundsAssumption DEF ReplaceConsumer, external, IInv, TypeOK
<1>2. \A s \in Slots : records[s] # None =>
        records[s].state \notin {"prepared", "in_flight", "sink_succeeded"}
  BY DEF ReplaceConsumer, Replaceable
<1> DEFINE taken == [Pending EXCEPT !.generation = generation + 1]
<1>3. /\ taken \in Record /\ taken # None /\ taken.state = "pending" /\ taken.number = None
      /\ taken.generation = generation + 1
  <2>1. taken \in Record
    BY <1>1 DEF Pending, Record
  <2> QED
    BY <2>1, RecordShape DEF Pending
<1> HIDE DEF taken
<1>4. ASSUME NEW s \in Slots
      PROVE  /\ records'[s] = IF TakesOver(s) THEN taken ELSE records[s]
             /\ ~Failed(s) => attempts'[s] = attempts[s]
  BY DEF ReplaceConsumer, taken
<1>5. ASSUME NEW s \in Slots, Failed(s)
      PROVE  /\ attempts'[s] \in Seq(Attempt) /\ Len(attempts'[s]) = Len(attempts[s])
             /\ DOMAIN attempts'[s] = DOMAIN attempts[s]
             /\ \A n \in DOMAIN attempts[s] :
                  attempts'[s][n].state = "abandoned" /\ AttemptIsValid(attempts'[s][n])
  <2> DEFINE n == records[s].number
  <2>1. /\ attempts[s] \in Seq(Attempt) /\ Len(attempts[s]) \in Nat
        /\ DOMAIN attempts[s] = 1..Len(attempts[s]) /\ records[s] # None
        /\ records[s].state = "failed_retryable"
    BY <1>5, Shapes DEF IInv, Failed
  <2>2. /\ n = Len(attempts[s]) /\ n > 0
        /\ \A m \in DOMAIN attempts[s] : m # n => attempts[s][m].state = "abandoned"
    BY <2>1 DEF IInv, RootFits, RecordsAreTheLast, RecordIsTheLast
  <2> DEFINE last == [attempts[s][n] EXCEPT !.state = "abandoned", !.token = None]
  <2>3. attempts'[s] = [attempts[s] EXCEPT ![n] = last] /\ n \in DOMAIN attempts[s]
    <3>1. n \in DOMAIN attempts[s]
      BY <2>1, <2>2
    <3>2. attempts'[s] = [attempts[s] EXCEPT ![n].state = "abandoned", ![n].token = None]
      BY <1>5 DEF ReplaceConsumer
    <3>3. [attempts[s] EXCEPT ![n].state = "abandoned", ![n].token = None]
            = [attempts[s] EXCEPT ![n] = last]
      BY <3>1
    <3> QED
      BY <3>1, <3>2, <3>3
  <2>4. last \in Attempt /\ last.state = "abandoned" /\ AttemptIsValid(last)
    <3>1. attempts[s][n] \in Attempt
      BY <2>1, <2>3
    <3> QED
      BY <3>1 DEF Attempt, FinalStates, AttemptIsValid, TokenIn
  <2> HIDE DEF last, n
  <2>5. /\ attempts'[s] \in Seq(Attempt) /\ Len(attempts'[s]) = Len(attempts[s])
        /\ DOMAIN attempts'[s] = DOMAIN attempts[s] /\ attempts'[s][n] = last
        /\ \A m \in DOMAIN attempts[s] : m # n => attempts'[s][m] = attempts[s][m]
    BY <2>1, <2>3, <2>4
  <2>6. \A m \in DOMAIN attempts[s] : AttemptIsValid(attempts[s][m])
    BY DEF IInv, RootFits, AttemptsCarryTokens
  <2> QED
    BY <2>2, <2>4, <2>5, <2>6
<1>6. ASSUME NEW s \in Slots
      PROVE  /\ attempts'[s] \in Seq(Attempt) /\ Len(attempts'[s]) = Len(attempts[s])
             /\ DOMAIN attempts'[s] = DOMAIN attempts[s]
             /\ records'[s] \in Record \union {None} /\ (records'[s] = None <=> records[s] = None)
             /\ records'[s] # None => /\ records'[s].state = "pending" =>
                                           TakesOver(s) /\ records'[s] = taken
                                      /\ records'[s].state # "pending" => records'[s] = records[s]
                                      /\ records'[s].state \in {"pending"} \union FinalStates
  <2>1. attempts[s] \in Seq(Attempt) /\ records[s] \in Record \union {None}
    BY Shapes DEF IInv
  <2>2. /\ attempts'[s] \in Seq(Attempt) /\ Len(attempts'[s]) = Len(attempts[s])
        /\ DOMAIN attempts'[s] = DOMAIN attempts[s]
    BY <1>4, <1>5, <2>1
  <2>3. CASE TakesOver(s)
    BY <1>3, <1>4, <2>2, <2>3 DEF TakesOver
  <2>4. CASE ~TakesOver(s)
    <3>1. records[s] # None => records[s].state \in FinalStates
      BY <1>2, <2>1, <2>4, RecordShape DEF TakesOver, ActiveStates
    <3> QED
      BY <1>4, <2>1, <2>2, <2>4, <3>1 DEF FinalStates
  <2> QED
    BY <2>3, <2>4
<1>7. TypeOK'
  <2>1. DOMAIN attempts' = Slots /\ DOMAIN records' = Slots
    BY DEF ReplaceConsumer
  <2>2. attempts' \in [Slots -> Seq(Attempt)] /\ records' \in [Slots -> Record \union {None}]
    <3>1. attempts' = [s \in Slots |-> attempts'[s]] /\ records' = [s \in Slots |-> records'[s]]
      BY DEF ReplaceConsumer
    <3> QED
      BY <1>6, <3>1
  <2> QED
    BY <1>1, <2>2 DEF IInv, TypeOK
<1>8. AcksAreAPrefix'
  <2>1. ASSUME NEW s \in Slots PROVE Resolved(s)' <=> Resolved(s)
    BY <1>3, <1>4 DEF Resolved, TakesOver
  <2> QED
    BY <1>1, <2>1 DEF IInv, RootFits, AcksAreAPrefix
<1>9. NothingAhead'
  <2> SUFFICES ASSUME NEW s \in Slots
               PROVE  /\ s > Len(acks) + 1 \/ s > committed => records'[s] = None
                      /\ records'[s] = None => attempts'[s] = <<>>
    BY <1>1 DEF NothingAhead
  <2>1. /\ s > Len(acks) + 1 \/ s > committed => records[s] = None
        /\ records[s] = None => attempts[s] = <<>>
    BY DEF IInv, RootFits, NothingAhead
  <2>2. records[s] = None => ~Failed(s)
    BY DEF Failed
  <2> QED
    BY <1>4, <1>6, <2>1, <2>2
<1>10. RecordsAreTheLast'
  <2> SUFFICES ASSUME NEW s \in Slots, records'[s] # None PROVE RecordIsTheLast(s)'
    BY DEF RecordsAreTheLast
  <2>1. records[s] # None /\ RecordIsTheLast(s)
    BY <1>6 DEF IInv, RootFits, RecordsAreTheLast
  <2>2. CASE TakesOver(s)
    <3>1. records'[s] = taken /\ Len(attempts'[s]) = Len(attempts[s])
      BY <1>4, <1>6, <2>2
    <3>2. Len(attempts[s]) < MaxPerPublicationAttempts
      BY <2>1, <2>2 DEF TakesOver, RecordIsTheLast
    <3>3. \A n \in DOMAIN attempts'[s] : attempts'[s][n].state = "abandoned"
      <4>1. CASE Failed(s)
        BY <1>5, <1>6, <4>1
      <4>2. CASE ~Failed(s)
        <5>1. records[s].state = "pending" /\ attempts'[s] = attempts[s]
          BY <1>4, <2>2, <4>2 DEF TakesOver, Failed
        <5>2. \A n \in DOMAIN attempts[s] : n # None
          BY Shapes, NoneAssumption DEF IInv
        <5> QED
          BY <2>1, <5>1, <5>2 DEF RecordIsTheLast
      <4> QED
        BY <4>1, <4>2
    <3> QED
      BY <1>1, <1>3, <3>1, <3>2, <3>3 DEF RecordIsTheLast
  <2>3. CASE ~TakesOver(s)
    <3>1. records'[s] = records[s] /\ attempts'[s] = attempts[s]
      BY <1>4, <2>3 DEF TakesOver, Failed
    <3>2. records'[s].state \in FinalStates
      BY <1>6, <2>3
    <3> QED
      BY <1>1, <2>1, <3>1, <3>2 DEF RecordIsTheLast
  <2> QED
    BY <2>2, <2>3
<1>11. AttemptsCarryTokens'
  <2> SUFFICES ASSUME NEW s \in Slots
               PROVE  /\ Len(attempts'[s]) <= MaxPerPublicationAttempts
                      /\ \A n \in DOMAIN attempts'[s] : AttemptIsValid(attempts'[s][n])
    BY DEF AttemptsCarryTokens, AttemptIsValid
  <2>1. /\ Len(attempts[s]) <= MaxPerPublicationAttempts
        /\ \A n \in DOMAIN attempts[s] : AttemptIsValid(attempts[s][n])
    BY DEF IInv, RootFits, AttemptsCarryTokens
  <2>2. CASE Failed(s)
    BY <1>5, <1>6, <2>1, <2>2
  <2>3. CASE ~Failed(s)
    BY <1>4, <2>1, <2>3
  <2> QED
    BY <2>2, <2>3
<1>12. IndexesMatch'
  <2>1. ASSUME NEW s \in Slots, NEW n \in Numbers
        PROVE  /\ <<s, n>> \in DOMAIN gates <=> StandsAt(s, n, "in_flight")'
               /\ <<s, n>> \notin requests
    <3>1. <<s, n>> \notin DOMAIN gates /\ <<s, n>> \notin requests
      BY <1>2 DEF IInv, IndexesMatch, StandsAt
    <3>2. ~StandsAt(s, n, "in_flight")'
      BY <1>6 DEF StandsAt, FinalStates
    <3> QED
      BY <3>1, <3>2
  <2>2. ASSUME NEW t \in tokens' PROVE FALSE
    <3>1. t \in tokens /\ ~Failed(t.slot) /\ t.slot \in Slots
      BY <1>1 DEF IInv, TypeOK
    <3>2. StandsAt(t.slot, t.number, IF t.kind = "repeat_sink" THEN "failed_retryable"
                                     ELSE "sink_succeeded")
      BY <3>1 DEF IInv, IndexesMatch
    <3> QED
      BY <1>2, <3>1, <3>2 DEF StandsAt, Failed
  <2> QED
    BY <1>1, <2>1, <2>2 DEF IndexesMatch, StandsAt
<1>13. SinksFit'
  <2> SUFFICES ASSUME NEW s \in Slots, NEW n \in Numbers, <<s, n>> \in DOMAIN sinks
               PROVE  /\ n \in DOMAIN attempts'[s]
                      /\ sinks[<<s, n>>] # "done" =>
                           /\ s = Len(acks) + 1 /\ records'[s] # None /\ records'[s].number = n
                           /\ records'[s].state \in {"in_flight", "failed_terminal", "abandoned"}
                      /\ sinks[<<s, n>>] \in {"writing", "failed_clean"} =>
                           Len(display) = Len(acks)
                      /\ sinks[<<s, n>>] = "written" => Len(display) = Len(acks) + 1
    BY <1>1 DEF SinksFit
  <2>1. /\ n \in DOMAIN attempts[s]
        /\ sinks[<<s, n>>] # "done" =>
             /\ s = Len(acks) + 1 /\ records[s] # None /\ records[s].number = n
             /\ records[s].state \in {"in_flight", "failed_terminal", "abandoned"}
        /\ sinks[<<s, n>>] \in {"writing", "failed_clean"} => Len(display) = Len(acks)
        /\ sinks[<<s, n>>] = "written" => Len(display) = Len(acks) + 1
    BY DEF IInv, SinksFit
  <2>2. n \in DOMAIN attempts'[s]
    BY <1>6, <2>1
  <2>3. sinks[<<s, n>>] # "done" => records'[s] = records[s]
    BY <1>4, <2>1 DEF TakesOver
  <2> QED
    BY <2>1, <2>2, <2>3
<1>14. DisplayFits'
  <2>1. ASSUME NEW s \in Slots, records'[s] # None, s > Len(acks)
        PROVE  /\ records'[s].state # "sink_succeeded"
               /\ records'[s].state \in {"pending", "prepared", "failed_retryable"} =>
                    Len(display) = Len(acks)
    <3>1. records'[s].state \in {"pending"} \union FinalStates /\ records[s] # None
      BY <1>6, <2>1
    <3>2. records'[s].state = "pending" => records[s].state \in {"pending", "failed_retryable"}
      BY <1>6, <2>1 DEF TakesOver
    <3> QED
      BY <2>1, <3>1, <3>2 DEF FinalStates, IInv, DisplayFits
  <2>2. \A s \in Slots : records[s] # None => records'[s] # None
    BY <1>6
  <2> QED
    BY <1>1, <2>1, <2>2 DEF IInv, DisplayFits
<1> QED
  BY <1>7, <1>8, <1>9, <1>10, <1>11, <1>12, <1>13, <1>14 DEF IInv, RootFits

(* What reset makes of an attempt.                                         *)
GivenUp(attempt) ==
    IF attempt.state \in ActiveStates
    THEN [attempt EXCEPT !.state = "abandoned", !.token = None] ELSE attempt

(* Reset: what is under way is abandoned, and no attempt has a gate.       *)
LEMMA ResetKeeps == ASSUME IInv, Reset PROVE IInv'
<1>1. /\ UNCHANGED <<committed, generation, acks, sinks, display>>
      /\ tokens' = {} /\ requests' = {} /\ invalidated' = TRUE
      /\ DOMAIN gates' = {}
  BY DEF Reset, external
<1>2. ASSUME NEW s \in Slots
      PROVE  /\ attempts'[s] = [n \in DOMAIN attempts[s] |-> GivenUp(attempts[s][n])]
             /\ records'[s] = IF records[s] # None /\ records[s].state \in ActiveStates
                              THEN [records[s] EXCEPT !.state = "abandoned"] ELSE records[s]
  BY DEF Reset, GivenUp
<1>3. ASSUME NEW attempt \in Attempt
      PROVE  /\ GivenUp(attempt) \in Attempt /\ GivenUp(attempt).generation = attempt.generation
             /\ GivenUp(attempt).state = IF attempt.state \in ActiveStates THEN "abandoned"
                                       ELSE attempt.state
             /\ AttemptIsValid(attempt) => AttemptIsValid(GivenUp(attempt))
  BY DEF Attempt, ActiveStates, FinalStates, AttemptIsValid, TokenIn, GivenUp
<1>4. ASSUME NEW s \in Slots
      PROVE  /\ attempts'[s] \in Seq(Attempt) /\ Len(attempts'[s]) = Len(attempts[s])
             /\ DOMAIN attempts'[s] = DOMAIN attempts[s]
             /\ \A n \in DOMAIN attempts[s] :
                  attempts[s][n] \in Attempt /\ attempts'[s][n] = GivenUp(attempts[s][n])
  <2>1. /\ attempts[s] \in Seq(Attempt) /\ Len(attempts[s]) \in Nat
        /\ DOMAIN attempts[s] = 1..Len(attempts[s])
        /\ \A n \in DOMAIN attempts[s] : attempts[s][n] \in Attempt
    BY Shapes DEF IInv
  <2>2. \A n \in DOMAIN attempts[s] : GivenUp(attempts[s][n]) \in Attempt
    BY <1>3, <2>1
  <2>3. /\ attempts'[s] \in [1..Len(attempts[s]) -> Attempt]
        /\ \A n \in DOMAIN attempts[s] : attempts'[s][n] = GivenUp(attempts[s][n])
    <3>1. attempts'[s] = [n \in DOMAIN attempts[s] |-> GivenUp(attempts[s][n])]
      BY <1>2
    <3> QED
      BY <2>1, <2>2, <3>1
  <2>4. attempts'[s] \in Seq(Attempt) /\ Len(attempts'[s]) = Len(attempts[s])
    BY <2>1, <2>3
  <2> QED
    BY <2>1, <2>3, <2>4
<1>5. ASSUME NEW s \in Slots
      PROVE  /\ records'[s] \in Record \union {None} /\ (records'[s] = None <=> records[s] = None)
             /\ records[s] # None =>
                  /\ records'[s].number = records[s].number
                  /\ records'[s].generation = records[s].generation
                  /\ records'[s].state = IF records[s].state \in ActiveStates THEN "abandoned"
                                         ELSE records[s].state
                  /\ records'[s].state \notin ActiveStates
  <2>1. records[s] \in Record \union {None}
    BY Shapes DEF IInv
  <2>2. CASE records[s] # None /\ records[s].state \in ActiveStates
    <3>1. records'[s] = [records[s] EXCEPT !.state = "abandoned"]
      BY <1>2, <2>2
    <3>2. /\ records'[s] \in Record /\ records'[s].state = "abandoned"
          /\ records'[s].number = records[s].number
          /\ records'[s].generation = records[s].generation
      BY <2>1, <2>2, <3>1 DEF Record, FinalStates
    <3> QED
      BY <2>2, <3>2, RecordShape DEF ActiveStates
  <2>3. CASE ~(records[s] # None /\ records[s].state \in ActiveStates)
    BY <1>2, <2>1, <2>3
  <2> QED
    BY <2>2, <2>3
<1>6. TypeOK'
  <2>1. attempts' \in [Slots -> Seq(Attempt)] /\ records' \in [Slots -> Record \union {None}]
    <3>1. attempts' = [s \in Slots |-> attempts'[s]] /\ records' = [s \in Slots |-> records'[s]]
      BY DEF Reset
    <3> QED
      BY <1>4, <1>5, <3>1
  <2> QED
    BY <1>1, <2>1 DEF IInv, TypeOK
<1>7. AcksAreAPrefix'
  <2>1. ASSUME NEW s \in Slots PROVE Resolved(s)' <=> Resolved(s)
    BY <1>5 DEF Resolved, ActiveStates
  <2> QED
    BY <1>1, <2>1 DEF IInv, RootFits, AcksAreAPrefix
<1>8. NothingAhead'
  <2> SUFFICES ASSUME NEW s \in Slots
               PROVE  /\ s > Len(acks) + 1 \/ s > committed => records'[s] = None
                      /\ records'[s] = None => attempts'[s] = <<>>
    BY <1>1 DEF NothingAhead
  <2>1. /\ s > Len(acks) + 1 \/ s > committed => records[s] = None
        /\ records[s] = None => attempts[s] = <<>>
    BY DEF IInv, RootFits, NothingAhead
  <2> QED
    BY <1>4, <1>5, <2>1
<1>9. RecordsAreTheLast'
  <2> SUFFICES ASSUME NEW s \in Slots, records'[s] # None PROVE RecordIsTheLast(s)'
    BY DEF RecordsAreTheLast
  <2>1. records[s] # None /\ RecordIsTheLast(s)
    BY <1>5 DEF IInv, RootFits, RecordsAreTheLast
  <2>2. \A n \in DOMAIN attempts'[s] : n # records'[s].number => attempts'[s][n].state = "abandoned"
    <3> SUFFICES ASSUME NEW n \in DOMAIN attempts[s], n # records[s].number
                 PROVE  attempts'[s][n].state = "abandoned"
      BY <1>4, <1>5, <2>1
    <3>1. attempts[s][n].state = "abandoned"
      BY <2>1 DEF RecordIsTheLast
    <3> QED
      BY <1>3, <1>4, <3>1
  <2>3. CASE records[s].state = "pending"
    <3>1. /\ records'[s].state = "pending" /\ records'[s].number = None
          /\ records'[s].generation = generation /\ Len(attempts'[s]) < MaxPerPublicationAttempts
      BY <1>4, <1>5, <2>1, <2>3 DEF RecordIsTheLast, ActiveStates, FinalStates
    <3> QED
      BY <1>1, <2>2, <3>1 DEF RecordIsTheLast
  <2>4. CASE records[s].state # "pending"
    <3> DEFINE n == Len(attempts[s])
    <3>1. records[s].number = n /\ n > 0 /\ records[s] = RecordFor(attempts[s][n], n)
      BY <2>1, <2>4 DEF RecordIsTheLast
    <3>2. n \in DOMAIN attempts[s] /\ n \in Numbers /\ attempts[s][n] \in Attempt
      <4>1. /\ DOMAIN attempts[s] = 1..n /\ n \in Nat /\ Numbers = 1..3 /\ n <= 3
            /\ \A m \in DOMAIN attempts[s] : attempts[s][m] \in Attempt
        BY Shapes DEF IInv, RootFits, AttemptsCarryTokens, MaxPerPublicationAttempts
      <4> HIDE DEF n
      <4> QED
        BY <3>1, <4>1
    <3> HIDE DEF n
    <3>3. /\ attempts'[s][n] \in Attempt
          /\ attempts'[s][n].state = IF attempts[s][n].state \in ActiveStates THEN "abandoned"
                                     ELSE attempts[s][n].state
          /\ attempts'[s][n].generation = attempts[s][n].generation
      BY <1>3, <1>4, <3>2
    <3>4. /\ records[s].state = attempts[s][n].state
          /\ records[s].generation = attempts[s][n].generation
      BY <3>1, <3>2, RecordForShape
    <3>5. /\ records'[s].state = attempts'[s][n].state /\ records'[s].number = n
          /\ records'[s].generation = attempts'[s][n].generation
      BY <1>5, <2>1, <3>1, <3>3, <3>4
    <3>6. records'[s] = RecordFor(attempts'[s][n], n)
      <4>1. records'[s] \in Record
        BY <1>5
      <4>2. RecordFor(attempts'[s][n], n) \in Record
        BY <3>2, <3>3, RecordForShape
      <4> QED
        BY <3>5, <4>1, <4>2 DEF RecordFor, Record
    <3>7. records'[s].state \in FinalStates
      <4>1. records[s].state \in ActiveStates \union FinalStates
        BY <3>1, <3>2, <3>4 DEF Attempt
      <4> QED
        BY <1>5, <2>1, <4>1 DEF FinalStates
    <3>8. records'[s].number = Len(attempts'[s])
      BY <1>4, <3>5 DEF n
    <3> QED
      BY <1>1, <2>2, <3>1, <3>5, <3>6, <3>7, <3>8 DEF RecordIsTheLast, FinalStates
  <2> QED
    BY <2>3, <2>4
<1>10. AttemptsCarryTokens'
  <2> SUFFICES ASSUME NEW s \in Slots
               PROVE  /\ Len(attempts'[s]) <= MaxPerPublicationAttempts
                      /\ \A n \in DOMAIN attempts'[s] : AttemptIsValid(attempts'[s][n])
    BY DEF AttemptsCarryTokens, AttemptIsValid
  <2>1. /\ Len(attempts[s]) <= MaxPerPublicationAttempts
        /\ \A n \in DOMAIN attempts[s] : AttemptIsValid(attempts[s][n])
    BY DEF IInv, RootFits, AttemptsCarryTokens
  <2> QED
    BY <1>3, <1>4, <2>1
<1>11. IndexesMatch'
  <2>1. \A s \in Slots, n \in Numbers : ~StandsAt(s, n, "in_flight")'
    BY <1>5 DEF StandsAt, ActiveStates
  <2> QED
    BY <1>1, <2>1 DEF IndexesMatch, StandsAt
<1>12. SinksFit'
  <2> SUFFICES ASSUME NEW s \in Slots, NEW n \in Numbers, <<s, n>> \in DOMAIN sinks
               PROVE  /\ n \in DOMAIN attempts'[s]
                      /\ sinks[<<s, n>>] # "done" =>
                           /\ s = Len(acks) + 1 /\ records'[s] # None /\ records'[s].number = n
                           /\ records'[s].state \in {"in_flight", "failed_terminal", "abandoned"}
                      /\ sinks[<<s, n>>] \in {"writing", "failed_clean"} =>
                           Len(display) = Len(acks)
                      /\ sinks[<<s, n>>] = "written" => Len(display) = Len(acks) + 1
    BY <1>1 DEF SinksFit
  <2>1. /\ n \in DOMAIN attempts[s]
        /\ sinks[<<s, n>>] # "done" =>
             /\ s = Len(acks) + 1 /\ records[s] # None /\ records[s].number = n
             /\ records[s].state \in {"in_flight", "failed_terminal", "abandoned"}
        /\ sinks[<<s, n>>] \in {"writing", "failed_clean"} => Len(display) = Len(acks)
        /\ sinks[<<s, n>>] = "written" => Len(display) = Len(acks) + 1
    BY DEF IInv, SinksFit
  <2> QED
    BY <1>4, <1>5, <2>1
<1>13. DisplayFits'
  <2>1. ASSUME NEW s \in Slots, records'[s] # None, s > Len(acks)
        PROVE  /\ records'[s].state # "sink_succeeded"
               /\ records'[s].state \in {"pending", "prepared", "failed_retryable"} =>
                    Len(display) = Len(acks)
    <3>1. records'[s].state \notin ActiveStates /\ records[s] # None
      BY <1>5, <2>1
    <3>2. records'[s].state = "pending" => records[s].state = "pending"
      BY <1>5, <2>1
    <3> QED
      BY <2>1, <3>1, <3>2 DEF ActiveStates, IInv, DisplayFits
  <2>2. \A s \in Slots : records[s] # None => records'[s] # None
    BY <1>5
  <2> QED
    BY <1>1, <2>1, <2>2 DEF IInv, DisplayFits
<1> QED
  BY <1>6, <1>7, <1>8, <1>9, <1>10, <1>11, <1>12, <1>13 DEF IInv, RootFits

-----------------------------------------------------------------------------
(* The inductive invariant and what follows from it.                       *)

(* The controller starts in the invariant.                                 *)
LEMMA InitInvariant == Init => IInv
<1> SUFFICES ASSUME Init PROVE IInv
  OBVIOUS
<1>1. /\ committed = 0 /\ generation = 0 /\ tokens = {} /\ acks = <<>> /\ requests = {}
      /\ DOMAIN gates = {} /\ DOMAIN sinks = {} /\ display = <<>> /\ invalidated = FALSE
      /\ \A s \in Slots : records[s] = None /\ attempts[s] = <<>> /\ s > 0
  BY BoundsAssumption DEF Init, Slots
<1>2. TypeOK
  <2>1. <<>> \in Seq(Attempt) /\ <<>> \in Seq(Slots)
    OBVIOUS
  <2>2. attempts \in [Slots -> Seq(Attempt)] /\ records \in [Slots -> Record \union {None}]
    BY <2>1 DEF Init
  <2>3. committed \in 0..MaxPublications /\ generation \in 0..MaxGeneration
    BY <1>1, BoundsAssumption
  <2>4. /\ DOMAIN gates \subseteq Slots \X Numbers /\ DOMAIN sinks \subseteq Slots \X Numbers
        /\ \A a \in DOMAIN gates : gates[a] \in Gate
        /\ \A a \in DOMAIN sinks : sinks[a] \in SinkStates
    BY <1>1
  <2> QED
    BY <1>1, <2>1, <2>2, <2>3, <2>4 DEF TypeOK
<1>3. RootFits
  <2>1. AcksAreAPrefix
    BY <1>1 DEF AcksAreAPrefix, Resolved, Slots
  <2>2. NothingAhead /\ RecordsAreTheLast
    BY <1>1 DEF NothingAhead, RecordsAreTheLast
  <2>3. AttemptsCarryTokens
    BY <1>1 DEF AttemptsCarryTokens, MaxPerPublicationAttempts
  <2> QED
    BY <2>1, <2>2, <2>3 DEF RootFits
<1>4. IndexesMatch /\ SinksFit
  BY <1>1 DEF IndexesMatch, StandsAt, SinksFit
<1>5. DisplayFits
  BY <1>1 DEF DisplayFits
<1> QED
  BY <1>2, <1>3, <1>4, <1>5 DEF IInv

(* Every call, timer and sink keeps it.                                    *)
LEMMA NextInvariant == IInv /\ [Next]_vars => IInv'
<1> SUFFICES ASSUME IInv, [Next]_vars PROVE IInv'
  OBVIOUS
<1>1. CASE Commit \/ ReplaceConsumer \/ Reset
  BY <1>1, CommitKeeps, ReplaceKeeps, ResetKeeps
<1>2. ASSUME NEW s \in Slots, Discover(s) \/ \E renders \in BOOLEAN : Prepare(s, renders)
      PROVE  IInv'
  BY <1>2, DiscoverKeeps, PrepareKeeps
<1>3. ASSUME NEW a \in Slots \X Numbers,
             \/ Begin(a) \/ Write(a) \/ Report(a) \/ Elapse(a) \/ Settle(a) \/ Acknowledge(a)
      PROVE  IInv'
  <2>1. PICK s \in Slots, n \in Numbers : a = <<s, n>>
    OBVIOUS
  <2> QED
    BY <1>3, <2>1, BeginKeeps, WriteKeeps, ReportKeeps, TimeKeeps, AcknowledgeKeeps
<1>4. CASE \E t \in tokens : Retry(t)
  BY <1>4, RetryKeeps
<1>5. CASE UNCHANGED vars
  <2>1. UNCHANGED <<root, requests, invalidated, display, gates, sinks>>
    BY <1>5 DEF vars, external
  <2> QED
    BY <2>1, GatesOnly DEF IInv, TypeOK
<1> QED
  BY <1>1, <1>2, <1>3, <1>4, <1>5 DEF Next

(* The root is valid in every state of the invariant.                      *)
LEMMA InvariantIsValid == IInv => RootIsValid
<1> SUFFICES ASSUME IInv PROVE RootIsValid
  OBVIOUS
<1>1. AttemptsAreValid
  <2>1. ASSUME NEW a \in Attempts
        PROVE  Token(a) # None <=> StateOf(a) \in {"sink_succeeded", "failed_retryable"}
    <3>1. AttemptIsValid(attempts[a[1]][a[2]])
      BY DEF Attempts, IInv, RootFits, AttemptsCarryTokens
    <3> QED
      BY <3>1, NullAssumption DEF AttemptIsValid, TokenIn, Token, StateOf, Kinds
  <2> QED
    BY <2>1 DEF AttemptsAreValid, IInv, RootFits, AttemptsCarryTokens
<1>2. RecordsAreValid
  <2> SUFFICES ASSUME NEW s \in Slots, records[s] # None
               PROVE  /\ records[s].state \in FinalStates \/ records[s].generation = generation
                      /\ IF records[s].state = "pending" THEN records[s].number = None
                         ELSE /\ records[s].number \in DOMAIN attempts[s]
                              /\ records[s].state = StateOf(<<s, records[s].number>>)
                              /\ records[s].generation
                                   = attempts[s][records[s].number].generation
    BY DEF RecordsAreValid
  <2>1. RecordIsTheLast(s)
    BY DEF IInv, RootFits, RecordsAreTheLast
  <2>2. CASE records[s].state # "pending"
    <3> DEFINE n == Len(attempts[s])
    <3>1. records[s].number = n /\ n > 0 /\ records[s] = RecordFor(attempts[s][n], n)
      BY <2>1, <2>2 DEF RecordIsTheLast
    <3>2. n \in Nat /\ DOMAIN attempts[s] = 1..n
      BY Shapes DEF IInv
    <3>3. n \in DOMAIN attempts[s]
      BY <3>1, <3>2
    <3> HIDE DEF n
    <3>4. /\ records[s].state = attempts[s][n].state
          /\ records[s].generation = attempts[s][n].generation
      BY <3>1 DEF RecordFor
    <3> QED
      BY <2>1, <2>2, <3>1, <3>3, <3>4 DEF RecordIsTheLast, StateOf
  <2> QED
    BY <2>1, <2>2 DEF RecordIsTheLast
<1>3. TokensAreValid
  <2> SUFFICES ASSUME NEW t \in tokens
               PROVE  /\ <<t.slot, t.number>> \in Attempts
                      /\ Token(<<t.slot, t.number>>) = t.kind
                      /\ StateOf(<<t.slot, t.number>>) =
                           IF t.kind = "repeat_sink" THEN "failed_retryable" ELSE "sink_succeeded"
    BY DEF TokensAreValid
  <2> DEFINE s == t.slot
  <2> DEFINE n == t.number
  <2> DEFINE state == IF t.kind = "repeat_sink" THEN "failed_retryable" ELSE "sink_succeeded"
  <2>1. s \in Slots /\ n \in Numbers /\ t.kind \in Kinds
    BY DEF IInv, TypeOK
  <2>2. StandsAt(s, n, state)
    BY DEF IInv, IndexesMatch
  <2>3. state \in ActiveStates /\ TokenIn(state) = t.kind
    BY <2>1 DEF ActiveStates, TokenIn, Kinds
  <2> HIDE DEF s, n, state
  <2>4. n \in DOMAIN attempts[s] /\ attempts[s][n].state = state
    BY <2>1, <2>2, <2>3, StandsAtLast
  <2>5. AttemptIsValid(attempts[s][n])
    BY <2>1, <2>4 DEF IInv, RootFits, AttemptsCarryTokens
  <2>6. <<s, n>> \in Attempts /\ Token(<<s, n>>) = t.kind /\ StateOf(<<s, n>>) = state
    BY <2>1, <2>3, <2>4, <2>5 DEF Attempts, Token, StateOf, AttemptIsValid
  <2> QED
    BY <2>6 DEF s, n, state
<1>4. AcksAreValid
  <2> SUFFICES ASSUME NEW k \in DOMAIN acks
               PROVE  \E n \in DOMAIN attempts[acks[k]] :
                        StateOf(<<acks[k], n>>) = "acknowledged"
    BY DEF AcksAreValid
  <2>1. k \in 1..Len(acks) /\ Len(acks) \in Nat
    BY Shapes DEF IInv
  <2>2. acks[k] = k /\ k \in Slots
    BY <2>1, Shapes DEF IInv, RootFits, AcksAreAPrefix
  <2>3. records[k] # None /\ records[k].state = "acknowledged"
    BY <2>1, <2>2 DEF IInv, RootFits, AcksAreAPrefix, Resolved
  <2>4. /\ records[k].number \in DOMAIN attempts[k]
        /\ records[k].state = StateOf(<<k, records[k].number>>)
    BY <1>2, <2>2, <2>3 DEF RecordsAreValid
  <2> QED
    BY <2>2, <2>3, <2>4
<1> QED
  BY <1>1, <1>2, <1>3, <1>4 DEF RootIsValid

(* The inductive invariant holds in every reachable state.                 *)
THEOREM Invariance == Spec => []IInv
<1> QED
  BY InitInvariant, NextInvariant, PTL DEF Spec

(* The controller's indexes have their shapes.                             *)
THEOREM TypeCorrect == Spec => []TypeOK
<1>1. IInv => TypeOK
  BY DEF IInv
<1> QED
  BY Invariance, <1>1, PTL

(* validateRoot never refuses a root the controller has published.         *)
THEOREM RootsAreValid == Spec => []RootIsValid
<1> QED
  BY Invariance, InvariantIsValid, PTL

(* An answer that waits has an attempt left for it: prepare and retry do   *)
(* not refuse it on account of the limit.                                  *)
THEOREM WaitingMayGoOn == Spec => []WaitingHasAnAttemptLeft
<1>1. IInv => WaitingHasAnAttemptLeft
  BY DEF IInv, RootFits, RecordsAreTheLast, RecordIsTheLast, WaitingHasAnAttemptLeft
<1> QED
  BY Invariance, <1>1, PTL

(* A step of the controller or a sink is a step of the ordered display.    *)
LEMMA StepsRefine == IInv /\ [Next]_vars => [Promise!Next]_<<display, Len(acks)>>
<1> SUFFICES ASSUME IInv, [Next]_vars PROVE [Promise!Next]_<<display, Len(acks)>>
  OBVIOUS
<1>1. CASE UNCHANGED <<display, acks>>
  BY <1>1
<1>2. ASSUME NEW s \in Slots, NEW n \in Numbers, Write(<<s, n>>)
      PROVE  [Promise!Next]_<<display, Len(acks)>>
  <2>1. UNCHANGED acks
    BY <1>2 DEF Write, root
  <2>2. s = Len(acks) + 1 /\ Len(display) = Len(acks)
    BY <1>2 DEF Write, IInv, SinksFit
  <2>3. UNCHANGED display \/ display' = Append(display, s)
    BY <1>2 DEF Write
  <2> QED
    BY <2>1, <2>2, <2>3 DEF Promise!Next, Promise!Show
<1>3. ASSUME NEW s \in Slots, NEW n \in Numbers, Acknowledge(<<s, n>>)
      PROVE  [Promise!Next]_<<display, Len(acks)>>
  <2>1. /\ s = Len(acks) + 1 /\ Len(display) = Len(acks) + 1 /\ Len(acks') = s
        /\ Len(acks) \in Nat
    BY <1>3, AcknowledgeFacts, Shapes DEF IInv
  <2>2. UNCHANGED display
    BY <1>3 DEF Acknowledge, external
  <2> QED
    BY <2>1, <2>2 DEF Promise!Next, Promise!Acknowledge
<1>4. ASSUME NEW a \in Slots \X Numbers, Write(a) \/ Acknowledge(a)
      PROVE  [Promise!Next]_<<display, Len(acks)>>
  <2>1. PICK s \in Slots, n \in Numbers : a = <<s, n>>
    OBVIOUS
  <2> QED
    BY <1>2, <1>3, <1>4, <2>1
<1>5. ASSUME NEW a \in Slots \X Numbers, Begin(a) \/ Report(a) \/ Elapse(a) \/ Settle(a)
      PROVE  UNCHANGED <<display, acks>>
  <2>1. CASE Begin(a) \/ Elapse(a)
    BY <2>1 DEF Begin, Elapse, root, external
  <2>2. CASE Report(a)
    BY <2>2 DEF Report, Complete, RecordFailure, Succeeds, TimesOut, Fails, Latches, root
  <2>3. CASE Settle(a)
    BY <2>3 DEF Settle, PrimaryTimer, CleanupTimer, Latches, TimesOut, Fails, root, external
  <2> QED
    BY <1>5, <2>1, <2>2, <2>3
<1>6. CASE Commit \/ ReplaceConsumer \/ Reset \/ UNCHANGED vars
  BY <1>1, <1>6 DEF Commit, ReplaceConsumer, Reset, vars, root, external
<1>7. CASE \E s \in Slots : Discover(s) \/ \E renders \in BOOLEAN : Prepare(s, renders)
  BY <1>1, <1>7 DEF Discover, Prepare, external
<1>8. CASE \E t \in tokens : Retry(t)
  BY <1>1, <1>8 DEF Retry, external
<1> QED
  BY <1>1, <1>4, <1>5, <1>6, <1>7, <1>8 DEF Next

(* The display keeps its promise: every answer at most once, in the order  *)
(* of their slots, none before the one ahead of it was acknowledged.       *)
THEOREM DisplayIsOrdered == Spec => ImplementsOrderedDisplay
<1>1. Init => Promise!Init
  BY DEF Init, Promise!Init
<1> QED
  BY Invariance, StepsRefine, <1>1, PTL DEF Spec, ImplementsOrderedDisplay, Promise!Spec

=============================================================================
