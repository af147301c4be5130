------------------------- MODULE EngineDispatchProofs -------------------------
(***************************************************************************)
(* Proofs about EngineDispatch: whatever the number of callers, whatever   *)
(* the setup and wherever the versions run out, commands never overlap,    *)
(* no structured question is left without an outcome, and an answer that   *)
(* waits for its display holds the input closed.                           *)
(***************************************************************************)
EXTENDS EngineDispatch, FiniteSetTheorems, TLAPS

Open(c) == calls[c] # Idle

(* One command at a time, and busy says whether there is one.              *)
Exclusive ==
    /\ \A c, d \in Callers : Open(c) /\ Open(d) => c = d
    /\ busy = (\E c \in Callers : Open(c))

(* What a call in flight knows of the game still holds.                    *)
CallKnows(c) ==
    /\ calls[c].turn = turn
    /\ calls[c].stage # "answering" =>
         /\ AsDispatched(c)
         /\ calls[c].base < MaxSafe
    /\ calls[c].stage \in {"interpreting", "validated"} /\ setup = "structured" =>
         calls[c].base + 2 <= MaxSafe
    /\ calls[c].stage = "answering" =>
         /\ Question(c) \in asked
         /\ Question(c) \in answered => version = Question(c) + 1

CallsKnow == \A c \in Callers : Open(c) => CallKnows(c)

(* A question is older than its outcome, and the route's bookkeeping       *)
(* belongs to the structured setup.                                        *)
Ordered ==
    /\ \A q \in asked : q <= version
    /\ \A q \in answered \cup settled : q < version
    /\ setup # "structured" => snapshots = {} /\ settled = {}

IInv ==
    /\ TypeOK
    /\ Exclusive
    /\ CallsKnow
    /\ Ordered
    /\ NoQuestionLeftBehind
    /\ RoomForAnswer
    /\ HandoffBlocksInput

-----------------------------------------------------------------------------
(* A call is never the idle record, and moving it to another stage leaves  *)
(* everything else it carries.                                             *)
LEMMA CallFacts ==
    ASSUME NEW call \in Call
    PROVE  /\ call # Idle
           /\ \A st \in Stages :
                /\ [call EXCEPT !.stage = st] \in Call
                /\ [call EXCEPT !.stage = st].stage = st
                /\ [call EXCEPT !.stage = st].kind = call.kind
                /\ [call EXCEPT !.stage = st].base = call.base
                /\ [call EXCEPT !.stage = st].turn = call.turn
                /\ [call EXCEPT !.stage = st].phase = call.phase
<1>1. call.stage # "idle"
  BY DEF Call, Stages
<1>2. Idle.stage = "idle"
  BY DEF Idle
<1> QED
  BY <1>1, <1>2 DEF Call, Stages

(* Ending the call in flight leaves the engine without one.                *)
LEMMA EndLeavesNone ==
    ASSUME TypeOK, Exclusive, NEW c \in Callers, calls[c].stage \in Stages, End(c)
    PROVE  /\ calls' \in [Callers -> Call \cup {Idle}]
           /\ \A d \in Callers : calls'[d] = Idle
           /\ busy' = FALSE
           /\ Open(c) /\ calls[c] \in Call
           /\ \A d \in Callers \ {c} : ~Open(d)
<1>1. Open(c) /\ calls[c] \in Call
  BY DEF Open, TypeOK, Idle, Stages
<1>2. \A d \in Callers \ {c} : ~Open(d)
  BY <1>1 DEF Exclusive
<1> QED
  BY <1>1, <1>2 DEF End, TypeOK, Open

(* Moving the call in flight to another stage leaves it the only one.      *)
LEMMA StageKeepsOne ==
    ASSUME TypeOK, Exclusive, NEW c \in Callers, calls[c].stage \in Stages,
           NEW st \in Stages, Stage(c, st)
    PROVE  /\ calls' \in [Callers -> Call \cup {Idle}]
           /\ \A d \in Callers \ {c} : ~Open(d) /\ calls'[d] = Idle
           /\ Open(c) /\ calls[c] \in Call
           /\ calls'[c] \in Call /\ calls'[c] # Idle
           /\ calls'[c].stage = st /\ calls'[c].kind = calls[c].kind
           /\ calls'[c].base = calls[c].base /\ calls'[c].turn = calls[c].turn
           /\ calls'[c].phase = calls[c].phase
<1>1. Open(c) /\ calls[c] \in Call
  BY DEF Open, TypeOK, Idle, Stages
<1>2. \A d \in Callers \ {c} : ~Open(d)
  BY <1>1 DEF Exclusive
<1>3. calls'[c] = [calls[c] EXCEPT !.stage = st]
  BY DEF Stage, TypeOK
<1>4. \A d \in Callers \ {c} : calls'[d] = calls[d]
  BY DEF Stage, TypeOK
<1>5. calls' = [d \in Callers |-> calls'[d]]
  BY DEF Stage, TypeOK
<1> QED
  BY <1>1, <1>2, <1>3, <1>4, <1>5, CallFacts DEF Open

-----------------------------------------------------------------------------
(* The initial states satisfy the inductive invariant.                     *)
LEMMA InitInvariant == Init => IInv
<1> SUFFICES ASSUME Init PROVE IInv
  OBVIOUS
<1> USE SetupsAssumption, MaxSafeAssumption, NoneAssumption
<1>1. TypeOK
  <2>1. setup \in AllSetups /\ phase \in Phases
    BY DEF Init, Phases
  <2>2. calls \in [Callers -> Call \cup {Idle}]
    BY DEF Init
  <2>3. /\ live \in BOOLEAN /\ finished \in BOOLEAN /\ clarified \in BOOLEAN
        /\ draining \in BOOLEAN /\ busy \in BOOLEAN
    BY DEF Init
  <2>4. version \in 0 .. MaxSafe /\ turn \in 0 .. MaxSafe
    BY DEF Init
  <2>5. /\ asked \subseteq 1 .. MaxSafe /\ answered \subseteq asked
        /\ settled \subseteq asked /\ snapshots \subseteq asked
        /\ displayed \subseteq asked
    BY DEF Init
  <2>6. handoff = None /\ pump = None
    BY DEF Init
  <2> QED
    BY <2>1, <2>2, <2>3, <2>4, <2>5, <2>6 DEF TypeOK
<1>2. Exclusive /\ CallsKnow
  BY DEF Init, Exclusive, CallsKnow, Open
<1>3. Ordered
  BY DEF Init, Ordered
<1>4. NoQuestionLeftBehind /\ RoomForAnswer
  BY DEF Init, NoQuestionLeftBehind, RoomForAnswer
<1>5. HandoffBlocksInput
  BY DEF Init, HandoffBlocksInput, HandoffOpen
<1> QED
  BY <1>1, <1>2, <1>3, <1>4, <1>5 DEF IInv

(* A command that ends and replaces nothing, unless its question is still  *)
(* without an outcome.                                                     *)
LEMMA QuietEnd ==
    ASSUME IInv, NEW c \in Callers, calls[c].stage \in Stages, End(c),
           UNCHANGED <<setup, live, game, draining, snapshots, displayed, pump>>,
           clarified' \in BOOLEAN,
           \/ UNCHANGED handoff
           \/ /\ handoff' = [question |-> Question(c), state |-> "pending_player_display"]
              /\ calls[c].stage = "answering" /\ Question(c) \in answered,
           setup = "structured" /\ live /\ calls[c].stage = "answering" =>
             Question(c) \in answered \cup settled
    PROVE  IInv'
<1> USE MaxSafeAssumption, NoneAssumption DEF IInv
<1>1. /\ calls' \in [Callers -> Call \cup {Idle}]
      /\ \A d \in Callers : calls'[d] = Idle
      /\ busy' = FALSE
      /\ Open(c) /\ calls[c] \in Call
      /\ \A d \in Callers \ {c} : ~Open(d)
  BY EndLeavesNone
<1>2. /\ handoff' \in [question : asked', state : Handoffs] \cup {None}
      /\ pump' # None => handoff' # None
  <2>1. /\ asked' = asked /\ answered \subseteq asked
        /\ \A q \in asked : q \in Nat
    BY DEF TypeOK, game
  <2>2. CASE UNCHANGED handoff
    BY <2>1, <2>2 DEF TypeOK
  <2>3. CASE ~UNCHANGED handoff
    BY <2>1, <2>3, "pending_player_display" \in Handoffs DEF Handoffs
  <2> QED
    BY <2>2, <2>3
<1>3. TypeOK'
  BY <1>1, <1>2 DEF TypeOK, game
<1>4. Exclusive' /\ CallsKnow'
  BY <1>1 DEF Exclusive, CallsKnow, Open
<1>5. Ordered'
  BY DEF Ordered, game
<1>6. \A d \in InFlight : d = c
  BY <1>1 DEF InFlight, Open
<1>7. NoQuestionLeftBehind'
  BY <1>6 DEF NoQuestionLeftBehind, game
<1>8. RoomForAnswer'
  BY DEF RoomForAnswer, game
<1>9. HandoffBlocksInput'
  <2>1. InFlight' = {}
    BY <1>1 DEF InFlight
  <2>2. CASE UNCHANGED handoff
    BY <2>1, <2>2 DEF HandoffBlocksInput, HandoffOpen, game
  <2>3. CASE ~UNCHANGED handoff
    <3>1. version = Question(c) + 1 /\ handoff'.question = Question(c) /\ Question(c) \in answered
      BY <1>1, <2>3 DEF CallsKnow, CallKnows
    <3> QED
      BY <2>1, <3>1 DEF HandoffBlocksInput, HandoffOpen, game, Question
  <2> QED
    BY <2>2, <2>3
<1> QED
  BY <1>3, <1>4, <1>5, <1>7, <1>8, <1>9

-----------------------------------------------------------------------------
(* A new call is the only one, and begins with what the game is now.       *)
LEMMA DispatchStep ==
    ASSUME IInv, NEW c \in Callers, NEW kind \in Kinds, NEW k \in BOOLEAN,
           Dispatch(c, kind, k)
    PROVE  IInv'
<1> USE MaxSafeAssumption, NoneAssumption DEF IInv
<1> DEFINE new == [stage |-> IF kind = "ask_npc" /\ setup # "compatibility"
                             THEN "interpreting" ELSE "working",
                   kind |-> kind, base |-> version, turn |-> turn', phase |-> phase]
<1>1. /\ live /\ ~HandoffOpen /\ version < MaxSafe /\ turn < MaxSafe
      /\ kind = "ask_npc" /\ setup = "structured" => version <= MaxSafe - 2
      /\ \A d \in Callers : ~Open(d)
  BY DEF Dispatch, Admitted, HasRoom, Exclusive
<1>2. turn' \in 0 .. MaxSafe
  BY <1>1 DEF Dispatch, TypeOK
<1>3. new \in Call
  BY <1>2 DEF TypeOK, Call, Stages
<1>4. calls' = [calls EXCEPT ![c] = new]
  BY DEF Dispatch
<1>5. /\ calls' \in [Callers -> Call \cup {Idle}]
      /\ calls'[c] = new /\ calls'[c] # Idle
      /\ \A d \in Callers \ {c} : calls'[d] = Idle
  BY <1>1, <1>3, <1>4, CallFacts DEF TypeOK, Open
<1>6. busy' = TRUE /\ clarified' \in BOOLEAN
  BY DEF Dispatch, TypeOK
<1>7. UNCHANGED <<setup, live, version, phase, finished, asked, answered, settled,
                  draining, snapshots, displayed, handoff, pump>>
  BY DEF Dispatch, display
<1>8. TypeOK'
  BY <1>2, <1>5, <1>6, <1>7 DEF TypeOK
<1>9. Exclusive'
  BY <1>5, <1>6 DEF Exclusive, Open
<1>10. CallsKnow'
  <2>1. new.stage # "answering" /\ new.base = version /\ new.turn = turn' /\ new.phase = phase
    OBVIOUS
  <2>2. new.stage \in {"interpreting", "validated"} => kind = "ask_npc"
    OBVIOUS
  <2>3. version \in Nat
    BY DEF TypeOK
  <2>4. CallKnows(c)'
    BY <1>1, <1>5, <1>7, <2>1, <2>2, <2>3 DEF CallKnows, AsDispatched
  <2> QED
    BY <1>5, <2>4 DEF CallsKnow, Open
<1>11. Ordered'
  BY <1>7 DEF Ordered
<1>12. NoQuestionLeftBehind'
  BY <1>1, <1>7 DEF NoQuestionLeftBehind, InFlight, Open
<1>13. RoomForAnswer'
  BY <1>7 DEF RoomForAnswer
<1>14. HandoffBlocksInput'
  BY <1>1, <1>7 DEF HandoffBlocksInput, HandoffOpen
<1> QED
  BY <1>8, <1>9, <1>10, <1>11, <1>12, <1>13, <1>14

(* The interpreter's answer moves a call on and changes nothing else.      *)
LEMMA InterpretedStep ==
    ASSUME IInv, NEW c \in Callers, calls[c].stage = "interpreting",
           NEW st \in {"working", "validated"}, Stage(c, st),
           clarified' \in BOOLEAN,
           UNCHANGED <<setup, live, game, busy, draining, snapshots, display>>
    PROVE  IInv'
<1> USE MaxSafeAssumption, NoneAssumption DEF IInv
<1>1. /\ calls' \in [Callers -> Call \cup {Idle}]
      /\ \A d \in Callers \ {c} : ~Open(d) /\ calls'[d] = Idle
      /\ Open(c) /\ calls[c] \in Call
      /\ calls'[c] \in Call /\ calls'[c] # Idle
      /\ calls'[c].stage = st /\ calls'[c].kind = calls[c].kind
      /\ calls'[c].base = calls[c].base /\ calls'[c].turn = calls[c].turn
      /\ calls'[c].phase = calls[c].phase
  BY StageKeepsOne DEF Stages
<1>2. TypeOK'
  BY <1>1 DEF TypeOK, game, display
<1>3. Exclusive'
  BY <1>1 DEF Exclusive, Open
<1>4. CallsKnow'
  <2>1. CallKnows(c)'
    BY <1>1 DEF CallsKnow, CallKnows, AsDispatched, game
  <2> QED
    BY <1>1, <2>1 DEF CallsKnow, Open
<1>5. Ordered'
  BY DEF Ordered, game
<1>6. \A d \in InFlight : calls[d].stage # "answering"
  BY <1>1 DEF InFlight, Open
<1>7. NoQuestionLeftBehind'
  BY <1>6 DEF NoQuestionLeftBehind, game
<1>8. RoomForAnswer'
  BY DEF RoomForAnswer, game
<1>9. HandoffBlocksInput'
  BY <1>1 DEF HandoffBlocksInput, HandoffOpen, InFlight, Open, game, display
<1> QED
  BY <1>2, <1>3, <1>4, <1>5, <1>7, <1>8, <1>9

(* A command that ends by replacing the state takes the next version; in   *)
(* the structured setup it leaves no question without an outcome.          *)
LEMMA CommittingEnd ==
    ASSUME IInv, NEW c \in Callers, calls[c].stage \in Stages, live, End(c),
           version < MaxSafe, version' = version + 1,
           phase' \in Phases, finished' \in BOOLEAN,
           UNCHANGED <<setup, live, turn, asked, clarified, draining, snapshots, display>>,
           answered' \subseteq answered \cup (asked \cap {version}),
           settled' \subseteq settled \cup (asked \cap {version}),
           answered' \cap settled' = {},
           setup = "structured" => asked \subseteq answered' \cup settled',
           setup # "structured" => settled' = {} /\ answered \subseteq answered'
    PROVE  IInv'
<1> USE MaxSafeAssumption, NoneAssumption DEF IInv
<1>1. /\ calls' \in [Callers -> Call \cup {Idle}]
      /\ \A d \in Callers : calls'[d] = Idle
      /\ busy' = FALSE
      /\ Open(c) /\ calls[c] \in Call
  BY EndLeavesNone
<1>2. TypeOK'
  <2>1. version' \in 0 .. MaxSafe
    BY DEF TypeOK
  <2>2. answered' \subseteq asked' /\ settled' \subseteq asked'
    BY DEF TypeOK
  <2>3. handoff' = handoff /\ pump' = pump /\ displayed' = displayed
    BY DEF display
  <2> QED
    BY <1>1, <2>1, <2>2, <2>3 DEF TypeOK
<1>3. Exclusive' /\ CallsKnow'
  BY <1>1 DEF Exclusive, CallsKnow, Open
<1>4. version \in Nat
  BY DEF TypeOK
<1>5. Ordered'
  <2>1. \A q \in asked' : q <= version'
    BY <1>4 DEF Ordered, TypeOK
  <2>2. \A q \in answered' \cup settled' : q < version'
    BY <1>4 DEF Ordered, TypeOK
  <2> QED
    BY <2>1, <2>2 DEF Ordered
<1>6. NoQuestionLeftBehind'
  BY DEF NoQuestionLeftBehind
<1>7. RoomForAnswer'
  BY DEF RoomForAnswer
<1>8. HandoffBlocksInput'
  BY <1>1 DEF HandoffBlocksInput, HandoffOpen, InFlight, Open, display
<1> QED
  BY <1>2, <1>3, <1>5, <1>6, <1>7, <1>8

(* A compatibility command commits: no structured question is pending,     *)
(* for the one command in flight is not answering.                         *)
LEMMA CompatibilityStep ==
    ASSUME IInv, NEW c \in Callers, CompatibilityCommits(c)
    PROVE  IInv'
<1> USE MaxSafeAssumption, NoneAssumption DEF IInv
<1>1. calls[c].stage = "working" /\ live /\ End(c)
  BY DEF CompatibilityCommits, Fresh
<1>2. Open(c) /\ \A d \in Callers : Open(d) => d = c
  BY <1>1 DEF Open, Idle, Exclusive
<1>3. version = calls[c].base /\ version < MaxSafe
  BY <1>1, <1>2 DEF CallsKnow, CallKnows, AsDispatched
<1>4. phase' \in Phases /\ finished' \in BOOLEAN
  <2>1. PICK o \in Outcome(calls[c].kind) : phase' = o[1] /\ finished' = o[2]
    BY DEF CompatibilityCommits
  <2>2. calls[c].kind \in Kinds
    BY <1>2 DEF TypeOK, Open, Call
  <2>3. o \in {<<"npc_response", FALSE>>, <<"day_discussion", FALSE>>,
               <<"win_check", FALSE>>, <<"win_check", TRUE>>}
    BY <2>1, <2>2 DEF Outcome, Kinds
  <2>4. \A p : \A b \in BOOLEAN : <<p, b>>[1] = p /\ <<p, b>>[2] = b
    OBVIOUS
  <2>5. /\ o[1] \in {"npc_response", "day_discussion", "win_check"}
        /\ o[2] \in {FALSE, TRUE}
    BY <2>3, <2>4, Zenon
  <2> QED
    BY <2>1, <2>5 DEF Phases
<1>5. setup = "structured" => asked \subseteq answered \cup settled
  BY <1>1, <1>2 DEF NoQuestionLeftBehind, InFlight, Open
<1>6. setup # "structured" => settled = {}
  BY DEF Ordered
<1>7. answered \cap settled = {}
  BY DEF NoQuestionLeftBehind
<1>8. /\ version' = version + 1 /\ answered' = answered /\ settled' = settled
      /\ UNCHANGED <<setup, live, turn, asked, clarified, draining, snapshots, display>>
  BY <1>3 DEF CompatibilityCommits
<1> QED
  BY <1>1, <1>3, <1>4, <1>5, <1>6, <1>7, <1>8, CommittingEnd DEF Stages

(* The player's question is committed: every earlier one has its outcome,  *)
(* and one more version is left for this one's.                            *)
LEMMA PlayerStep ==
    ASSUME IInv, NEW c \in Callers, PlayerCommits(c)
    PROVE  IInv'
<1> USE MaxSafeAssumption, NoneAssumption DEF IInv
<1>1. /\ calls[c].stage = "validated" /\ live /\ Stage(c, "answering")
      /\ version = calls[c].base /\ turn = calls[c].turn
  BY DEF PlayerCommits, Fresh
<1>2. /\ calls' \in [Callers -> Call \cup {Idle}]
      /\ \A d \in Callers \ {c} : ~Open(d) /\ calls'[d] = Idle
      /\ Open(c) /\ calls[c] \in Call
      /\ calls'[c] \in Call /\ calls'[c] # Idle
      /\ calls'[c].stage = "answering" /\ calls'[c].kind = calls[c].kind
      /\ calls'[c].base = calls[c].base /\ calls'[c].turn = calls[c].turn
      /\ calls'[c].phase = calls[c].phase
  BY <1>1, StageKeepsOne DEF Stages
<1>3. /\ version' = version + 1 /\ phase' = "player_question"
      /\ asked' = asked \cup {version + 1}
      /\ UNCHANGED <<setup, live, turn, finished, answered, settled, clarified, busy,
                     draining, snapshots, display>>
  BY <1>1 DEF PlayerCommits
<1>4. version < MaxSafe /\ (setup = "structured" => version + 2 <= MaxSafe)
  BY <1>1, <1>2 DEF CallsKnow, CallKnows
<1>5. version \in Nat /\ asked \subseteq 1 .. MaxSafe
  BY DEF TypeOK
<1>6. version + 1 \notin asked /\ version + 1 \notin answered
  BY <1>5 DEF Ordered, TypeOK
<1>7. setup = "structured" => asked \subseteq answered \cup settled
  BY <1>1, <1>2 DEF NoQuestionLeftBehind, InFlight, Open
<1>8. TypeOK'
  <2>1. version' \in 0 .. MaxSafe /\ asked' \subseteq 1 .. MaxSafe
    BY <1>3, <1>4, <1>5
  <2>2. asked \subseteq asked' /\ phase' \in Phases
    BY <1>3 DEF Phases
  <2> QED
    BY <1>2, <1>3, <2>1, <2>2 DEF TypeOK, display
<1>9. Exclusive'
  BY <1>2, <1>3 DEF Exclusive, Open
<1>10. CallsKnow'
  <2>1. CallKnows(c)'
    BY <1>1, <1>2, <1>3, <1>6 DEF CallKnows, Question
  <2> QED
    BY <1>2, <2>1 DEF CallsKnow, Open
<1>11. Ordered'
  BY <1>3, <1>5 DEF Ordered, TypeOK
<1>12. NoQuestionLeftBehind'
  <2>1. \A q \in asked' \ (answered' \cup settled') : setup = "structured" => q = version'
    BY <1>3, <1>7
  <2>2. c \in InFlight' /\ Question(c)' = version'
    BY <1>1, <1>2, <1>3 DEF InFlight, Question
  <2> QED
    BY <1>2, <1>3, <2>1, <2>2 DEF NoQuestionLeftBehind
<1>13. RoomForAnswer'
  BY <1>3, <1>4, <1>5, <1>7 DEF RoomForAnswer
<1>14. HandoffBlocksInput'
  BY <1>1, <1>2, <1>3 DEF HandoffBlocksInput, HandoffOpen, InFlight, Open, display
<1> QED
  BY <1>8, <1>9, <1>10, <1>11, <1>12, <1>13, <1>14

(* The command that awaits the question just committed is the only one,    *)
(* and the question is older than every outcome.                           *)
LEMMA AwaitedFacts ==
    ASSUME IInv, NEW c \in Callers, calls[c].stage = "answering", Awaited(c)
    PROVE  /\ Open(c) /\ \A d \in Callers : Open(d) => d = c
           /\ Question(c) = version /\ version \in asked
           /\ version \notin answered \cup settled
           /\ setup = "structured" => asked \subseteq answered \cup settled \cup {version}
<1> USE DEF IInv
<1>1. Open(c) /\ \A d \in Callers : Open(d) => d = c
  BY DEF Open, Idle, Exclusive
<1>2. Question(c) = version /\ live
  BY DEF Awaited
<1>3. Question(c) \in asked
  BY <1>1 DEF CallsKnow, CallKnows
<1>4. version \notin answered \cup settled
  BY DEF Ordered, TypeOK
<1>5. setup = "structured" => asked \subseteq answered \cup settled \cup {version}
  BY <1>2 DEF NoQuestionLeftBehind
<1> QED
  BY <1>1, <1>2, <1>3, <1>4, <1>5

(* The legacy provider's answer to a structured player commit.             *)
LEMMA ReactionStep ==
    ASSUME IInv, NEW c \in Callers, ReactionCommits(c)
    PROVE  IInv'
<1> USE MaxSafeAssumption, NoneAssumption DEF IInv
<1>1. /\ calls[c].stage = "answering" /\ setup = "committed" /\ live /\ End(c)
      /\ Awaited(c)
  BY DEF ReactionCommits, Awaited
<1>2. Question(c) = version /\ version \in asked /\ version \notin answered \cup settled
  BY <1>1, AwaitedFacts
<1>3. version' = version + 1 /\ version < MaxSafe
  <2>1. Open(c) /\ calls[c] \in Call
    BY <1>1 DEF TypeOK, Open, Idle, Stages
  <2>2. calls[c].base \in Nat /\ version \in Nat
    BY <2>1 DEF Call, TypeOK
  <2> QED
    BY <1>2, <2>2 DEF ReactionCommits, Question
<1>4. /\ phase' \in Phases /\ finished' \in BOOLEAN
      /\ answered' = answered \cup {version} /\ settled' = settled
      /\ UNCHANGED <<setup, live, turn, asked, clarified, draining, snapshots, display>>
  BY <1>2 DEF ReactionCommits, Phases, TypeOK
<1>5. answered \cap settled = {} /\ settled = {}
  BY <1>1 DEF NoQuestionLeftBehind, Ordered
<1> QED
  BY <1>1, <1>2, <1>3, <1>4, <1>5, CommittingEnd DEF Stages

(* The settlement of a question whose route has failed.                    *)
LEMMA SettlementStep ==
    ASSUME IInv, NEW c \in Callers, RouteFails(c), OwnerMatches(c)
    PROVE  IInv'
<1> USE MaxSafeAssumption, NoneAssumption DEF IInv
<1>1. /\ calls[c].stage = "answering" /\ setup = "structured" /\ live /\ End(c)
      /\ Awaited(c)
  BY DEF RouteFails, OwnerMatches, Awaited
<1>2. /\ Question(c) = version /\ version \in asked /\ version \notin answered \cup settled
      /\ asked \subseteq answered \cup settled \cup {version}
  BY <1>1, AwaitedFacts
<1>3. version' = version + 1 /\ version < MaxSafe
  BY <1>1, <1>2 DEF RouteFails, RoomForAnswer, TypeOK
<1>4. /\ phase' \in Phases /\ finished' \in BOOLEAN
      /\ answered' = answered /\ settled' = settled \cup {version}
      /\ UNCHANGED <<setup, live, turn, asked, clarified, draining, snapshots, display>>
  BY <1>2 DEF RouteFails, Phases, TypeOK
<1>5. answered \cap settled = {}
  BY DEF NoQuestionLeftBehind
<1> QED
  BY <1>1, <1>2, <1>3, <1>4, <1>5, CommittingEnd DEF Stages

(* The NPC's reaction is committed under the call that awaits it.          *)
LEMMA NpcStep ==
    ASSUME IInv, NEW q \in 1 .. MaxSafe, NpcCommits(q)
    PROVE  IInv'
<1> USE MaxSafeAssumption, NoneAssumption DEF IInv
<1>1. /\ q \in snapshots /\ q \in asked /\ q \notin answered /\ live /\ version = q
      /\ version' = version + 1 /\ answered' = answered \cup {q}
      /\ phase' = "day_discussion"
      /\ UNCHANGED <<setup, live, turn, finished, asked, settled, clarified, gates,
                     snapshots, display>>
  BY DEF NpcCommits, TypeOK
<1>2. setup = "structured" /\ q \notin settled
  BY <1>1 DEF Ordered, TypeOK
<1>3. PICK c \in InFlight : calls[c].stage = "answering" /\ Question(c) = q
  BY <1>1, <1>2 DEF NoQuestionLeftBehind
<1>4. /\ c \in Callers /\ Open(c) /\ \A d \in Callers : Open(d) => d = c
      /\ calls' = calls /\ busy' = busy /\ draining' = draining
  BY <1>1, <1>3 DEF InFlight, Open, Exclusive, gates
<1>5. version < MaxSafe
  BY <1>1, <1>2 DEF RoomForAnswer, TypeOK
<1>6. TypeOK'
  <2>1. version' \in 0 .. MaxSafe /\ phase' \in Phases
    BY <1>1, <1>5 DEF TypeOK, Phases
  <2> QED
    BY <1>1, <1>4, <2>1 DEF TypeOK, display
<1>7. Exclusive'
  BY <1>4 DEF Exclusive, Open
<1>8. CallsKnow'
  <2>1. CallKnows(c)'
    BY <1>1, <1>3, <1>4 DEF CallsKnow, CallKnows, Question
  <2> QED
    BY <1>4, <2>1 DEF CallsKnow, Open
<1>9. Ordered'
  <2>1. /\ version \in Nat /\ settled' = settled /\ setup' = setup /\ asked' = asked
        /\ \A p \in asked : p \in Nat
        /\ answered \subseteq asked /\ settled \subseteq asked
    BY <1>1 DEF TypeOK
  <2>2. \A p \in asked : p <= version'
    BY <1>1, <2>1 DEF Ordered
  <2>3. \A p \in answered' \cup settled : p < version'
    BY <1>1, <2>1 DEF Ordered
  <2> QED
    BY <1>2, <2>1, <2>2, <2>3 DEF Ordered
<1>10. NoQuestionLeftBehind'
  <2>1. asked \subseteq answered' \cup settled
    BY <1>1, <1>2 DEF NoQuestionLeftBehind
  <2> QED
    BY <1>1, <1>2, <2>1 DEF NoQuestionLeftBehind
<1>11. RoomForAnswer'
  BY <1>1 DEF RoomForAnswer
<1>12. HandoffBlocksInput'
  BY <1>1, <1>4 DEF HandoffBlocksInput, HandoffOpen, InFlight, Open, display
<1> QED
  BY <1>6, <1>7, <1>8, <1>9, <1>10, <1>11, <1>12

(* Everything that leaves the game and its calls alone: the route's        *)
(* snapshots, the display, the delivery, the drain and the end.            *)
LEMMA DisplayStep ==
    ASSUME IInv,
           \/ \E c \in Callers : RouteReads(c)
           \/ \E q \in 1 .. MaxSafe : PlayerDisplayed(q)
           \/ DeliveryStarts \/ DeliveryReturns
           \/ DrainStarts \/ DrainEnds \/ Destroy
           \/ UNCHANGED vars
    PROVE  IInv'
<1> USE MaxSafeAssumption, NoneAssumption DEF IInv
<1>1. UNCHANGED <<setup, game, clarified, busy, calls>>
  BY DEF RouteReads, PlayerDisplayed, DeliveryStarts, DeliveryReturns, DrainStarts,
         DrainEnds, Destroy, vars, gates
<1>2. draining' \in BOOLEAN /\ live' \in BOOLEAN /\ (live' => live)
  <2>1. draining' = draining \/ draining' = TRUE \/ draining' = FALSE
    BY DEF RouteReads, PlayerDisplayed, DeliveryStarts, DeliveryReturns, DrainStarts,
           DrainEnds, Destroy, vars, gates
  <2>2. live' = live \/ live' = FALSE
    BY DEF RouteReads, PlayerDisplayed, DeliveryStarts, DeliveryReturns, DrainStarts,
           DrainEnds, Destroy, vars
  <2>3. draining \in BOOLEAN /\ live \in BOOLEAN
    BY DEF TypeOK
  <2>4. draining' \in BOOLEAN
    BY <2>1, <2>3
  <2>5. live' \in BOOLEAN
    BY <2>2, <2>3
  <2>6. live' => live
    BY <2>2
  <2> QED
    BY <2>4, <2>5, <2>6
<1>3. /\ snapshots' \subseteq asked /\ displayed' \subseteq asked
      /\ setup # "structured" => snapshots' = {}
  <2>1. ASSUME NEW c \in Callers, RouteReads(c)
        PROVE  <1>3
    <3>1. Question(c) \in asked
      BY <2>1, AwaitedFacts DEF RouteReads
    <3> QED
      BY <2>1, <3>1 DEF RouteReads, display, TypeOK
  <2>2. ASSUME NEW q \in 1 .. MaxSafe, PlayerDisplayed(q)
        PROVE  <1>3
    BY <2>2 DEF PlayerDisplayed, TypeOK, Ordered
  <2>3. CASE DeliveryStarts \/ DeliveryReturns \/ DrainStarts \/ DrainEnds \/ Destroy
             \/ UNCHANGED vars
    BY <2>3 DEF DeliveryStarts, DeliveryReturns, DrainStarts, DrainEnds, Destroy, vars,
                display, TypeOK, Ordered
  <2> QED
    BY <2>1, <2>2, <2>3
<1>4. /\ handoff' \in [question : asked, state : Handoffs] \cup {None}
      /\ pump' \in [question : asked, previous : Handoffs] \cup {None}
      /\ pump' # None => handoff' # None
      /\ HandoffOpen' /\ live' => HandoffOpen /\ handoff'.question = handoff.question
  <2>1. CASE UNCHANGED <<handoff, pump>>
    BY <2>1, <1>2 DEF TypeOK, HandoffOpen
  <2>2. CASE DeliveryStarts
    <3>1. handoff \in [question : asked, state : Handoffs] /\ handoff # None
      BY <2>2 DEF DeliveryStarts, TypeOK
    <3>2. handoff' = [handoff EXCEPT !.state = "in_progress"] /\ "in_progress" \in Handoffs
      BY <2>2 DEF DeliveryStarts, HandoffTo, Handoffs
    <3>3. pump' = [question |-> handoff.question, previous |-> handoff.state]
      BY <2>2 DEF DeliveryStarts
    <3>4. HandoffOpen
      BY <2>2, <3>1 DEF DeliveryStarts, HandoffOpen
    <3>5. handoff' \in [question : asked, state : Handoffs] /\ \A q \in asked : q \in Nat
      BY <3>1, <3>2 DEF TypeOK
    <3>6. handoff' # None
      BY <3>5
    <3> QED
      BY <3>1, <3>2, <3>3, <3>4, <3>5, <3>6
  <2>3. CASE DeliveryReturns /\ ~UNCHANGED handoff
    <3>1. PICK st \in {"settled", "pending_delivery_retry", pump.previous} : HandoffTo(st)
      BY <2>3 DEF DeliveryReturns
    <3>2. /\ pump \in [question : asked, previous : Handoffs] /\ pump' = None
          /\ handoff.state = "in_progress"
      BY <2>3 DEF DeliveryReturns, TypeOK
    <3>3. handoff # None
      BY <2>3 DEF DeliveryReturns, TypeOK
    <3>4. handoff \in [question : asked, state : Handoffs] /\ st \in Handoffs
      BY <3>2, <3>3 DEF TypeOK, Handoffs
    <3> QED
      BY <3>1, <3>2, <3>3, <3>4 DEF HandoffTo, HandoffOpen
  <2>4. CASE Destroy /\ ~UNCHANGED handoff
    <3>1. handoff \in [question : asked, state : Handoffs] /\ "abandoned" \in Handoffs
      BY <2>4 DEF Destroy, TypeOK, Handoffs
    <3> QED
      BY <2>4, <3>1 DEF Destroy, HandoffTo, TypeOK
  <2>5. CASE DeliveryReturns /\ UNCHANGED handoff
    BY <2>5, <1>2 DEF DeliveryReturns, HandoffOpen, TypeOK
  <2> QED
    BY <2>1, <2>2, <2>3, <2>4, <2>5
       DEF RouteReads, PlayerDisplayed, DrainStarts, DrainEnds, Destroy, vars, display
<1>5. TypeOK'
  BY <1>1, <1>2, <1>3, <1>4 DEF TypeOK, game
<1>6. Exclusive' /\ CallsKnow' /\ Ordered'
  BY <1>1, <1>3 DEF Exclusive, CallsKnow, CallKnows, AsDispatched, Question, Open, Ordered,
                    game
<1>7. NoQuestionLeftBehind' /\ RoomForAnswer'
  BY <1>1, <1>2 DEF NoQuestionLeftBehind, RoomForAnswer, InFlight, Question, game
<1>8. HandoffBlocksInput'
  BY <1>1, <1>2, <1>4 DEF HandoffBlocksInput, InFlight, game
<1> QED
  BY <1>5, <1>6, <1>7, <1>8

-----------------------------------------------------------------------------
(* Every step of the engine and its callers preserves the invariant.       *)
LEMMA StepInvariant == IInv /\ [Next]_vars => IInv'
<1> SUFFICES ASSUME IInv, [Next]_vars PROVE IInv'
  OBVIOUS
<1>1. ASSUME NEW c \in Callers, NEW kind \in Kinds, NEW k \in BOOLEAN, Dispatch(c, kind, k)
      PROVE  IInv'
  BY <1>1, DispatchStep
<1>2. ASSUME NEW c \in Callers, InterpreterValidates(c)
      PROVE  IInv'
  <2>1. clarified' \in BOOLEAN
    BY <1>2 DEF InterpreterValidates, IInv, TypeOK
  <2>2. PICK st \in {"working", "validated"} : Stage(c, st)
    BY <1>2 DEF InterpreterValidates
  <2> QED
    BY <1>2, <2>1, <2>2, InterpretedStep DEF InterpreterValidates
<1>3. ASSUME NEW c \in Callers, InterpreterDeclines(c)
      PROVE  IInv'
  <2>1. calls[c].stage = "interpreting"
    BY <1>3 DEF InterpreterDeclines
  <2>2. clarified' \in BOOLEAN
    BY <1>3 DEF InterpreterDeclines, IInv, TypeOK
  <2>3. UNCHANGED <<setup, live, game, draining, snapshots, display>>
    BY <1>3 DEF InterpreterDeclines
  <2>4. CASE End(c)
    BY <2>1, <2>2, <2>3, <2>4, QuietEnd DEF Stages, display
  <2>5. CASE Stage(c, "working") /\ UNCHANGED busy
    BY <2>1, <2>2, <2>3, <2>5, InterpretedStep
  <2> QED
    BY <1>3, <2>4, <2>5 DEF InterpreterDeclines
<1>4. ASSUME NEW c \in Callers,
             InterpreterThrows(c) \/ CompatibilityFails(c) \/ PlayerCommitFails(c)
               \/ ReactionFails(c)
      PROVE  IInv'
  <2>1. /\ calls[c].stage \in Stages /\ End(c)
        /\ setup = "structured" => calls[c].stage # "answering"
    BY <1>4 DEF InterpreterThrows, CompatibilityFails, PlayerCommitFails, ReactionFails, Stages
  <2>2. clarified' = clarified /\ UNCHANGED <<setup, live, game, draining, snapshots, display>>
    BY <1>4 DEF InterpreterThrows, CompatibilityFails, PlayerCommitFails, ReactionFails
  <2>3. clarified' \in BOOLEAN
    BY <2>2 DEF IInv, TypeOK
  <2> QED
    BY <2>1, <2>2, <2>3, QuietEnd DEF display
<1>5. ASSUME NEW c \in Callers, CompatibilityCommits(c)
      PROVE  IInv'
  BY <1>5, CompatibilityStep
<1>6. ASSUME NEW c \in Callers, PlayerCommits(c)
      PROVE  IInv'
  BY <1>6, PlayerStep
<1>7. ASSUME NEW c \in Callers, ReactionCommits(c)
      PROVE  IInv'
  BY <1>7, ReactionStep
<1>8. ASSUME NEW c \in Callers, RouteCommitted(c)
      PROVE  IInv'
  <2>1. /\ calls[c].stage = "answering" /\ End(c) /\ Question(c) \in answered
        /\ UNCHANGED <<setup, live, game, draining, snapshots, displayed, pump>>
        /\ \/ UNCHANGED handoff
           \/ handoff' = [question |-> Question(c), state |-> "pending_player_display"]
    BY <1>8 DEF RouteCommitted
  <2>2. clarified' \in BOOLEAN
    BY <1>8 DEF RouteCommitted, IInv, TypeOK
  <2> QED
    BY <2>1, <2>2, QuietEnd DEF Stages
<1>9. ASSUME NEW c \in Callers, RouteFails(c)
      PROVE  IInv'
  <2>1. CASE OwnerMatches(c)
    BY <1>9, <2>1, SettlementStep
  <2>2. CASE ~OwnerMatches(c)
    <3>1. /\ calls[c].stage = "answering" /\ End(c)
          /\ UNCHANGED <<setup, live, game, draining, snapshots, display>>
      BY <1>9, <2>2 DEF RouteFails, game
    <3>2. clarified' \in BOOLEAN
      BY <1>9 DEF RouteFails, IInv, TypeOK
    <3>3. Open(c)
      BY <3>1 DEF Open, Idle
    <3>4. CallKnows(c)
      BY <3>3 DEF IInv, CallsKnow
    <3>5. setup = "structured" /\ live => Question(c) \in answered \cup settled
      BY <2>2, <3>1, <3>4 DEF CallKnows, OwnerMatches, Awaited, IInv, NoQuestionLeftBehind
    <3> QED
      BY <3>1, <3>2, <3>5, QuietEnd DEF Stages, display
  <2> QED
    BY <2>1, <2>2
<1>10. ASSUME NEW q \in 1 .. MaxSafe, NpcCommits(q)
       PROVE  IInv'
  BY <1>10, NpcStep
<1>11. CASE \/ \E c \in Callers : RouteReads(c)
            \/ \E q \in 1 .. MaxSafe : PlayerDisplayed(q)
            \/ DeliveryStarts \/ DeliveryReturns
            \/ DrainStarts \/ DrainEnds \/ Destroy
            \/ UNCHANGED vars
  BY <1>11, DisplayStep
<1> QED
  BY <1>1, <1>2, <1>3, <1>4, <1>5, <1>6, <1>7, <1>8, <1>9, <1>10, <1>11
     DEF Next, Proceeds

(* The inductive invariant holds of every behaviour.                       *)
THEOREM Invariance == Spec => []IInv
<1> QED
  BY InitInvariant, StepInvariant, PTL DEF Spec

(* Versions and turns never pass the last safe integer, and what the route *)
(* and the display know are questions that were committed.                 *)
THEOREM TypeCorrect == Spec => []TypeOK
<1>1. IInv => TypeOK
  BY DEF IInv
<1> QED
  BY <1>1, Invariance, PTL

(* Commands never overlap, and in a live game nothing moves the version,   *)
(* the turn or the phase from under a command that awaits a provider.      *)
THEOREM CommandsAreCurrent == Spec => []CommandStaysCurrent
<1>1. IInv => CommandStaysCurrent
  <2> SUFFICES ASSUME IInv PROVE CommandStaysCurrent
    OBVIOUS
  <2>1. \A c, d \in InFlight : c = d
    BY DEF IInv, Exclusive, InFlight, Open
  <2>2. Cardinality(InFlight) <= 1
    <3>1. CASE InFlight = {}
      BY <3>1, FS_EmptySet
    <3>2. CASE InFlight # {}
      <4>1. PICK c \in InFlight : InFlight = {c}
        BY <2>1, <3>2
      <4> QED
        BY <4>1, FS_Singleton
    <3> QED
      BY <3>1, <3>2
  <2>3. busy = (InFlight # {})
    BY DEF IInv, Exclusive, InFlight, Open
  <2>4. \A c \in InFlight : calls[c].stage # "answering" => AsDispatched(c)
    BY DEF IInv, CallsKnow, CallKnows, InFlight, Open
  <2> QED
    BY <2>2, <2>3, <2>4 DEF CommandStaysCurrent
<1> QED
  BY <1>1, Invariance, PTL

(* Every structured question gets one outcome, an answer or a settlement,  *)
(* before its command returns.                                             *)
THEOREM QuestionsAreSettled == Spec => []NoQuestionLeftBehind
<1>1. IInv => NoQuestionLeftBehind
  BY DEF IInv
<1> QED
  BY <1>1, Invariance, PTL

(* An admitted structured question has a version left for its outcome,     *)
(* wherever the safe integers end.                                         *)
THEOREM AnswerHasRoom == Spec => []RoomForAnswer
<1>1. IInv => RoomForAnswer
  BY DEF IInv
<1> QED
  BY <1>1, Invariance, PTL

(* While an NPC's answer waits for its display no command runs, and the    *)
(* game stays the one the answer was committed to.                         *)
THEOREM InputIsHeld == Spec => []HandoffBlocksInput
<1>1. IInv => HandoffBlocksInput
  BY DEF IInv
<1> QED
  BY <1>1, Invariance, PTL

(* Every replacement of the state takes the next version, in a live game.  *)
THEOREM StateIsGuarded == Spec => CommittedStateIsGuarded
<1> DEFINE state == <<phase, finished, asked, answered, settled>>
           Guarded == state' # state => live /\ version' = version + 1
<1>1. IInv /\ [Next]_vars => [Guarded]_vars
  <2> SUFFICES ASSUME IInv, Next PROVE Guarded
    BY DEF vars
  <2>1. ASSUME NEW c \in Callers, CompatibilityCommits(c) \/ PlayerCommits(c)
        PROVE  Guarded
    BY <2>1 DEF CompatibilityCommits, PlayerCommits, Fresh
  <2>2. ASSUME NEW c \in Callers, ReactionCommits(c)
        PROVE  Guarded
    <3>1. calls[c].stage = "answering" /\ Awaited(c) /\ version' = calls[c].base + 2
      BY <2>2 DEF ReactionCommits
    <3>2. calls[c] \in Call
      BY <3>1 DEF IInv, TypeOK, Idle
    <3>3. version = calls[c].base + 1 /\ calls[c].base \in Nat /\ live
      BY <3>1, <3>2 DEF Awaited, Question, Call
    <3> QED
      BY <3>1, <3>3
  <2>3. ASSUME NEW c \in Callers, RouteFails(c)
        PROVE  Guarded
    BY <2>3 DEF RouteFails, OwnerMatches, Awaited
  <2>4. ASSUME NEW q \in 1 .. MaxSafe, NpcCommits(q)
        PROVE  Guarded
    BY <2>4 DEF NpcCommits
  <2>5. ASSUME NEW c \in Callers, NEW kind \in Kinds, NEW k \in BOOLEAN, Dispatch(c, kind, k)
        PROVE  Guarded
    BY <2>5 DEF Dispatch
  <2>6. ASSUME NEW c \in Callers,
               \/ InterpreterValidates(c) \/ InterpreterDeclines(c) \/ InterpreterThrows(c)
               \/ CompatibilityFails(c) \/ PlayerCommitFails(c) \/ ReactionFails(c)
               \/ RouteCommitted(c) \/ RouteReads(c)
        PROVE  Guarded
    BY <2>6 DEF InterpreterValidates, InterpreterDeclines, InterpreterThrows,
       CompatibilityFails, PlayerCommitFails, ReactionFails, RouteCommitted, RouteReads, game
  <2>7. CASE \/ \E q \in 1 .. MaxSafe : PlayerDisplayed(q)
             \/ DeliveryStarts \/ DeliveryReturns \/ DrainStarts \/ DrainEnds \/ Destroy
    BY <2>7 DEF PlayerDisplayed, DeliveryStarts, DeliveryReturns, DrainStarts, DrainEnds,
                Destroy, game
  <2> QED
    BY <2>1, <2>2, <2>3, <2>4, <2>5, <2>6, <2>7 DEF Next, Proceeds
<1> QED
  BY <1>1, Invariance, PTL DEF Spec, CommittedStateIsGuarded

=============================================================================
