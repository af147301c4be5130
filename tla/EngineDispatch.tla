---------------------------- MODULE EngineDispatch ----------------------------
(***************************************************************************)
(* How WerewolfGame (src/src/gameEngine.mjs) runs player commands:         *)
(* dispatchPlayerAction with its awaits on the interpreter, the response   *)
(* provider and the structured NPC route; the optimistic version checks    *)
(* that guard every replacement of the live state; the settlement of a     *)
(* question whose NPC never answers; the handoff that closes the input     *)
(* until the NPC's answer is on display; and destroy() at any moment.      *)
(*                                                                         *)
(* What a vote or a night does to the players is in WerewolfRules; here a  *)
(* command is its stateVersion, phase and turn.  The route and the         *)
(* delivery are callers: the route reads a snapshot and commits through    *)
(* the authority port, whenever it likes once it has been started.  The    *)
(* handoff generation changes in destroy() alone, together with            *)
(* _destroyed, so it is not kept apart.  Injected faults are left out.     *)
(***************************************************************************)
EXTENDS Integers, FiniteSets

CONSTANTS
    Callers,   \* callers of dispatchPlayerAction, each with one call at a time
    Setups,    \* which of the setups below a game may be created with
    MaxSafe,   \* Number.MAX_SAFE_INTEGER, and so the bound of a game
    None       \* JavaScript's null

(* What is enabled: nothing; the interpreter as an observer; structured    *)
(* commits of the player's question; and structured NPC reactions too.     *)
AllSetups == {"compatibility", "observed", "committed", "structured"}
Kinds     == {"ask_npc", "advance_vote", "run_night"}
Phases    == {"day_discussion", "player_question", "npc_response", "win_check"}
Handoffs  == {"pending_player_display", "pending_delivery_retry", "in_progress",
              "settled", "abandoned"}

ASSUME SetupsAssumption == Setups \subseteq AllSetups /\ Setups # {}
ASSUME MaxSafeAssumption == MaxSafe \in Nat
ASSUME NoneAssumption == None \notin Nat /\ None \notin [question : Nat, state : Handoffs]

VARIABLES
    setup, live,          \* options of the constructor; ~_destroyed
    version, turn, phase, \* stateVersion, turnOrder (with turnId), phase
    finished,             \* state.winner is set
    clarified,            \* the audit holds a clarification of this turn
    draining,             \* the player publications' consumer is draining
    busy,                 \* _commandInProgress
    calls,                \* the calls in flight
    asked,                \* player questions committed, by their version
    answered,             \* those with a committed NPC reaction
    settled,              \* those settled after their NPC failed
    snapshots,            \* those the route has read a snapshot for
    displayed,            \* those whose player publication is settled
    handoff,              \* _npcStructuredDeliveryHandoff
    pump                  \* the NPC delivery under way: [question, previous]

game    == <<version, turn, phase, finished, asked, answered, settled>>
gates   == <<busy, calls, draining>>
display == <<displayed, handoff, pump>>
vars    == <<setup, live, game, clarified, gates, snapshots, display>>

Idle == [stage |-> "idle"]
Stages == {"interpreting", "validated", "working", "answering"}

Init ==
    /\ setup \in Setups /\ live = TRUE
    /\ version = 0 /\ turn = 0 /\ phase = "day_discussion"
    /\ finished = FALSE /\ clarified = FALSE
    /\ draining = FALSE /\ busy = FALSE
    /\ calls = [c \in Callers |-> Idle]
    /\ asked = {} /\ answered = {} /\ settled = {}
    /\ snapshots = {} /\ displayed = {}
    /\ handoff = None /\ pump = None

-----------------------------------------------------------------------------
(* dispatchPlayerAction up to its first await *)

HandoffOpen ==
    /\ handoff # None
    /\ handoff.state \in {"pending_player_display", "pending_delivery_retry", "in_progress"}

HasRoom(kind) ==
    /\ version < MaxSafe
    /\ kind = "ask_npc" /\ setup = "structured" => version <= MaxSafe - 2

(* Defect: a command starts while the NPC's answer waits for its display.  *)
AdmittedDuringHandoff(kind) ==
    live /\ ~draining /\ ~finished /\ ~busy /\ HasRoom(kind) /\ turn < MaxSafe

(* Defect: a command starts while another one awaits.                      *)
AdmittedWhileBusy(kind) ==
    live /\ ~HandoffOpen /\ ~draining /\ ~finished /\ HasRoom(kind) /\ turn < MaxSafe

(* That the game lives is a check of modeState(), which is asked for the   *)
(* drain: destroy() has invalidated the player delivery, and it throws.    *)
Admitted(kind) ==
    live /\ ~HandoffOpen /\ ~draining /\ ~finished /\ ~busy /\ HasRoom(kind)
         /\ turn < MaxSafe

Stage(c, st) == calls' = [calls EXCEPT ![c].stage = st]
End(c) == calls' = [calls EXCEPT ![c] = Idle] /\ busy' = FALSE

(* A new command takes a new turn, which it keeps even if it fails; the    *)
(* continuation of a clarification stays in the turn of its clarification. *)
Dispatch(c, kind, continuation) ==
    /\ calls[c] = Idle
    /\ Admitted(kind)
    /\ continuation => kind = "ask_npc" /\ clarified
    /\ turn' = IF continuation THEN turn ELSE turn + 1
    /\ clarified' = (clarified /\ continuation)
    /\ busy' = TRUE
    /\ calls' = [calls EXCEPT ![c] =
         [stage |-> IF kind = "ask_npc" /\ setup # "compatibility"
                    THEN "interpreting" ELSE "working",
          kind |-> kind, base |-> version, turn |-> turn', phase |-> phase]]
    /\ UNCHANGED <<setup, live, version, phase, finished, asked, answered, settled,
                   draining, snapshots, display>>

-----------------------------------------------------------------------------
(* The interpreter's answer.  An answer to a state that has moved on is    *)
(* stale, and questions are understood during the discussion only.         *)

AsDispatched(c) ==
    version = calls[c].base /\ turn = calls[c].turn /\ phase = calls[c].phase

InterpreterValidates(c) ==
    /\ calls[c].stage = "interpreting" /\ live
    /\ AsDispatched(c) /\ phase = "day_discussion"
    /\ Stage(c, IF setup = "observed" THEN "working" ELSE "validated")
    /\ UNCHANGED <<setup, live, game, clarified, busy, draining, snapshots, display>>

(* Anything else ends a structured question; the other setups go on with   *)
(* the compatibility path.                                                 *)
InterpreterDeclines(c) ==
    /\ calls[c].stage = "interpreting" /\ live
    /\ \/ AsDispatched(c) /\ clarified' = TRUE
       \/ UNCHANGED clarified
    /\ IF setup = "structured" THEN End(c) ELSE Stage(c, "working") /\ UNCHANGED busy
    /\ UNCHANGED <<setup, live, game, draining, snapshots, display>>

InterpreterThrows(c) ==
    /\ calls[c].stage = "interpreting"
    /\ End(c)
    /\ UNCHANGED <<setup, live, game, clarified, draining, snapshots, display>>

-----------------------------------------------------------------------------
(* The three replacements of the live state by a command *)

Fresh(c) == live /\ version = calls[c].base /\ turn = calls[c].turn

(* _executeCompatibilityAction on a working copy, then commitState.        *)
Outcome(kind) ==
    CASE kind = "ask_npc"      -> {<<"npc_response", FALSE>>, <<"day_discussion", FALSE>>}
      [] kind = "advance_vote" -> {<<"win_check", FALSE>>, <<"win_check", TRUE>>}
      [] kind = "run_night"    -> {<<"day_discussion", FALSE>>, <<"win_check", TRUE>>}

CompatibilityCommits(c) ==
    /\ calls[c].stage = "working" /\ Fresh(c)
    /\ \E o \in Outcome(calls[c].kind) : phase' = o[1] /\ finished' = o[2]
    /\ version' = calls[c].base + 1
    /\ End(c)
    /\ UNCHANGED <<setup, live, turn, asked, answered, settled, clarified, draining,
                   snapshots, display>>

CompatibilityFails(c) ==
    /\ calls[c].stage = "working"
    /\ End(c)
    /\ UNCHANGED <<setup, live, game, clarified, draining, snapshots, display>>

(* The player's side of a structured question; the NPC is asked next.      *)
PlayerCommits(c) ==
    /\ calls[c].stage = "validated" /\ Fresh(c) /\ phase = calls[c].phase
    /\ version' = calls[c].base + 1 /\ phase' = "player_question"
    /\ asked' = asked \cup {version'}
    /\ Stage(c, "answering")
    /\ UNCHANGED <<setup, live, turn, finished, answered, settled, clarified, busy,
                   draining, snapshots, display>>

PlayerCommitFails(c) ==
    /\ calls[c].stage = "validated"
    /\ End(c)
    /\ UNCHANGED <<setup, live, game, clarified, draining, snapshots, display>>

Question(c) == calls[c].base + 1

(* Without the NPC route the legacy provider answers.  A version beyond    *)
(* the last safe integer is refused by the validation of the state.        *)
Awaited(c) ==
    live /\ version = Question(c) /\ turn = calls[c].turn /\ phase = "player_question"

(* Defect: the second version of a question is not validated.              *)
ReactionUnchecked(c) ==
    /\ calls[c].stage = "answering" /\ setup = "committed"
    /\ Awaited(c)
    /\ version' = calls[c].base + 2 /\ phase' = "npc_response"
    /\ answered' = answered \cup {Question(c)}
    /\ End(c)
    /\ UNCHANGED <<setup, live, turn, finished, asked, settled, clarified, draining,
                   snapshots, display>>

ReactionCommits(c) ==
    /\ calls[c].stage = "answering" /\ setup = "committed"
    /\ Awaited(c)
    /\ version' = calls[c].base + 2 /\ version' <= MaxSafe
    /\ phase' = "npc_response"
    /\ answered' = answered \cup {Question(c)}
    /\ End(c)
    /\ UNCHANGED <<setup, live, turn, finished, asked, settled, clarified, draining,
                   snapshots, display>>

ReactionFails(c) ==
    /\ calls[c].stage = "answering" /\ setup = "committed"
    /\ End(c)
    /\ UNCHANGED <<setup, live, game, clarified, draining, snapshots, display>>

-----------------------------------------------------------------------------
(* The structured NPC route at the authority port *)

RouteReads(c) ==
    /\ calls[c].stage = "answering" /\ setup = "structured"
    /\ Awaited(c) /\ Question(c) \notin answered
    /\ snapshots' = snapshots \cup {Question(c)}
    /\ UNCHANGED <<setup, live, game, clarified, gates, display>>

NpcCommits(q) ==
    /\ q \in snapshots \ answered
    /\ live /\ version = q /\ phase = "player_question"
    /\ version' = version + 1 /\ phase' = "day_discussion"
    /\ answered' = answered \cup {q}
    /\ UNCHANGED <<setup, live, turn, finished, asked, settled, clarified, gates,
                   snapshots, display>>

(* The route reports a commit.  An older handoff still open refuses it.    *)
RouteCommitted(c) ==
    /\ calls[c].stage = "answering" /\ setup = "structured"
    /\ Question(c) \in answered
    /\ handoff' = IF HandoffOpen THEN handoff
                  ELSE [question |-> Question(c), state |-> "pending_player_display"]
    /\ End(c)
    /\ UNCHANGED <<setup, live, game, clarified, draining, snapshots, displayed, pump>>

(* Defect: a lost owner still settles.                                     *)
OwnerIgnoresVersion(c) == live /\ turn = calls[c].turn

OwnerMatches(c) == Awaited(c) /\ Question(c) \notin answered

(* Defect: a failure leaves an open question to a late commit.             *)
RouteFailureWaits(c) ==
    /\ calls[c].stage = "answering" /\ setup = "structured"
    /\ ~OwnerMatches(c)
    /\ End(c)
    /\ UNCHANGED <<setup, live, game, clarified, draining, snapshots, display>>

(* The route throws or reports a failure, perhaps after it has committed:  *)
(* the question is settled unless its owner is lost.                       *)
RouteFails(c) ==
    /\ calls[c].stage = "answering" /\ setup = "structured"
    /\ \/ /\ OwnerMatches(c)
          /\ version' = version + 1 /\ phase' = "day_discussion"
          /\ settled' = settled \cup {Question(c)}
       \/ /\ ~OwnerMatches(c)
          /\ UNCHANGED <<version, phase, settled>>
    /\ End(c)
    /\ UNCHANGED <<setup, live, turn, finished, asked, answered, clarified, draining,
                   snapshots, display>>

-----------------------------------------------------------------------------
(* The display of the player's publication, the NPC's delivery after it,   *)
(* the switch of the consumer mode, and the end of the session             *)

PlayerDisplayed(q) ==
    /\ live /\ q \in asked \ displayed
    /\ displayed' = displayed \cup {q}
    /\ UNCHANGED <<setup, live, game, clarified, gates, snapshots, handoff, pump>>

HandoffTo(st) == handoff' = [handoff EXCEPT !.state = st]

(* completeNpcStructuredReactionDeliveryAfterPlayerDisplay *)
DeliveryStarts ==
    /\ live /\ handoff # None /\ handoff.question \in displayed
    /\ handoff.state \in {"pending_player_display", "pending_delivery_retry"}
    /\ pump' = [question |-> handoff.question, previous |-> handoff.state]
    /\ HandoffTo("in_progress")
    /\ UNCHANGED <<setup, live, game, clarified, gates, snapshots, displayed>>

DeliveryReturns ==
    /\ pump # None /\ pump' = None
    /\ IF live /\ handoff.question = pump.question /\ handoff.state = "in_progress"
       THEN \E st \in {"settled", "pending_delivery_retry", pump.previous} : HandoffTo(st)
       ELSE UNCHANGED handoff
    /\ UNCHANGED <<setup, live, game, clarified, gates, snapshots, displayed>>

DrainStarts ==
    /\ live /\ ~busy /\ ~draining /\ setup \in {"committed", "structured"}
    /\ draining' = TRUE
    /\ UNCHANGED <<setup, live, game, clarified, busy, calls, snapshots, display>>

DrainEnds ==
    /\ live /\ draining /\ draining' = FALSE
    /\ UNCHANGED <<setup, live, game, clarified, busy, calls, snapshots, display>>

Destroy ==
    /\ live /\ live' = FALSE
    /\ IF handoff # None /\ handoff.state # "settled"
       THEN HandoffTo("abandoned") ELSE UNCHANGED handoff
    /\ UNCHANGED <<setup, game, clarified, gates, snapshots, displayed, pump>>

-----------------------------------------------------------------------------
Proceeds(c) ==
    \/ InterpreterValidates(c) \/ InterpreterDeclines(c) \/ InterpreterThrows(c)
    \/ CompatibilityCommits(c) \/ CompatibilityFails(c)
    \/ PlayerCommits(c) \/ PlayerCommitFails(c)
    \/ ReactionCommits(c) \/ ReactionFails(c)
    \/ RouteCommitted(c) \/ RouteFails(c)

Next ==
    \/ \E c \in Callers :
         \/ \E kind \in Kinds, continuation \in BOOLEAN : Dispatch(c, kind, continuation)
         \/ Proceeds(c)
         \/ RouteReads(c)
    \/ \E q \in 1 .. MaxSafe : NpcCommits(q) \/ PlayerDisplayed(q)
    \/ DeliveryStarts \/ DeliveryReturns \/ DrainStarts \/ DrainEnds \/ Destroy

(* destroy() resets the route.  A route that was in a back-off has lost    *)
(* the timer which alone resolves its wait, and never returns to the       *)
(* command; one that was not may still return.                             *)
OnResetRoute(c) ==
    ~live /\ setup = "structured" /\ calls[c].stage = "answering"

(* Every other await of a command ends: the interpreter and the providers  *)
(* have timeouts and are aborted by destroy(), and the route of a living   *)
(* game has a deadline.                                                    *)
Spec ==
    /\ Init /\ [][Next]_vars
    /\ \A c \in Callers : WF_vars(Proceeds(c) /\ ~OnResetRoute(c))

-----------------------------------------------------------------------------
Call == [stage : Stages, kind : Kinds, base : Nat, turn : Nat, phase : Phases]

TypeOK ==
    /\ setup \in AllSetups /\ live \in BOOLEAN
    /\ version \in 0 .. MaxSafe /\ turn \in 0 .. MaxSafe /\ phase \in Phases
    /\ finished \in BOOLEAN /\ clarified \in BOOLEAN
    /\ draining \in BOOLEAN /\ busy \in BOOLEAN
    /\ calls \in [Callers -> Call \cup {Idle}]
    /\ asked \subseteq 1 .. MaxSafe /\ answered \subseteq asked /\ settled \subseteq asked
    /\ snapshots \subseteq asked /\ displayed \subseteq asked
    /\ handoff \in [question : asked, state : Handoffs] \cup {None}
    /\ pump \in [question : asked, previous : Handoffs] \cup {None}
    /\ pump # None => handoff # None

InFlight == {c \in Callers : calls[c] # Idle}

(* Commands never overlap, whatever they await, and nothing moves the      *)
(* version, turn or phase from under one: in a live game its precondition  *)
(* check cannot fail, so no answer of a provider is wasted.                *)
CommandStaysCurrent ==
    /\ Cardinality(InFlight) <= 1
    /\ busy = (InFlight # {})
    /\ live => \A c \in InFlight : calls[c].stage # "answering" => AsDispatched(c)

(* A structured question gets one outcome, and gets it before its command  *)
(* returns: an NPC's answer or a settlement, never both, and never a game  *)
(* left in player_question, where no further question is understood.       *)
NoQuestionLeftBehind ==
    /\ answered \cap settled = {}
    /\ live /\ setup = "structured" =>
         \A q \in asked \ (answered \cup settled) :
            /\ version = q /\ phase = "player_question"
            /\ \E c \in InFlight : calls[c].stage = "answering" /\ Question(c) = q

(* A structured question that was admitted has a version left for its      *)
(* outcome, up to the last safe integer.                                   *)
RoomForAnswer ==
    setup = "structured" =>
        \A q \in asked \ (answered \cup settled) : q + 1 <= MaxSafe

(* While the NPC's answer waits for its display no command runs, and the   *)
(* game stays the one that answer was committed to.                        *)
HandoffBlocksInput ==
    live /\ HandoffOpen =>
        /\ InFlight = {}
        /\ handoff.question \in answered /\ version = handoff.question + 1

(* Every replacement of the live state takes the next version, and none    *)
(* happens once the game is destroyed, however late an answer comes.       *)
CommittedStateIsGuarded ==
    [][<<phase, finished, asked, answered, settled>>' #
         <<phase, finished, asked, answered, settled>>
       => live /\ version' = version + 1]_vars

(* Every command of a living game ends and gives the input back, and so    *)
(* does every command of a game that is destroyed meanwhile, unless it is  *)
(* waiting for the NPC route, which the reset may have left without the    *)
(* timer it sleeps on.                                                     *)
CommandEnds ==
    \A c \in Callers : calls[c] # Idle ~> calls[c] = Idle \/ OnResetRoute(c)

=============================================================================
