# A verification project for the LLM werewolf game

This directory holds TLA+ modules that model the game engine under `src/src/`,
the TLC configurations that check them on small instances, and theorems about
them whose proofs TLAPS checks for every value of the constants.

## 1. The system

A single player talks to five NPCs.  `WerewolfGame` (`gameEngine.mjs`) owns the
authoritative state and runs one player command at a time.  Around it stand the
interpreter and the response providers (network calls), an optional structured
pipeline that commits the player's question and then the NPC's reaction as two
versions of the state, and the controllers that bring what was committed to a
browser or a terminal.

| component | state it keeps | operations | it talks to |
|---|---|---|---|
| game rules (`gameEngine.mjs`, `responseGenerator.mjs`) | roles, living and dead, suspicions, the seer's results, claims, votes, phase, day, winner | `handlePlayerQuestion`, `runVote`, `runNight` | called on a working copy of the state by the dispatch |
| command dispatch (`gameEngine.mjs`, `interpreterValidation.mjs`) | `stateVersion`, turn, `_commandInProgress`, `_npcStructuredDeliveryHandoff`, `_destroyed` | `dispatchPlayerAction`, the authority port, the settlement, the handoff, `destroy` | awaits interpreter, provider, NPC route; asks the player delivery whether it drains |
| player publication delivery (`playerPublicationDelivery.mjs`, `playerDisplaySink.mjs`) | consumer mode and generation, cutover, transition, attempts, acknowledgements, evidence | `requestMode`, `completeTransition`, `cancelTransition`, `prepare`, `begin`, `complete`, `fail`, `acknowledge`, `recordPreCutoverEvidence`, `invalidate` | reads the committed publications and `isQuiescent` of the engine; a sink writes |
| NPC reaction coordinator (`npcReactionCoordinator.mjs`) | live reactions, their attempts, slot reservations, tombstones, terminal order | create, receive, observe, terminalize, clean up | called by the route |
| structured reaction route (`npcStructuredReactionRoute.mjs`) | the operation in progress, its generation and timers, cleanups still owed | execute, cancel, retry cleanup, reset | coordinator, candidate transport, authority port |
| candidate provider (`npcReactionCandidateTransport.mjs`, `npcReactionCandidateProvider.mjs`, `npcReactionCandidateUpstream.mjs`) | the call and its timer, places in flight | call, time out, abort, settle | called by the route; fetches |
| the two commits (`playerConversationCommit.mjs`, `npcReactionPreparation.mjs`, `npcReactionAuthorityTranslation.mjs`, `npcReactionAuthoritativeCommit.mjs`, `gameEngine.mjs`) | `state.conversation`: statements, claims, answers, the counters of orders and slots | commit a statement, give out a snapshot, prepare, commit, settle | written by the dispatch and by the authority port |
| NPC publication delivery (`npcPublicationDelivery.mjs`, `npcPublicationDeliveryOrchestrator.mjs`, `npcProductionIntegration.mjs`) | records per publication, retry tokens, pending route status | discover, begin, complete, fail, retry, acknowledge, replace the consumer, reset | reads committed graphs; a sink writes |
| candidate validation, conversation contracts | none of their own | validate proposals, claims and their references | the route, both commits |
| legacy providers, server, front ends, observation ledger, random numbers | mostly I/O | | |

What is hard in it:

* **await gaps.** A command reads a version and a turn, awaits, and commits
  afterwards; the game may be destroyed or asked for something else meanwhile.
* **two-step commits.** A structured question is committed at version N+1
  before anyone knows whether the NPC will answer; the answer takes N+2, and so
  does the settlement when the answer fails.  A question with neither leaves the
  game in `player_question`, in which the interpreter understands no question.
* **the handoff.** The NPC's answer must be displayed after the player's row;
  until then all input is refused.
* **the consumer switch.** Rows published before the switch to the structured
  consumer are drained as legacy rows, while writes fail, answer late, or
  answer to a session that is gone.
* **protocol freedom.** The rules do not tie votes to a phase or a day: any
  sequence of questions, votes and nights is legal.
* **late sinks.** A sink is cut off fifteen seconds after it was called, and may
  show its answer before, after or never; whether it may be called again depends
  on what it can prove.
* **retries kept in three places.** The controller has tokens, the orchestrator
  retries that stand for them, and the integration the one it will ask for.
* **five ends for one reaction.** Deadline, candidate, cancellation, reset and an
  exception race; the route, the coordinator and the conversation must agree
  which one it was, also when the commit stands and its cleanup failed.
* **two writers.** The player's commit draws orders when it is made, the NPC's
  when it is prepared, and a prepared reaction may be handed in late, twice, or
  after another one's.
* **abandoned fetches.** A call the route has given up holds its place at the
  upstream until its fetch settles.
* **limits.** Versions and turns stop at `Number.MAX_SAFE_INTEGER`.

Correctness, per component, in a sentence: the rules never throw, never lie to
or about the seer, and end in time; the dispatch never overlaps commands,
never commits to a state it has not read, and never leaves a question without an
outcome; the player's delivery shows every row once and loses none at the
cutover; the NPC's delivery shows the answers in order and once, and reopens the
input when it is done; the route ends every reaction once and becomes free again,
and commits only an answer to the statement that is current; the conversation
records each statement and its one answer without gaps, and no question stays
open.

## 2. The modules

| module | models | uses |
|---|---|---|
| `WerewolfRules` | the rules: one atomic action per player command | |
| `MCWerewolfRules` | five players, every deal, two suspicion tables | `WerewolfRules` |
| `WerewolfRulesProofs` | theorems about the rules | `WerewolfRules`, TLAPS |
| `EngineDispatch` | the life of a command through its awaits | |
| `EngineDispatchProofs` | theorems about the dispatch | `EngineDispatch`, TLAPS |
| `PlayerDelivery` | the player's publications on their way to a display | |
| `PlayerDeliveryProofs` | theorems about this delivery | `PlayerDelivery`, TLAPS |
| `OrderedDisplay` | abstract: answers appear in order, once, each after the one before was acknowledged | |
| `NpcDelivery` | the controller that delivers the NPCs' answers, and its sinks | `OrderedDisplay` |
| `NpcDeliveryProofs` | theorems about the controller and its sinks | `NpcDelivery`, TLAPS |
| `NpcDeliveryPipeline` | the engine's handoff, the integration and the orchestrator that drive it | `NpcDelivery` |
| `NpcDeliveryPipelineProofs` | theorems about the controller under its real caller | `NpcDeliveryPipeline`, `NpcDeliveryProofs` |
| `ReactionRegistry` | abstract: a bounded memory of reactions in the order of their creation | |
| `ReactionCoordinator` | the control root of the NPC reactions and its operations | |
| `CoordinatorRefinement` | how the root is read as the list of `ReactionRegistry` | both |
| `MCReactionCoordinator` | the symmetry of the coordinator's names | `CoordinatorRefinement` |
| `ReactionCoordinatorProofs` | theorems about the coordinator | `CoordinatorRefinement`, TLAPS |
| `ReactionRoute` | an execution of the route, over the coordinator it owns | `ReactionCoordinator` |
| `MCReactionRoute` | one execution with a back-off | `ReactionRoute` |
| `CandidateProvider` | the provider of the command line program, under the route | `ReactionRoute` |
| `MCCandidateProvider` | two executions over one place | `CandidateProvider` |
| `ReactionRouteProofs` | theorems about the route, alone and over its provider | `CandidateProvider`, `ReactionCoordinatorProofs` |
| `ConversationLedger` | abstract: statements, each answered at most once and only while it is the last | |
| `ConversationCommit` | the two writers of the authoritative conversation | `ConversationLedger` |
| `MCConversationCommit` | two NPCs, what may be said and proposed | `ConversationCommit` |
| `ConversationCommitProofs` | theorems about the conversation | `ConversationCommit`, TLAPS |

Definitions marked `Defect:` in a module are deliberate mistakes (a dropped
guard, a missing reset, an off-by-one).  No action uses them; each has been put
in place of the definition that follows it, to see that the property meant to
catch it does.

### WerewolfRules

A command runs on a working copy that replaces the live state at once, so
`AskNpc`, `AskDeadNpc`, `AskProviderFails`, `RunVote` and `RunNight` are single
actions and a command that throws has no transition.  `RunNight` contains the
seer's check, the attack, the win check and the change of day, in this order.
Every sort of the code ranks by a score and then by name and takes the first:
`MostSuspected` and `LeastSuspected` say so without sorting.  `KillPlayer` keeps
the guard whose failure is an exception in the code, and `KillsNeverThrow` says
that it cannot fail.  A question is the set of players it accuses (`Mentions`)
and whether it asks for the role; its text is left out.  Only the compatibility
path makes whole questions atomic; a structured question is two commits, which
`EngineDispatch` models.

### EngineDispatch

A call is a record of its stage (`interpreting`, `validated`, `working`,
`answering`), its kind and what it read before its first await.  Each await of
the code is the gap between two actions.  `setup` stands for the constructor's
options: nothing enabled, the interpreter as an observer, structured commits of
the player's question, structured NPC reactions too.  A version names a
question: the one committed at version q.  The route is a caller of the
authority port that reads a snapshot (`RouteReads`) and commits when it likes
(`NpcCommits`), also after its command has given up; whether it reports a commit
or a failure is independent of what it did, as far as the code allows.
`DrainStarts` and `DrainEnds` stand for `PlayerDelivery`, and `DeliveryStarts`
and `DeliveryReturns` for the NPC delivery with all its outcomes.  Phases the
code passes through inside one command are not states.  A destroyed game admits
no command: `dispatchPlayerAction` asks the player's delivery whether it drains
(`gameEngine.mjs:302`), `destroy` has invalidated that delivery (`:805`), and
`modeState` throws then (`playerPublicationDelivery.mjs:32`, `:324`).

### PlayerDelivery

A publication is its slot order; an attempt is a record with the state the
controller gives it and, beside it, what really happened to its write (`sink`:
absent, writing, written, shown), which the code cannot see.  `CleanUp` is the
end of a write whose attempt became stale: a browser takes its row back, a
terminal cannot, so both outcomes are possible.  `Prepare` and `RenderFails` are
the two ends of `prepare`; `SwitchToLegacy`, `SwitchBackToStructured` and
`RequestStructured` are the branches of `requestMode` that change something.
The receipts' identities are left out: a receipt is its attempt.

### ReactionCoordinator

The coordinator is a set of pure functions on a root; the route holds the
current root.  Its four registries are functions that give `None` where the code
has no entry.  An action is an operation that returns a changed root, and any
operation may be called with any arguments at any time: the model does not rely
on the route calling them in a sensible order.  Refusals, exceptions and the
answers that repeat an earlier result return the root unchanged and are no
steps.  The source validates every root before it returns it, and throws
otherwise; the actions leave that check out, and `RootIsValid`, which translates
the validator, says that it would never have thrown.  The three ends of a
reaction share `EndReaction`, as the code shares `installTombstone`; they differ
in who may be accepted and what the unfinished attempts become.  A reaction's
place in the order of eviction is given out when it is planned, not when it
ends.  The list of a reaction's attempts is a set: the code relies on the
registry listing them in the order of creation, which JavaScript grants unless
an identity looks like an integer, and the engine's identities carry a prefix.

`ReactionRegistry` is what the route may rely on, in three actions over one
sequence: begin a reaction at the end of the memory, in the place of the oldest
ended one if it is full; end one; forget everything.  The mapping, in
`CoordinatorRefinement`, lists the remembered reactions by terminal order: the
place of a reaction is the number of those of lower order, plus one.

### ReactionRoute

`operation[op]` is the record the route keeps of an execution, with the `point`
its code has reached; `op` is also the number of the reaction it plans.  The
code is suspended in two places only, while the provider works (`attempting`)
and while a back-off runs (`backoff`).  The other points are passed in one
synchronous run, in which `Running` lets nothing else happen.  All ends of an
execution go through `EndInRoot`, which is `terminalFailure`: the attempt ends
as `AtDeadline`, `AtCancel` or `AtRecovery` say, and then the reaction.
`Release` is the `finally` clause, which frees the route only if this execution
still holds it.  `Cancel` and `ResetRoute` free it at once; the execution they
ended returns when its provider does (`AnswerIsLate`).  `CommitWithoutCleanup`
and `CommitAnswerMalformed` are the two ways in which a commit stands although
what follows it fails.  Time is counted in ticks from the start of the active
execution; a timer that is due fires at any time afterwards, and timers fire in
the order in which they are due.  The authority is what the route sees of it:
the statement that may be answered, and which execution committed.
`convergeReplay` cannot be reached here, since only the route commits; nor are
the two values a late return writes into `rememberTerminal`, which only repeat
an answer.

One detail is worth knowing.  A `RetryCleanup` done while a
later execution runs is undone when that execution's commit is answered
malformed, since the root of before it is put back.  The first reaction is then
live again and nobody owes its cleanup; `EndsAgree` names that case.

### CandidateProvider

Replaces the route's unconstrained provider by the one the command line program
has: the local transport, the HTTP handler, the provider with its timer and the
OpenAI invoker with its limit of concurrent requests.  A call races its fetch,
its timer and an abort; the fetch of a call that lost keeps its place until it
settles (`AbandonedFetchSettles`).  The limit per minute is a refusal that may
come at any time.  In this chain a timeout is never retried, and a failure is
retried only if enough of the attempt's time is left.

### ConversationCommit

What the two commits write and check, with the same state as `EngineDispatch`
sees only as a version: claims with their relations, the counters of orders and
slots, statements and answers.  `Asserted` is what one act adds to the claims:
a statement's acts are folded over the claims there are, since a claim relates
to those before it in the same statement; a reaction's claims relate to the
snapshot alone.  `Prepare` is
read, validation and preparation in one synchronous run; `Reaction` is what a
client holds then.  The commit is five actions that exclude each other, in the
order of the code's checks: `CommitConflicts`, `CommitReplayed`,
`CommitRejected`, `CommitThrows` and `CommitApplied`; the last applies `Delta`.
The port's contract is wider than the route's use of it, and its tests use it
so: a client may keep what it prepared, hand it in with any expected version,
twice, or after another client has answered.  Votes and nights change who lives,
what the seer knows and the turn, and nothing else here depends on how.

`ConversationLedger` is what the readers of the conversation may rely on, over
three numbers: a statement is made when none is open, answered while it is, or
given up.

### NpcDelivery

The controller's root is one immutable object that every method replaces as a
whole, so a method is one action; what it keeps beside the root (`requests`,
`gates`) is changed in the same action.  An attempt is its publication's slot
and its number.  Its token and receipt are `attempts[..].token`; `tokens` is the
index of those that may still be used.  A gate has no clock: its `stage` is
`timely` before the deadline, `grace` for the second after it, then `elapsed`,
and `Elapse` moves it on at any moment.  `PrimaryTimer` and `CleanupTimer` are
the two timers, `Report` the calls a sink makes.  As in `PlayerDelivery`, the
model knows what the sink really did (`sinks`, `display`) and the code does not:
a sink that wrote the answer may say so in time or too late, one that failed
tells the truth about whether it can prove that nothing is on display.
Every method may be called at any time with any capability that was ever given
out; a refused call is no step.

### NpcDeliveryPipeline

Extends `NpcDelivery` with its real caller.  A pump runs from the engine's
`completeNpcStructuredReactionDeliveryAfterPlayerDisplay` through the
integration and the orchestrator into the controller and back; `pump.stage` is
the place in between.  Its actions are named after what the orchestrator does;
each ends in one of three ways, `Settled`, `RetryRequired` and `DeliveryFailed`,
which set the integration's and the engine's state as both do after the await.
Only the wait for the sink is an await that anything can come between, so
`Destroy` is excluded from the synchronous stages.  That the player's row is on
display before a pump is left to the front ends.

## 3. The runs

| run | bounds | distinct states | why they are enough |
|---|---|---|---|
| `rules` | five players, all 20 deals, one accusing question, two claims | 64 068 | five is the game's own size; a question may change one ranking, and the claim may come on any day and be repeated on it |
| `dispatch` | two callers, four setups, `MaxSafe` 5 | 44 684 | two structured questions with their outcomes fit, and then every boundary check bites |
| `player_delivery` | three slots, three attempts, three changes of generation | 439 976 | a drain of two rows with a failed write and a retry, a switch to structured and back |
| `reaction_coordinator` | two reactions remembered of three, two requests, attempts and fingerprints, `MaxSafe` 3 | 179 598 up to symmetry | a full registry with one or two tombstones, an eviction, two live reactions side by side, every status, the last order |
| `npc_delivery` | three answers, two replacements of the consumer | 77 088 | three attempts each are the code's own limit; the limit is reached with one, two and no replacement in between, and a third answer waits behind two |
| `npc_pipeline` | two questions with their answers | 962 | the second question shows whether the first left anything behind |
| `npc_retry` | the same | stops at the violation | one answer and two attempts show it |
| `reaction_route` | two statements, two executions of two attempts, one place, a deadline of three ticks | 71 153 | the second execution meets what the first left behind: its place, its late return, its owed cleanup; a second attempt fits before the deadline or does not |
| `conversation_commit` | two NPCs, two clients, `MaxSafe` 5, three claims and four events in a projection | 282 800 | two questions with their outcomes and a vote or night between; claims that repeat, contradict, and pass the limit |
| `reaction_requests` | the same as `reaction_coordinator` | stops at the violation | three steps show it |
| `reaction_backoff` | one execution with two attempts | stops at the violation | one back-off shows it |
| `repeated_claim` | as `conversation_commit`, one client | stops at the violation | the second question shows it |

`CHECK_DEADLOCK FALSE` is set in all runs but those of the coordinator: a
finished game, a destroyed engine, a reset route and exhausted bounds stop the
system rightly.

What the runs say, beyond types:

* `rules`: the seer's results are true, concern others and never repeat a target,
  and claims are the seer's and repeat its results in order (`SeerIsHonest`); who
  claimed on an earlier day is dead (`ClaimedSeerFalls`); no legal sequence of
  commands makes `killPlayer` throw (`KillsNeverThrow`); a game has at most as
  many votes and nights as it has players minus two, and three players live
  while it is open (`GameIsShort`).
* `dispatch`: commands never overlap and what they read stays true while they
  await, so the version check before a commit can fail only after `destroy`
  (`CommandStaysCurrent`); a structured question gets exactly one outcome before
  its command returns (`NoQuestionLeftBehind`); an undisplayed answer keeps the
  input closed and the game unchanged (`HandoffBlocksInput`); every command ends,
  unless the game is destroyed while it waits for the NPC route (`CommandEnds`).
* `player_delivery`: a row is on display at most once (`ShownAtMostOnce`);
  nothing is recorded as delivered that is not (`SettledMeansShown`); every row
  before the cutover has its evidence (`CutoverIsEvidenced`); nothing is
  published during a drain, no stale attempt stays active, and a drain without a
  terminal failure can go on (`DrainIsSound`).
* `reaction_coordinator`: the validator refuses no root (`RootIsValid`); an
  attempt's fingerprint and terminal status are never revised and reach the
  tombstone (`HistoryIsKept`); the coordinator implements the bounded memory, in
  which only the oldest tombstone is evicted, at capacity and for a new reaction
  (`ImplementsRegistry`).
* `reaction_route`: whatever ends an execution names an end of its attempt that
  the coordinator's table allows (`CoordinatorAccepts`); the route, the
  coordinator and the authority tell one story of every execution, and a
  reaction is live exactly while it has no end or its cleanup is owed
  (`EndsAgree`); an execution that still has to end is the active one, also when
  a cancelled predecessor returns late (`UnfinishedIsActive`); only an answer to
  the current statement is committed, and once (`CommitsOnlyCurrent`); the route
  becomes free again whatever the provider does (`RouteBecomesFree`), and so does
  a place at the upstream (`PlaceComesFree`).
* `conversation_commit`: no order or slot is given out twice or left out
  (`OrdersAreDense`); a version that has not moved says that all a reaction was
  prepared from still holds (`VersionGuardsPrepared`); a committed claim repeats
  the first that says the same, or contradicts all earlier ones on its subject
  (`RelationsAreRight`); a question is open only while the command that must
  close it is in progress and owns it (`QuestionHasAnOwner`); only the statement
  just made is answered, once (`ImplementsLedger`); every question is closed
  (`QuestionIsClosed`).
* `npc_delivery`: the validator refuses no root (`RootIsValid`); an answer that
  waits has an attempt left (`WaitingHasAnAttemptLeft`); the answers are
  displayed in order, once, and each after the acknowledgement of the one before
  (`ImplementsOrderedDisplay`); no attempt stays in flight (`InFlightSettles`).
* `npc_pipeline`: engine, integration, orchestrator and controller agree on what
  the next pump has to do (`OpenHandoffCanBePumped`); while no sink reaches its
  deadline, the input reopens (`ReopensInTime`).
* `npc_retry` finds `RetryReopens`, which is `ReopensInTime` without its premise,
  violated.  The orchestrator deletes a retry before the attempt it starts
  (`npcPublicationDeliveryOrchestrator.mjs:444`).  When that attempt is cut off,
  its report throws, and the integration, which keeps what it held when
  something throws (`npcProductionIntegration.mjs:103`), asks for the deleted
  retry ever after.  The runbook
  (`docs/npc-structured-reaction-rollback-runbook.md:96`, `:274`) and the command
  line's message (`src/cli.mjs:101`) promise that a retry goes on with the same
  handoff to its end.
* `reaction_requests` finds `RequestsStayFresh` violated.  The design
  (`docs/conversation-pipeline-design.md:2872`) has request identities checked
  against tombstones too; `createPlannedNpcReaction` compares them with live
  reactions only, and the route's own check covers what was committed.  With
  identities that are random the difference does not show.
* `reaction_backoff` finds `EveryExecutionReturns` violated.  The wait of a
  back-off (`npcStructuredReactionRoute.mjs:573`) is a promise that only its
  timer resolves.  A cancellation or a reset clears the timer (`:661`), so the
  execution never returns, and neither does the command that awaits it.  The
  design (`docs/conversation-pipeline-design.md:3564`) has back-off, provider and
  timers share one abort signal.
* `repeated_claim` finds `NoCommitThrows` violated.  A claim that repeats or
  contradicts a committed one is prepared
  (`tests/npcReactionPreparationPhase6.test.mjs:179`), but the commit validates
  the delta's claims without the committed ones
  (`npcReactionAuthorityTranslation.mjs:347`), finds the reference dangling, and
  throws.  A seer asked again for its role or its result never gives the answer.
  The design (`docs/conversation-pipeline-design.md:2564`) lets the relations of
  a claim consult the committed prefix.

Two more things the model shows, which no property claims to be wrong.  A
statement with two claims of the player on one subject makes its own commit
throw (`PlayerCommitThrows`), since claims of one version may not relate to each
other.  And once a conversation has more than 64 claims or events, every read of
the port is refused (`FitsProjection`) although a preparation accepts 4096: the
NPCs answer no further question.

**Fairness.** `EngineDispatch` assumes weak fairness of `Proceeds(c)`, the
continuation of a call that awaits, except in `OnResetRoute(c)`.  The interpreter
and the providers have timeouts and are aborted by `destroy`, and the route of a
living game has a deadline, so each of these awaits ends.  `OnResetRoute` is a
call that waits for the NPC route of a destroyed game: `destroy` resets the
route, and one that was in a back-off then never returns (`reaction_backoff`).
No fairness is assumed of such a call, and `CommandEnds` promises nothing of it;
without that exception TLC finds the property violated.  Only `destroy` cancels
an execution in this program, so in a living game every command ends.  Nothing is
assumed of players, displays, deliveries or drains.  `ReactionRoute` and
`CandidateProvider` assume that the clock runs, that the program goes on between
two awaits, that a timer that is due fires, that a call which was aborted
returns, as its `AbortController` makes it, and that an abandoned fetch settles;
a provider that is waited for may stay silent for ever, which is what the
deadline is for.  `ConversationCommit` assumes weak fairness of
`ReactionReturns` alone: the route becomes free, which `reaction_route` checks.
It has no `destroy`, and so no reset of the route.  `NpcDelivery` assumes that
time passes and that the host's timers fire, and nothing of callers or sinks.
`NpcDeliveryPipeline` adds that the user goes on asking for a retry while one is
due and that a sink ends at some time: nothing in the program ends the wait for
a writer that never answers, so the input stays closed then, which the list of
hazards names.

## 4. The proofs

`WerewolfRulesProofs` proves its theorems for any finite set of at least three
players with distinct names, any integer suspicions and any bounds.  The
properties are not inductive.  The invariant `IInv` adds that the recorded
winner is the tally of the living, so that an open game has a living wolf and at
least two others; that the dead and the living add up; that every vote and every
night has cost a life; and that in an open game the seer's results are older than
today, so that a claim is dated after what it publishes.  A night that leaves
the game open kills the author of the first claim, and only the one seer claims,
which makes `ClaimedSeerFalls` inductive.
`NoKillThrows` also needs that the vote always elects somebody alive, and so that
the sums of suspicion which break a tie are integers.  Such a sum is a fold over
the voters, that is, a recursive function on the sets of voters; that it exists
and is an integer on every finite set is shown by taking the least number of
voters for which it would fail (`NatMin`), since an induction principle over an
operator cannot be instantiated.
The ranking operators are `CHOOSE`s; lemmas show that what they choose exists in
every non-empty finite set, from the finiteness of `Players` and the injectivity
of `NameRank`.

`EngineDispatchProofs` proves its theorems for any set of callers, any setups
and any last safe integer.  `IInv` adds to the properties: at most one call is in
flight and `busy` says whether there is one (`Exclusive`); what a call in flight
read is still true unless it is answering, in which case its question is
committed and, once answered, one version old (`CallsKnow`); questions are at
most as new as the version and their outcomes make them older (`Ordered`).  With
these, a commit by the route finds the one call that awaits it, so it cannot move
the state from under another command; a settlement and an answer exclude each
other because each makes the question older than the version the other needs.

`ReactionCoordinatorProofs` proves its theorems for any finite sets of reactions
and attempts, and any capacity, attempt limit and last order.  Here the
invariant, `TypeOK` with `RootIsValid`, is inductive as it stands, which is the
point: the conditions the code validates are strong enough to be preserved by
every operation.  `RoomIsMade` counts the registry around an eviction,
`SteppedRoot` treats the three operations on an attempt and `EndedRoot` the
three ends of a reaction; `EndOf` names what an end leaves alone.  `Steps` puts
them together, and the three action properties follow from it.

`RegistryIsImplemented` shows the refinement of `ReactionRegistry`.  The mapping
sorts the remembered reactions, but the proof sorts nothing: it counts, for each
of them, those of lower order.  In a finite set with distinct orders the places
so counted are exactly one to its size (`PlacesAreTaken`), so that `ByAge` lists
each reaction once, at its place (`ListedByPlace`).  A plan takes a place above
all others, since orders only grow; an eviction takes the first place away and
every other moves down by one; whatever leaves the orders alone leaves the list
alone (`ListStays`), and what ends a reaction changes its outcome in its place.

`ConversationCommitProofs` proves its theorems for any NPCs, clients, utterances
and candidates and any limits.  `IInv` adds to `QuestionHasAnOwner` and
`VersionGuardsPrepared`: what the command in progress knows of the game is true,
and a command that awaits its interpreter leaves room for two versions
(`CommandKnows`); each statement is of a newer version than those before it
(`StatementsAscend`); prepared reactions and answers are to statements that were
made, and one whose version is current is to the last of them
(`ReactionsFollow`).  The argument is a circle of these.  A question that is open
has its command, so no vote, night or second question comes between; thus only
the answer and the settlement can move the version from under a prepared
reaction, and both close the question.  `OrdersStayDense` needs `IInv` and that
the answers are finitely many: an answer's orders were reserved at a version
which, if it is committed, is still current, so that they are those which
follow.  `ConversationImplementsLedger` then maps each action to a step of the
ledger or a stutter.

`RelationsStayRight` rests on `ClaimsFit`: every claim is dated at the latest by
the version, and relates as it should to those dated earlier.  A claim is made
from a prefix of the claims there will be, and relates to all of that prefix it
is about; the validated references say that what it relates to was made at an
earlier version; so a repetition or contradiction inside one statement is
refused, and what is left is the relation to the earlier versions.  The claims
committed before keep theirs because whatever is added is newer.  A reaction's
claims were made from its snapshot, which `VersionGuardsPrepared` says is still
the conversation.  A fold over acts is handled as the sum above: `Builds` is its
recursive function, `BuildExists` and `BuiltIsGrown` are shown by least
counterexample over the number of acts.

`PlayerDeliveryProofs` proves its theorems for any number of slots, attempts and
generations.  `ShownAtMostOnce` is not inductive: whether a second write may
begin depends on what the code believes of the first.  `IInv` therefore ties the
code's belief to the sink's truth (`SinkFollowsState`: an attempt the code may
repeat has left nothing on display, one it counts as written is on display), says
that only the active attempt of a slot goes on, and was made under the present
generation and on its side of the cutover (`ActiveIsCurrent`,
`UnderWayIsActive`), that receipts and states of attempts point at each other
(`SettlementsMatch`), that evidence lies before the cutover and
acknowledgements after it (`CutoverDivides`), and what a drain in progress has
proposed (`DrainHolds`).

`NpcDeliveryProofs` proves its theorems for any number of answers and
generations.  `RootIsValid` translates the controller's validator; it does not
say enough to be preserved.  `RootFits` does: the acknowledged answers are the
first ones, nothing is known of an answer beyond the next, a record is that of
the last attempt and the earlier attempts are given up, and each attempt carries
the token its state needs.  `IndexesMatch` says that gates, requests and tokens
are those of the records, `SinksFit` that a sink which has not ended is that of
the last attempt of the next answer, and `DisplayFits` that the display holds the
acknowledged answers and perhaps the next one, which then cannot be shown again.
`DisplayIsOrdered`, the refinement of `OrderedDisplay`, follows from the last.

`NpcDeliveryPipelineProofs` keeps that invariant under the real callers, whose
sinks may report to a controller that has settled the attempt or was reset:
`StepIsControllers` shows that a step of the pipeline is one of the controller's
or is refused by it, so the lemmas of `NpcDeliveryProofs` apply.  `CallerFits`
adds that an open handoff belongs to a live game, that a pump under way holds the
handoff and an attempt, that an answer waiting for a retry is one the integration
holds or the pump is about to offer, and that a pump which returns finds its
attempt as its sink's report left it.

`ReactionRouteProofs` stands on the coordinator's invariant, which holds of every
root the route may install.  Since `recoverUnexpectedOperation` may put an older
root back, `RouteInv` says of the roots put aside what it says of the present one
(`ValidRoot`, `SourcesFit`): valid, without the execution that put it aside, and
with the ends of its predecessors.  The rest ties an execution to the root and
the authority: the one without an end is the one the route is busy with, and the
root's live reaction and last attempt are where the execution is
(`BusyWithUnfinished`, `UnfinishedAreFollowed`); a tombstone names the end of its
execution (`EndsAreKnown`); a live reaction of an ended execution has its cleanup
owed, forgotten by a reset, or undone by a root put back (`LiveHaveReason`); the
authority has the commits of the executions that say so (`AuthorityAgrees`); and
the statement that may be answered has no answer (`CurrentIsOpen`).
`ProviderInv` adds that a call that waits has its fetch; the places taken are then
the fetches that have not settled, abandoned ones included.  `ProviderIsAllowed`
shows that the provider of the command line program does to the route nothing
that it does not allow any provider (`RouteSafety`, its specification without
fairness), so that the theorems about the route hold under it.

The assumptions are those the modules name.  Beside bounds and finiteness they
say that `None`, which stands for JavaScript's null, is none of the values it
is told apart from (`NullAssumption`, `NoneOfRouteAssumption`,
`NoneOfProviderAssumption`, `NoRetryAssumption` and the like), and how the route
names plans and attempts and which terminal statuses there are
(`NamesAssumption`).  TLC evaluates each of them in the runs.

Proved beside what the runs check, as properties of their own: the dead do
nothing any more (`DeadTakeNoPart`); a structured question has a version left
for its outcome (`RoomForAnswer`); every replacement takes the next version of a
live game (`CommittedStateIsGuarded`); only the oldest tombstone is evicted
(`OnlyOldestForgotten`); a slot becomes the tombstone of its reaction
(`SlotBecomesTombstone`).

Model-checked only are the liveness properties: `CommandEnds`, `InFlightSettles`,
`ReopensInTime`, `RouteBecomesFree`, `PlaceComesFree` and `QuestionIsClosed`.
Fairness and `ENABLED` are beyond the prover, and so are the liveness parts of
specifications: a theorem concludes from `Spec` what its safety part implies, and
the abstract specifications have no fairness.  Every invariant, every action
property and every refinement that a passing run checks is stated by a theorem.
No module declares a recursive operator.

## 5. Not modelled, and the plan

Not modelled because they keep no state or only carry data: the schemas,
fingerprints and rendering of the conversation contracts, the shapes and
identities of the immutable objects both commits build, the validation of
external text and the wording guard, the scripts, the audit, and the front ends
beyond their sinks.  The random numbers are a 32-bit generator; `WerewolfRules`
lets every deal and table begin a game instead.  Also left out: faults injected
by tests into the middle of a commit, and the settlement outcome
`settlement_failed`, which only such faults reach.

Not modelled although they keep state: the queue of waiters of the legacy
provider (`openaiProvider.mjs:62`), in which a waiter is woken before it counts
itself; the server's memory of interpreter requests; and the observation ledger,
a bounded log that nothing reads back.

Two hazards of modelled components have no property.  When the player's own row
can never be displayed, the handoff stays pending (`gameEngine.mjs:299`): that
needs `EngineDispatch` and `PlayerDelivery` composed.  And a writer that never
answers keeps the input closed (`gameEngine.mjs:502`): nothing in the program ends
that wait, and the model's fairness of the sinks excludes it by name.

Planned, most important first:

1. `PlayerDelivery` composed with `EngineDispatch`, for the first hazard above.
2. The safety each liveness property rests on, as theorems: that in every state
   where something is owed, some action that brings it nearer is possible.
3. The waiters of the legacy provider, and the retry deadlines.
