-------------------------- MODULE ConversationCommit --------------------------
(***************************************************************************)
(* The two writers of the authoritative conversation of a WerewolfGame     *)
(* with structured NPC reactions: the player's command, which commits a    *)
(* statement once the interpreter has read it, and the authority port,     *)
(* which gives a snapshot of the current statement out and takes a         *)
(* prepared reaction back in.  Votes and nights change the players in      *)
(* between; a question whose NPC did not answer is settled.                *)
(*                                                                         *)
(* A client of the port reads, validates a candidate and prepares in one   *)
(* synchronous run (Prepare), as the route does.  The route commits in the *)
(* same run; the port promises more, and its tests use it so: a client may *)
(* keep a prepared reaction, hand it in late, twice, or after another      *)
(* client's.                                                               *)
(*                                                                         *)
(* Records are kept as their numbers, actors, claims and versions; ids are *)
(* fresh (createId), so no artifact collides.  Segments, display plans and *)
(* the transport of a candidate are left out.                              *)
(***************************************************************************)
EXTENDS Integers, FiniteSets, SequencesExt

CONSTANTS
    NPCs, Seer, Werewolves,  \* the NPCs and their roles
    Clients,                 \* clients of the authority port
    Tries,                   \* of each client: identities it may give a reaction
    Utterances,              \* what the interpreter may read in an input: sequences of acts
    Candidates,              \* what a provider may propose: sequences of proposals
    ClaimLimit, EventLimit,  \* MAX.claims and MAX.events of a projection, 64
    MaxSafe,                 \* Number.MAX_SAFE_INTEGER, and so the bound of a game
    None                     \* JavaScript's null

ASSUME RolesAssumption == Seer \in NPCs /\ Werewolves \subseteq NPCs \ {Seer}
ASSUME InputsAssumption ==
    \A acts \in Utterances \union Candidates : Len(acts) \in Nat /\ DOMAIN acts = 1..Len(acts)
ASSUME LimitsAssumption ==
    MaxSafe \in Nat /\ MaxSafe >= 2 /\ ClaimLimit \in Nat /\ EventLimit \in Nat

Phases   == {"day_discussion", "player_question", "win_check"}
Outcomes == {"committed", "conflict", "replayed", "rejected", "thrown"}
Counters == [created : Nat, slot : Nat, append : Nat, events : Nat]
Commands == [stage : {"interpreting", "answering"}, version : Nat, phase : Phases, turn : Nat]

ASSUME NoneAssumption == None \notin Nat \union Commands

VARIABLES
    version, phase, turn,    \* stateVersion, phase, turnOrder (with turnId)
    dead, finished, facts,   \* players not alive, winner set, the seer's results
    claims,                  \* conversation.claims, in order
    next,                    \* next created, slot and append order; number of events
    statements,              \* the player's commits, in order
    answers,                 \* the NPC's commits
    command,                 \* the ask_npc in progress, or None
    prepared, outcome        \* of each client: its reaction, how the last commit ended

world == <<dead, finished, facts>>
conversation == <<claims, next, statements, answers>>
held == <<prepared, outcome>>
vars == <<version, phase, turn, world, conversation, command, held>>

Init ==
    /\ version = 0 /\ phase = "day_discussion" /\ turn = 0
    /\ dead = {} /\ finished = FALSE /\ facts = {}
    /\ claims = <<>> /\ next = [created |-> 0, slot |-> 0, append |-> 0, events |-> 0]
    /\ statements = <<>> /\ answers = {}
    /\ command = None
    /\ prepared = [c \in Clients |-> None] /\ outcome = [c \in Clients |-> None]

-----------------------------------------------------------------------------
(* Claims.  An act or proposal is [kind, subject, payload]; the subject of *)
(* a role claim is "role", that of a result claim the one it is about.     *)

IsClaim(act) == act.kind \in {"role_claim", "result_claim"}
HasEvent(act) == act.kind # "information_request"

SameSubject(a, b) == a.actor = b.actor /\ a.subject = b.subject

(* Defect: a claim that repeats none contradicts none either.              *)
ClaimForgetsContradictions(prior, actor, act, at) ==
    LET equal == {i \in DOMAIN prior : /\ prior[i].actor = actor /\ prior[i].subject = act.subject
                                       /\ prior[i].payload = act.payload}
    IN  [actor |-> actor, subject |-> act.subject, payload |-> act.payload, at |-> at,
         repeats |-> IF equal = {} THEN None ELSE CHOOSE i \in equal : \A j \in equal : i <= j,
         contradicts |-> {}]

(* The claim actor makes with act, given the claims before it: it repeats  *)
(* the first one that says the same, or else contradicts all the others on *)
(* its subject.                                                            *)
Claim(prior, actor, act, at) ==
    LET new  == [actor |-> actor, subject |-> act.subject]
        same == {i \in DOMAIN prior : SameSubject(prior[i], new)}
        equal == {i \in same : prior[i].payload = act.payload}
    IN  [actor |-> actor, subject |-> act.subject, payload |-> act.payload, at |-> at,
         repeats |-> IF equal = {} THEN None ELSE CHOOSE i \in equal : \A j \in equal : i <= j,
         contradicts |-> IF equal = {} THEN same ELSE {}]

(* What is asserted once actor has said act, which need not be a claim.    *)
Asserted(all, prior, actor, act, at) ==
    IF IsClaim(act) THEN Append(all, Claim(prior, actor, act, at)) ELSE all

Related(claim) == claim.contradicts \union ({claim.repeats} \ {None})

(* What validateClaimReferences demands of every claim: what it relates to *)
(* is there, and was made at an earlier version.                           *)
ClaimReferencesHold(all) ==
    \A i \in DOMAIN all : \A j \in Related(all[i]) :
        /\ j \in DOMAIN all /\ all[j].at < all[i].at
        /\ SameSubject(all[i], all[j])
        /\ (all[i].payload = all[j].payload) <=> (j = all[i].repeats)

-----------------------------------------------------------------------------
(* The player's command.                                                   *)

(* Defect: the question is accepted with room for one version only.        *)
AcceptedWithoutRoom ==
    /\ ~finished /\ command = None
    /\ version < MaxSafe /\ turn < MaxSafe
    /\ turn' = turn + 1
    /\ command' = [stage |-> "interpreting", version |-> version, phase |-> phase, turn |-> turn']
    /\ UNCHANGED <<version, phase, world, conversation, held>>

(* ask_npc is accepted: a turn of its own, and the binding of the question *)
(* to the state the interpreter is asked in.                               *)
AskAccepted ==
    /\ ~finished /\ command = None
    /\ version <= MaxSafe - 2 /\ turn < MaxSafe
    /\ turn' = turn + 1
    /\ command' = [stage |-> "interpreting", version |-> version, phase |-> phase, turn |-> turn']
    /\ UNCHANGED <<version, phase, world, conversation, held>>

(* It was no single alternative, nothing this phase allows, or no answer.  *)
InterpreterDeclines ==
    /\ command # None /\ command.stage = "interpreting"
    /\ command' = None
    /\ UNCHANGED <<version, phase, turn, world, conversation, held>>

(* An utterance the validation of the interpreter's response lets through. *)
Validated(acts) ==
    /\ command.phase = "day_discussion"
    /\ \A i \in DOMAIN acts :
          acts[i].kind \in {"question", "suspicion"} => acts[i].subject \in NPCs \ dead

StillBound ==
    command.version = version /\ command.phase = phase /\ command.turn = turn

(* The claims of a statement: each relates also to those before it in the  *)
(* same statement.                                                         *)
ClaimsOfStatement(acts) ==
    FoldLeft(LAMBDA all, act : Asserted(all, all, "player", act, version + 1), claims, acts)

EventsOf(acts) == Cardinality({i \in DOMAIN acts : HasEvent(acts[i])})

(* Orders are given to the input, to each event, to the mapping onto the   *)
(* legacy log and to the result.                                           *)
Statement(acts) ==
    [acts |-> acts, from |-> version, version |-> version + 1, turn |-> turn,
     orders |-> next.created..(next.created + EventsOf(acts) + 2),
     slot |-> next.slot, append |-> next.append]

(* Defect: the order of the mapping is not counted.                        *)
AfterStatementForgetsMapping(acts) ==
    [created |-> next.created + EventsOf(acts) + 2, slot |-> next.slot + 1,
     append |-> next.append + 1, events |-> next.events + EventsOf(acts)]

AfterStatement(acts) ==
    [created |-> next.created + EventsOf(acts) + 3, slot |-> next.slot + 1,
     append |-> next.append + 1, events |-> next.events + EventsOf(acts)]

MayCommitStatement(acts) ==
    /\ command # None /\ command.stage = "interpreting"
    /\ Validated(acts) /\ StillBound

PlayerCommits(acts) ==
    /\ MayCommitStatement(acts)
    /\ ClaimReferencesHold(ClaimsOfStatement(acts))
    /\ claims' = ClaimsOfStatement(acts)
    /\ statements' = Append(statements, Statement(acts))
    /\ next' = AfterStatement(acts)
    /\ version' = version + 1 /\ phase' = "player_question"
    /\ command' = [stage |-> "answering", version |-> version', phase |-> phase', turn |-> turn]
    /\ UNCHANGED <<turn, world, answers, held>>

(* Two claims on one subject in one statement relate to each other, and    *)
(* the graph that would result is refused: the command throws.             *)
PlayerCommitThrows(acts) ==
    /\ MayCommitStatement(acts)
    /\ ~ClaimReferencesHold(ClaimsOfStatement(acts))
    /\ command' = None
    /\ UNCHANGED <<version, phase, turn, world, conversation, held>>

(* The NPC's reaction has come back.  If it was not committed, the owner   *)
(* of the lifecycle gives the phase back; it has lost the lifecycle when   *)
(* the statement has an answer.                                            *)
Asked == Len(statements)
IsAnswered(r) == \E a \in answers : a.request = r
(* Defect: the owner is compared with the phase the question was bound in. *)
OwnerOfBoundPhase ==
    /\ version = command.version /\ turn = command.turn /\ phase = "day_discussion"
    /\ ~IsAnswered(Asked)

OwnerMatches ==
    /\ version = command.version /\ turn = command.turn /\ phase = "player_question"
    /\ ~IsAnswered(Asked)

(* Defect: the settlement leaves the version alone.                        *)
SettledWithoutVersion ==
    /\ command # None /\ command.stage = "answering" /\ OwnerMatches
    /\ phase' = "day_discussion"
    /\ command' = None
    /\ UNCHANGED <<version, turn, world, conversation, held>>

ReactionSettled ==
    /\ command # None /\ command.stage = "answering" /\ OwnerMatches
    /\ phase' = "day_discussion" /\ version' = version + 1
    /\ command' = None
    /\ UNCHANGED <<turn, world, conversation, held>>

ReactionNeedsNoSettlement ==
    /\ command # None /\ command.stage = "answering" /\ ~OwnerMatches
    /\ command' = None
    /\ UNCHANGED <<version, phase, turn, world, conversation, held>>

ReactionReturns == ReactionSettled \/ ReactionNeedsNoSettlement

(* A vote or a night, on a working copy: one is killed, and in the night   *)
(* the seer learns what another is.                                        *)
Alive == NPCs \ dead
Role(n) == IF n \in Werewolves THEN "werewolf" ELSE "not_werewolf"

OtherCommand ==
    /\ ~finished /\ command = None
    /\ version < MaxSafe /\ turn < MaxSafe
    /\ version' = version + 1 /\ turn' = turn + 1
    /\ finished' \in BOOLEAN
    /\ UNCHANGED <<conversation, command, held>>

Vote ==
    /\ OtherCommand
    /\ phase' = "win_check"
    /\ \E victim \in Alive : dead' = dead \union {victim}
    /\ UNCHANGED facts

Night ==
    /\ OtherCommand
    /\ phase' = IF finished' THEN "win_check" ELSE "day_discussion"
    /\ \/ UNCHANGED facts
       \/ /\ Seer \in Alive
          /\ \E n \in Alive \ {Seer} :
                /\ \A fact \in facts : fact.subject # n
                /\ facts' = facts \union {[subject |-> n, payload |-> Role(n)]}
    /\ \E victims \in SUBSET Alive : Cardinality(victims) <= 1 /\ dead' = dead \union victims

-----------------------------------------------------------------------------
(* The authority port.                                                     *)

Questions(r) ==
    {i \in DOMAIN statements[r].acts : statements[r].acts[i].kind = "question"}
Question(r) == statements[r].acts[CHOOSE i \in Questions(r) : TRUE]

(* What there is to know fits into a projection.                           *)
FitsProjection == Len(claims) <= ClaimLimit /\ next.events <= EventLimit

(* A snapshot of statement r is given out: it holds one question, nothing  *)
(* has happened since, and nobody has answered it.                         *)
Readable(r) ==
    /\ Cardinality(Questions(r)) = 1
    /\ ~IsAnswered(r)
    /\ statements[r].turn = turn /\ statements[r].version = version
    /\ phase = "player_question"
    /\ Question(r).subject \in Alive
    /\ FitsProjection

KnownResults(npc) == IF npc = Seer THEN facts ELSE {}

Snapshot(r) ==
    LET npc == Question(r).subject
    IN  [request |-> r, npc |-> npc, topic |-> Question(r).payload, version |-> version,
         turn |-> turn, results |-> KnownResults(npc), claims |-> claims, next |-> next]

(* What an NPC that knows results may say when asked about topic.  Claims  *)
(* are for a seer with a result who has been asked for role or result.     *)
MaySay(npc, topic, results, act) ==
    CASE act.kind = "role_claim" ->
            topic \in {"role", "result"} /\ results # {} /\ act.payload = "seer"
      [] act.kind = "result_claim" ->
            /\ topic \in {"role", "result"}
            /\ [subject |-> act.subject, payload |-> act.payload] \in results
      [] OTHER -> act.subject \in Alive \ {npc}

Coherent(proposals) ==
    /\ \A i, j \in DOMAIN proposals : proposals[i] = proposals[j] => i = j
    /\ \A i, j \in DOMAIN proposals :
          (/\ proposals[i].kind = proposals[j].kind
           /\ proposals[i].kind \in {"role_claim", "vote_declaration"}) => i = j

ValidCandidate(s, proposals) ==
    /\ \A i \in DOMAIN proposals : MaySay(s.npc, s.topic, s.results, proposals[i])
    /\ Coherent(proposals)

(* The claims of a reaction relate to the claims committed before it.      *)
ClaimsOfReaction(prior, npc, proposals, at) ==
    FoldLeft(LAMBDA all, act : Asserted(all, prior, npc, act, at), <<>>, proposals)

(* Orders are reserved for the event of each proposal and for the result.  *)
Reserved(from, proposals) == from.created..(from.created + Len(proposals))

AfterReserved(from, proposals) ==
    [created |-> from.created + Len(proposals) + 1, slot |-> from.slot + 1,
     append |-> from.append + 1, events |-> from.events + Len(proposals)]

Reaction(s, n, proposals) ==
    [plan |-> <<s.request, n>>, request |-> s.request, npc |-> s.npc, topic |-> s.topic,
     version |-> s.version, turn |-> s.turn, proposals |-> proposals,
     claims |-> ClaimsOfReaction(s.claims, s.npc, proposals, s.version + 1),
     next |-> s.next, after |-> AfterReserved(s.next, proposals),
     priorClaims |-> Len(s.claims)]

(* A client reads the snapshot, has a candidate validated and prepares it. *)
Prepare(c, r, n, proposals) ==
    /\ prepared[c] = None \/ outcome[c] # None
    /\ Readable(r)
    /\ ValidCandidate(Snapshot(r), proposals)
    /\ prepared' = [prepared EXCEPT ![c] = Reaction(Snapshot(r), n, proposals)]
    /\ outcome' = [outcome EXCEPT ![c] = None]
    /\ UNCHANGED <<version, phase, turn, world, conversation, command>>

(* The checks of the commit, in their order.                               *)
SameReaction(p)  == \E a \in answers : a = p
IdentityTaken(p) == \E a \in answers : a.plan = p.plan \/ a.request = p.request

(* Defect: a commit looks at the turn only, not at the phase and version.  *)
ApplicableInTurn(p) == turn = p.turn /\ version < MaxSafe

Applicable(p) ==
    turn = p.turn /\ phase = "player_question" /\ version = p.version /\ version < MaxSafe

Authorized(p) ==
    /\ p.npc \in Alive /\ ~finished
    /\ \A i \in DOMAIN p.proposals : MaySay(p.npc, p.topic, KnownResults(p.npc), p.proposals[i])

OrderHolds(p) == p.next = next /\ p.priorClaims = Len(claims)

(* The authorized delta is validated apart from the conversation it is     *)
(* made for: the claims in it must relate to each other only.              *)
DeltaStandsAlone(p) ==
    \A i \in DOMAIN p.claims :
        Related(p.claims[i]) \subseteq (Len(claims) + 1)..(Len(claims) + Len(p.claims))

(* Defect: the delta keeps the phase the reaction was prepared in.         *)
DeltaInItsPhase(p) ==
    [claims |-> p.claims, answer |-> p, next |-> p.after,
     phase |-> "player_question", version |-> p.version + 1]

(* What the replacement of the conversation adds, and what may be applied  *)
(* to the game: appends, counters, the next version, and the discussion.   *)
Delta(p) ==
    [claims |-> p.claims, answer |-> p, next |-> p.after,
     phase |-> "day_discussion", version |-> p.version + 1]

ApplyDelta(delta) ==
    /\ claims' = claims \o delta.claims
    /\ answers' = answers \union {delta.answer}
    /\ next' = delta.next
    /\ phase' = delta.phase /\ version' = delta.version

Commits(p) ==
    /\ ~IdentityTaken(p) /\ Applicable(p) /\ Authorized(p) /\ OrderHolds(p)

Ends(c, how) == outcome' = [outcome EXCEPT ![c] = how] /\ UNCHANGED prepared

HandIn(c, expected) == prepared[c] # None /\ expected \in {prepared[c].version, version}

CommitConflicts(c, expected) ==
    /\ HandIn(c, expected) /\ expected # version
    /\ Ends(c, "conflict")
    /\ UNCHANGED <<version, phase, turn, world, conversation, command>>

CommitReplayed(c, expected) ==
    /\ HandIn(c, expected) /\ expected = version
    /\ SameReaction(prepared[c])
    /\ Ends(c, "replayed")
    /\ UNCHANGED <<version, phase, turn, world, conversation, command>>

(* rootAgrees: the coordinator of the client has the reaction as active    *)
(* and its attempt as validated.                                           *)
CommitRejected(c, expected, rootAgrees) ==
    /\ HandIn(c, expected) /\ expected = version
    /\ ~SameReaction(prepared[c])
    /\ ~rootAgrees \/ ~Commits(prepared[c])
    /\ Ends(c, "rejected")
    /\ UNCHANGED <<version, phase, turn, world, conversation, command>>

CommitThrows(c, expected) ==
    /\ HandIn(c, expected) /\ expected = version
    /\ Commits(prepared[c])
    /\ ~(ClaimReferencesHold(claims \o prepared[c].claims) /\ DeltaStandsAlone(prepared[c]))
    /\ Ends(c, "thrown")
    /\ UNCHANGED <<version, phase, turn, world, conversation, command>>

CommitApplied(c, expected) ==
    /\ HandIn(c, expected) /\ expected = version
    /\ Commits(prepared[c])
    /\ ClaimReferencesHold(claims \o prepared[c].claims) /\ DeltaStandsAlone(prepared[c])
    /\ ApplyDelta(Delta(prepared[c]))
    /\ Ends(c, "committed")
    /\ UNCHANGED <<turn, world, statements, command>>

-----------------------------------------------------------------------------
CommandStep ==
    \/ AskAccepted \/ InterpreterDeclines
    \/ \E acts \in Utterances : PlayerCommits(acts)
    \/ \E acts \in Utterances : PlayerCommitThrows(acts)
    \/ ReactionSettled \/ ReactionNeedsNoSettlement
    \/ Vote \/ Night

PortStep ==
    \E c \in Clients :
       \/ \E r \in DOMAIN statements, n \in Tries[c], proposals \in Candidates :
             Prepare(c, r, n, proposals)
       \/ \E expected \in 0..MaxSafe :
             \/ CommitConflicts(c, expected)
             \/ CommitReplayed(c, expected)
             \/ \E rootAgrees \in BOOLEAN : CommitRejected(c, expected, rootAgrees)
             \/ CommitThrows(c, expected)
             \/ CommitApplied(c, expected)

Next == CommandStep \/ PortStep

(* A reaction comes back at the latest when its deadline is over.          *)
Spec == Init /\ [][Next]_vars /\ WF_vars(ReactionReturns)

-----------------------------------------------------------------------------
(* The kinds of values; a version and a turn stay safe integers, although  *)
(* a question needs room for two versions when it is accepted.             *)
ConversationTypeOK ==
    /\ version \in 0..MaxSafe /\ turn \in 0..MaxSafe /\ phase \in Phases
    /\ dead \subseteq NPCs /\ finished \in BOOLEAN
    /\ facts \subseteq [subject : NPCs, payload : {"werewolf", "not_werewolf"}]
    /\ next \in Counters
    /\ \A i \in DOMAIN claims : claims[i].at \in 0..MaxSafe
    /\ \A c \in Clients : outcome[c] \in Outcomes \union {None}
    /\ command # None =>
          command \in Commands /\ command.version <= MaxSafe /\ command.turn <= MaxSafe

(* Both writers draw created orders, slots and append orders from the same *)
(* counters, the player's commit when it is made, an NPC's when it is      *)
(* prepared: none is given out twice and none is left out.                 *)
OrdersOfAnswer(a) == Reserved(a.next, a.proposals)
OrdersGiven(said, given) ==
    (UNION {said[i].orders : i \in DOMAIN said}) \union (UNION {OrdersOfAnswer(a) : a \in given})
OrdersAreDense ==
    /\ \A i, j \in DOMAIN statements :
          i # j => statements[i].orders \intersect statements[j].orders = {}
    /\ \A a, b \in answers : a # b => OrdersOfAnswer(a) \intersect OrdersOfAnswer(b) = {}
    /\ \A i \in DOMAIN statements, a \in answers :
          statements[i].orders \intersect OrdersOfAnswer(a) = {}
    /\ OrdersGiven(statements, answers) = 0..(next.created - 1)
    /\ next.slot = Len(statements) + Cardinality(answers) /\ next.append = next.slot
    /\ {statements[i].slot : i \in DOMAIN statements}
          \union {a.next.slot : a \in answers} = 0..(next.slot - 1)

(* A prepared reaction whose version is still the current one is still     *)
(* what would be prepared now: whatever changes the turn, the phase, the   *)
(* orders, the claims it relates to or what its NPC may say also moves the *)
(* version.                                                                *)
VersionGuardsPrepared ==
    \A c \in Clients : prepared[c] # None /\ prepared[c].version = version =>
        LET p == prepared[c]
        IN  /\ phase = "player_question" /\ turn = p.turn
            /\ OrderHolds(p) /\ Authorized(p)
            /\ p.claims = ClaimsOfReaction(claims, p.npc, p.proposals, version + 1)

(* Every committed claim repeats the first claim of an earlier version     *)
(* that says the same, or contradicts every earlier one on its subject.    *)
RelationsAreRight ==
    \A i \in DOMAIN claims :
        LET earlier == {j \in DOMAIN claims :
                          claims[j].at < claims[i].at /\ SameSubject(claims[j], claims[i])}
            equal == {j \in earlier : claims[j].payload = claims[i].payload}
        IN  IF equal = {}
            THEN claims[i].repeats = None /\ claims[i].contradicts = earlier
            ELSE /\ claims[i].repeats \in equal /\ claims[i].contradicts = {}
                 /\ \A j \in equal : claims[i].repeats <= j

(* While the phase is player_question, in which every input of the player  *)
(* would be declined, the command that must end it is in progress and      *)
(* still owns the lifecycle, whatever the clients of the port do.          *)
QuestionHasAnOwner ==
    phase = "player_question" =>
        /\ command # None /\ command.stage = "answering"
        /\ OwnerMatches

(* The statements and answers are those of the ledger: only the statement  *)
(* just made is answered, and only once.                                   *)
Ledger == INSTANCE ConversationLedger WITH
    stated   <- Len(statements),
    answered <- {a.request : a \in answers},
    open     <- IF phase = "player_question" THEN Len(statements) ELSE None
ImplementsLedger == Ledger!Spec

(* A question does not keep the game in player_question.                   *)
QuestionIsClosed == phase = "player_question" ~> phase # "player_question"

(* A reaction that is up to date is committed, also if a claim in it       *)
(* repeats or contradicts an earlier one: the relations of a claim consult *)
(* the committed prefix (docs/conversation-pipeline-design.md:2564), and   *)
(* the delta is validated without it.                                      *)
NoCommitThrows == \A c \in Clients : outcome[c] # "thrown"
=============================================================================
