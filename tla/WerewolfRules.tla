--------------------------- MODULE WerewolfRules ---------------------------
(***************************************************************************)
(* The authoritative rules of the game (src/src/gameEngine.mjs): questions *)
(* that put pressure on players, the seer's public claim, the vote and its *)
(* execution, the night with the seer's check and the werewolf's attack,   *)
(* and the win check after every death.                                    *)
(*                                                                         *)
(* A player command runs on a working copy of the state that replaces the  *)
(* live state at once (dispatchPlayerAction, commitState), so each command *)
(* is one atomic action here: a command that throws leaves no trace.       *)
(* EngineDispatch models the dispatch itself, its versions and its awaits. *)
(* These are the commands of the compatibility path, the default; the      *)
(* structured commits of questions use ApplyQuestionPressure as it is.     *)
(***************************************************************************)
EXTENDS Integers, FiniteSets, Sequences, FiniteSetsExt

CONSTANTS
    Players,            \* the NPCs of the village
    NameRank,           \* position of each player in name order
    InitialSuspicion,   \* the suspicion tables a game may start with
    InitialRoles,       \* the role deals a game may start with
    None,               \* JavaScript's null
    Mentions,           \* the sets of players a question may accuse
    MaxPressures,       \* bound: accusing questions in a game
    MaxClaims           \* bound: questions that make the seer claim

Roles  == {"werewolf", "seer", "citizen"}
Phases == {"day_discussion", "npc_response", "win_check"}

SeerFoundWolf == 8      \* suspicion after a "werewolf" result
SeerCleared   == -2     \* suspicion after a "not_werewolf" result

(* A deal has one werewolf and one seer; every other player is a citizen.  *)
RoleDeals ==
    {deal \in [Players -> Roles] :
        \E w, s \in Players :
            /\ w # s
            /\ \A p \in Players :
                 deal[p] = IF p = w THEN "werewolf"
                           ELSE IF p = s THEN "seer" ELSE "citizen"}

ASSUME PlayersAssumption == IsFiniteSet(Players) /\ Cardinality(Players) >= 3
ASSUME NameRankAssumption ==
    /\ NameRank \in [Players -> Nat]
    /\ \A p, q \in Players : NameRank[p] = NameRank[q] => p = q
ASSUME InitialRolesAssumption ==
    InitialRoles # {} /\ InitialRoles \subseteq RoleDeals
ASSUME BoundsAssumption ==
    MaxPressures \in Nat /\ MaxClaims \in Nat
ASSUME InitialSuspicionAssumption ==
    InitialSuspicion \subseteq [Players -> [Players -> Int]]
ASSUME MentionsAssumption == Mentions \subseteq SUBSET Players
ASSUME NoneAssumption == None \notin {"village", "werewolf"}

VARIABLES
    role,         \* players[p].role; fixed when the game is created
    alive,        \* state.alivePlayers
    deaths,       \* state.deadPlayers, each with the day and cause of its
                  \* "death" memory
    suspicion,    \* players[p].suspicionScores
    seerResults,  \* the seer_result entries of the seer's knownInfo
    claims,       \* the public_claim entries of publicInfo
    voteHistory,  \* state.voteHistory
    phase, day, winner,
    pressures     \* how many accusing questions were asked (for the bound)

vars == <<role, alive, deaths, suspicion, seerResults, claims, voteHistory,
          phase, day, winner, pressures>>

TheWolf == CHOOSE p \in Players : role[p] = "werewolf"
TheSeer == CHOOSE p \in Players : role[p] = "seer"
TeamOf(p) == IF role[p] = "werewolf" THEN "werewolf" ELSE "village"

-----------------------------------------------------------------------------
(* Ranking candidates: every sort of the code compares a score first and   *)
(* the name second, and takes the first element.                           *)

FirstByName(S) == CHOOSE p \in S : \A q \in S : NameRank[p] <= NameRank[q]
MostSuspected(score, S) ==
    FirstByName({p \in S : \A q \in S : score[q] <= score[p]})
LeastSuspected(score, S) ==
    FirstByName({p \in S : \A q \in S : score[p] <= score[q]})

-----------------------------------------------------------------------------
Init ==
    /\ role \in InitialRoles
    /\ suspicion \in InitialSuspicion
    /\ alive = Players
    /\ deaths = <<>>
    /\ seerResults = <<>>
    /\ claims = <<>>
    /\ voteHistory = <<>>
    /\ phase = "day_discussion"
    /\ day = 1
    /\ winner = None
    /\ pressures = 0

(* Death and the win check.  KillPlayer throws on a player already dead,   *)
(* which aborts the whole command.                                         *)
KillPlayer(p, cause) ==
    /\ p \in alive
    /\ alive' = alive \ {p}
    /\ deaths' = Append(deaths, [player |-> p, day |-> day, cause |-> cause])

(* Defect: the werewolf needs a strict majority to win.                    *)
TallyStrictMajority(living) ==
    LET wolves == {p \in living : TeamOf(p) = "werewolf"}
    IN  IF wolves = {} THEN "village"
        ELSE IF Cardinality(wolves) > Cardinality(living \ wolves) THEN "werewolf"
        ELSE None

Tally(living) ==
    LET wolves    == {p \in living : TeamOf(p) = "werewolf"}
        villagers == living \ wolves
    IN  IF wolves = {} THEN "village"
        ELSE IF Cardinality(wolves) >= Cardinality(villagers) THEN "werewolf"
        ELSE None

-----------------------------------------------------------------------------
(* ask_npc: an accusing question raises every living player's suspicion of *)
(* each mentioned player, dead ones included, before the NPC answers.      *)
(* "mentioned" is empty when the question names nobody or accuses nobody.  *)

ApplyQuestionPressure(mentioned) ==
    /\ IF mentioned = {}
       THEN UNCHANGED pressures
       ELSE pressures < MaxPressures /\ pressures' = pressures + 1
    /\ suspicion' =
         [p \in Players |->
            IF p \in alive
            THEN [m \in Players |->
                    suspicion[p][m] + (IF m \in mentioned /\ m # p THEN 1 ELSE 0)]
            ELSE suspicion[p]]

AskDeadNpc(npc, mentioned) ==
    /\ winner = None
    /\ npc \notin alive
    /\ ApplyQuestionPressure(mentioned)
    /\ phase' = "npc_response"
    /\ UNCHANGED <<role, alive, deaths, seerResults, claims, voteHistory, day, winner>>

(* Defect: the error path leaves the phase of the question.                *)
AskFailsMidPhase(npc, mentioned) ==
    /\ winner = None /\ npc \in alive
    /\ ApplyQuestionPressure(mentioned)
    /\ phase' = "player_question"
    /\ UNCHANGED <<role, alive, deaths, seerResults, claims, voteHistory, day, winner>>

AskProviderFails(npc, mentioned) ==
    /\ winner = None
    /\ npc \in alive
    /\ ApplyQuestionPressure(mentioned)
    /\ phase' = "day_discussion"
    /\ UNCHANGED <<role, alive, deaths, seerResults, claims, voteHistory, day, winner>>

(* Only a seer who already has a result claims, and only when the question *)
(* asks for the role; the claim publishes every result it has.             *)
WillClaim(npc) == role[npc] = "seer" /\ seerResults # <<>>

ResultsPublished == [i \in DOMAIN seerResults |->
    [target |-> seerResults[i].target, result |-> seerResults[i].result]]

AskNpc(npc, mentioned, asksRole) ==
    /\ winner = None
    /\ npc \in alive
    /\ ApplyQuestionPressure(mentioned)
    /\ phase' = "npc_response"
    /\ IF asksRole /\ WillClaim(npc)
       THEN /\ Len(claims) < MaxClaims
            /\ claims' = Append(claims,
                 [actor |-> npc, day |-> day, results |-> ResultsPublished])
       ELSE UNCHANGED claims
    /\ UNCHANGED <<role, alive, deaths, seerResults, voteHistory, day, winner>>

-----------------------------------------------------------------------------
(* advance_vote *)

ChooseVote(voter) == MostSuspected(suspicion[voter], alive \ {voter})
Votes == [voter \in alive |-> ChooseVote(voter)]

CountFor(votes, p) == Cardinality({v \in DOMAIN votes : votes[v] = p})
AggregateSuspicion(p) == MapThenSumSet(LAMBDA v : suspicion[v][p], alive \ {p})

MostVoted(votes) ==
    {p \in Players : /\ CountFor(votes, p) > 0
                     /\ \A q \in Players : CountFor(votes, q) <= CountFor(votes, p)}

ResolveVote(votes) ==
    LET tied == MostVoted(votes)
    IN  MostSuspected([p \in tied |-> AggregateSuspicion(p)], tied)

RunVote ==
    /\ winner = None
    /\ \E votes \in {Votes} : \E executed \in {ResolveVote(votes)} :
         /\ KillPlayer(executed, "execution")
         /\ voteHistory' = Append(voteHistory,
              [day |-> day, votes |-> votes, executed |-> executed])
    /\ phase' = "win_check"
    /\ winner' = Tally(alive')
    /\ UNCHANGED <<role, suspicion, seerResults, claims, day, pressures>>

-----------------------------------------------------------------------------
(* run_night *)

AlreadyChecked == {seerResults[i].target : i \in DOMAIN seerResults}
(* Defect: the seer may check a player it already checked.                 *)
SeerRechecks == alive \ {TheSeer}
SeerCandidates == (alive \ {TheSeer}) \ AlreadyChecked

RunSeerAction ==
    IF TheSeer \in alive /\ SeerCandidates # {}
    THEN LET target == MostSuspected(suspicion[TheSeer], SeerCandidates)
             isWolf == role[target] = "werewolf"
         IN  /\ seerResults' = Append(seerResults,
                  [day |-> day, target |-> target,
                   result |-> IF isWolf THEN "werewolf" ELSE "not_werewolf"])
             /\ suspicion' = [suspicion EXCEPT ![TheSeer][target] =
                                IF isWolf THEN SeerFoundWolf ELSE SeerCleared]
    ELSE UNCHANGED <<seerResults, suspicion>>

(* The public seer claim the wolf reacts to is the first one on record.    *)
(* Defects: the wolf ignores the claim; it attacks a claimant who is dead. *)
AttackIgnoresClaim == LeastSuspected(suspicion[TheWolf], alive \ {TheWolf})
AttackStaleClaim ==
    IF claims # <<>> THEN claims[1].actor ELSE AttackIgnoresClaim

AttackTarget ==
    IF claims # <<>> /\ claims[1].actor \in alive
    THEN claims[1].actor
    ELSE LeastSuspected(suspicion[TheWolf], alive \ {TheWolf})

RunWerewolfAttack ==
    IF TheWolf \in alive /\ alive \ {TheWolf} # {}
    THEN KillPlayer(AttackTarget, "werewolf_attack")
    ELSE UNCHANGED <<alive, deaths>>

RunNight ==
    /\ winner = None
    /\ RunSeerAction
    /\ RunWerewolfAttack
    /\ winner' = Tally(alive')
    /\ IF winner' = None
       THEN day' = day + 1 /\ phase' = "day_discussion"
       ELSE day' = day     /\ phase' = "win_check"
    /\ UNCHANGED <<role, claims, voteHistory, pressures>>

-----------------------------------------------------------------------------
Next ==
    \/ \E npc \in Players, mentioned \in Mentions :
         \/ AskDeadNpc(npc, mentioned)
         \/ AskProviderFails(npc, mentioned)
         \/ \E asksRole \in BOOLEAN : AskNpc(npc, mentioned, asksRole)
    \/ RunVote
    \/ RunNight

Spec == Init /\ [][Next]_vars

-----------------------------------------------------------------------------
Result   == [target : Players, result : {"werewolf", "not_werewolf"}]
NightLog == [day : Nat, target : Players, result : {"werewolf", "not_werewolf"}]
ClaimLog == [actor : Players, day : Nat, results : Seq(Result)]
Causes   == {"execution", "werewolf_attack"}
DeathLog == [player : Players, day : Nat, cause : Causes]
Ballots  == UNION {[S -> Players] : S \in SUBSET Players}

TypeOK ==
    /\ role \in RoleDeals
    /\ alive \subseteq Players
    /\ deaths \in Seq(DeathLog)
    /\ suspicion \in [Players -> [Players -> Int]]
    /\ seerResults \in Seq(NightLog)
    /\ claims \in Seq(ClaimLog)
    /\ voteHistory \in Seq([day : Nat, votes : Ballots, executed : Players])
    /\ phase \in Phases
    /\ day \in Nat
    /\ winner \in {None, "village", "werewolf"}
    /\ pressures \in Nat

(* checkWin runs after every death: the recorded winner is at all times    *)
(* the one the living players' tally decides, so no death that ends the    *)
(* game is ever followed by another command.                               *)
WinnerMatchesTally == winner = Tally(alive)

(* The seer's private knowledge is truthful, never about itself, and never *)
(* repeats a target, whatever questions did to its suspicions in between.  *)
SeerKnowsTheTruth ==
    /\ \A i \in DOMAIN seerResults :
         /\ seerResults[i].target # TheSeer
         /\ seerResults[i].result = "werewolf" <=> seerResults[i].target = TheWolf
    /\ \A i, j \in DOMAIN seerResults :
         seerResults[i].target = seerResults[j].target => i = j

(* A public claim is made by the real seer and repeats results the seer    *)
(* already had when it claimed, in the order it got them.                  *)
ClaimsRepeatResults ==
    \A i \in DOMAIN claims :
        /\ claims[i].actor = TheSeer
        /\ claims[i].results # <<>>
        /\ Len(claims[i].results) <= Len(seerResults)
        /\ \A k \in DOMAIN claims[i].results :
             /\ claims[i].results[k].target = seerResults[k].target
             /\ claims[i].results[k].result = seerResults[k].result
             /\ seerResults[k].day < claims[i].day

(* The seer, the only one with knowledge, never errs and never invents.    *)
SeerIsHonest == SeerKnowsTheTruth /\ ClaimsRepeatResults

(* The werewolf hunts the first public seer claim: whoever claimed on an   *)
(* earlier day is dead, executed that day or killed the night after.       *)
ClaimedSeerFalls ==
    \A i \in DOMAIN claims : claims[i].day < day => claims[i].actor \notin alive

(* No legal sequence of commands makes killPlayer throw: while the game    *)
(* is open the vote elects a living player and the attack finds a living   *)
(* victim other than the werewolf.                                         *)
KillsNeverThrow ==
    winner = None =>
        /\ \A votes \in {Votes} : ResolveVote(votes) \in alive
        /\ AttackTarget \in alive \ {TheWolf}

(* The dead take no further part: a dead player's suspicions never change, *)
(* a dead seer neither checks nor claims, and the dead do not return.      *)
DeadTakeNoPart ==
    [][/\ alive' \subseteq alive
       /\ \A p \in Players \ alive : suspicion'[p] = suspicion[p]
       /\ TheSeer \notin alive => UNCHANGED <<seerResults, claims>>]_vars

(* Every vote and every night but the last takes a life, and at least two  *)
(* players survive: a game is over after at most Cardinality(Players) - 2  *)
(* votes and nights, and an open game always has three players to go on.   *)
GameIsShort ==
    /\ Len(voteHistory) + (day - 1) <= Len(deaths)
    /\ Len(deaths) <= Cardinality(Players) - (IF winner = None THEN 3 ELSE 2)

=============================================================================
