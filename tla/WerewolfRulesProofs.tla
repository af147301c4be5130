------------------------ MODULE WerewolfRulesProofs ------------------------
(* Theorems about WerewolfRules, for every village: any finite set of at   *)
(* least three players, any deal, any suspicions, any number of questions. *)
EXTENDS WerewolfRules, FiniteSetTheorems, WellFoundedInduction, TLAPS

-----------------------------------------------------------------------------
(* Choosing from a finite set: the rankings of the code always have a      *)
(* first element, and it is one of the candidates.                         *)

(* A non-empty set of naturals has a least element.                        *)
LEMMA NatMin ==
  ASSUME NEW T \in SUBSET Nat, T # {}
  PROVE  \E x \in T : \A y \in T : x <= y
<1> DEFINE R == {ss \in Nat \X Nat : ss[1] < ss[2]}
<1>1. IsWellFoundedOn(R, Nat)
  BY NatLessThanWellFounded DEF OpToRel
<1>2. PICK x \in T : \A y \in T : ~(<<y, x>> \in R)
  BY <1>1, WFMin
<1>3. ASSUME NEW y \in T, ~(x <= y) PROVE FALSE
  <2>1. <<y, x>> \in Nat \X Nat /\ y < x
    BY <1>3
  <2>2. <<y, x>> \in R
    BY <2>1
  <2> QED BY <1>2, <2>2
<1> QED BY <1>3

(* A finite set has an element with the greatest score.                    *)
LEMMA FiniteArgMax ==
  ASSUME NEW S, IsFiniteSet(S), S # {}, NEW f, \A x \in S : f[x] \in Int
  PROVE  \E x \in S : \A y \in S : f[y] <= f[x]
<1> DEFINE Below(x) == {y \in S : f[y] < f[x]}
           Above(x) == Cardinality(S) - Cardinality(Below(x))
           T == {Above(x) : x \in S}
<1>1. \A x \in S : /\ IsFiniteSet(Below(x)) /\ Cardinality(Below(x)) \in Nat
                   /\ Cardinality(Below(x)) <= Cardinality(S)
                   /\ Cardinality(S) \in Nat
  BY FS_Subset, FS_CardinalityType
<1> HIDE DEF Below
<1>2. \A x \in S : Above(x) \in Nat
  BY <1>1
<1>3. T \in SUBSET Nat /\ T # {}
  BY <1>2
<1>4. PICK m \in T : \A y \in T : m <= y
  <2> HIDE DEF T
  <2> QED BY <1>3, NatMin
<1>5. PICK x \in S : \A y \in S : Above(x) <= Above(y)
  BY <1>4
<1>6. ASSUME NEW y \in S, ~(f[y] <= f[x]) PROVE FALSE
  <2>1. f[x] < f[y]
    BY <1>6
  <2>2. Below(x) \subseteq Below(y) /\ x \in Below(y) /\ x \notin Below(x)
    BY <2>1 DEF Below
  <2>3. /\ Cardinality(Below(x)) <= Cardinality(Below(y))
        /\ Cardinality(Below(x)) # Cardinality(Below(y))
    BY <1>1, <2>2, FS_Subset
  <2> QED BY <1>1, <1>5, <2>3
<1> QED BY <1>6

(* The first by name of some candidates is one of them.                    *)
LEMMA FirstByNameExists ==
  ASSUME NEW S \in SUBSET Players, S # {}
  PROVE  FirstByName(S) \in S
<1> DEFINE f == [p \in S |-> 0 - NameRank[p]]
<1>1. IsFiniteSet(S)
  BY FS_Subset, PlayersAssumption
<1>2. \A p \in S : f[p] \in Int /\ NameRank[p] \in Nat
  BY NameRankAssumption
<1>3. PICK p \in S : \A q \in S : f[q] <= f[p]
  <2> HIDE DEF f
  <2> QED BY <1>1, <1>2, FiniteArgMax
<1>4. \A q \in S : NameRank[p] <= NameRank[q]
  BY <1>2, <1>3
<1> QED BY <1>4 DEF FirstByName

(* The most suspected of some candidates is one of them.                   *)
LEMMA MostSuspectedExists ==
  ASSUME NEW S \in SUBSET Players, S # {}, NEW score, \A p \in S : score[p] \in Int
  PROVE  MostSuspected(score, S) \in S
<1>1. PICK p \in S : \A q \in S : score[q] <= score[p]
  BY FiniteArgMax, FS_Subset, PlayersAssumption
<1>2. {p2 \in S : \A q \in S : score[q] <= score[p2]} # {}
  BY <1>1
<1> QED BY <1>2, FirstByNameExists DEF MostSuspected

(* The least suspected of some candidates is one of them.                  *)
LEMMA LeastSuspectedExists ==
  ASSUME NEW S \in SUBSET Players, S # {}, NEW score, \A p \in S : score[p] \in Int
  PROVE  LeastSuspected(score, S) \in S
<1> DEFINE f == [p \in S |-> 0 - score[p]]
<1>1. \A p \in S : f[p] \in Int
  OBVIOUS
<1>2. IsFiniteSet(S)
  BY FS_Subset, PlayersAssumption
<1>3. PICK p \in S : \A q \in S : f[q] <= f[p]
  <2> HIDE DEF f
  <2> QED BY <1>1, <1>2, FiniteArgMax
<1>4. \A q \in S : score[p] <= score[q]
  BY <1>3
<1>5. {p2 \in S : \A q \in S : score[p2] <= score[q]} # {}
  BY <1>4
<1> QED BY <1>5, FirstByNameExists DEF LeastSuspected

-----------------------------------------------------------------------------
(* What a deal of the roles gives: one werewolf, one seer, and they differ *)

(* A deal has exactly one werewolf and one seer, who differ.               *)
LEMMA DealFacts ==
  ASSUME role \in RoleDeals
  PROVE  /\ TheWolf \in Players /\ TheSeer \in Players /\ TheWolf # TheSeer
         /\ \A p \in Players : role[p] = "werewolf" <=> p = TheWolf
         /\ \A p \in Players : role[p] = "seer" <=> p = TheSeer
<1>1. PICK w \in Players, s \in Players :
        /\ w # s
        /\ \A p \in Players :
             role[p] = IF p = w THEN "werewolf" ELSE IF p = s THEN "seer" ELSE "citizen"
  BY DEF RoleDeals
<1>2. \A p \in Players : (role[p] = "werewolf" <=> p = w) /\ (role[p] = "seer" <=> p = s)
  BY <1>1
<1>3. TheWolf = w /\ TheSeer = s
  BY <1>2 DEF TheWolf, TheSeer
<1> QED BY <1>1, <1>2, <1>3

(* An open game has its werewolf and at least two villagers.               *)
LEMMA OpenTally ==
  ASSUME role \in RoleDeals, NEW living \in SUBSET Players
  PROVE  /\ Tally(living) = None => TheWolf \in living /\ Cardinality(living) >= 3
         /\ TheWolf \in living /\ Cardinality(living) >= 3 => Tally(living) = None
         /\ Tally(living) \in {None, "village", "werewolf"}
<1> DEFINE wolves == {p \in living : TeamOf(p) = "werewolf"}
<1>1. TheWolf \in Players /\ \A p \in Players : role[p] = "werewolf" <=> p = TheWolf
  BY DealFacts
<1>2. wolves = IF TheWolf \in living THEN {TheWolf} ELSE {}
  BY <1>1 DEF TeamOf
<1>3. IsFiniteSet(living) /\ Cardinality(living) \in Nat
  BY PlayersAssumption, FS_Subset, FS_CardinalityType
<1>4. Cardinality({TheWolf}) = 1
  BY FS_Singleton
<1>5. TheWolf \in living =>
        Cardinality(living \ {TheWolf}) = Cardinality(living) - 1
  BY <1>3, FS_RemoveElement
<1>6. CASE TheWolf \in living
  <2>1. wolves = {TheWolf}
    BY <1>2, <1>6
  <2>2. Tally(living) = IF 1 >= Cardinality(living) - 1 THEN "werewolf" ELSE None
    BY <2>1, <1>4, <1>5, <1>6 DEF Tally
  <2> QED BY <2>2, <1>3, <1>6, NoneAssumption
<1>7. CASE TheWolf \notin living
  <2>1. Tally(living) = "village"
    BY <1>2, <1>7 DEF Tally
  <2> QED BY <2>1, <1>7, NoneAssumption
<1> QED BY <1>6, <1>7

-----------------------------------------------------------------------------
(* The inductive invariant.  TypeOK, the tally and the count of the dead   *)
(* carry each other: a command needs a living werewolf and two villagers   *)
(* to find its candidates, and the tally promises them while the game is   *)
(* open.  The seer's results are older than today in an open game, which   *)
(* is why a claim is always dated after the results it publishes.          *)

DeathsCounted == Len(deaths) + Cardinality(alive) = Cardinality(Players)
TwoSurvive    == Cardinality(alive) >= 2
DaysCostLives == Len(voteHistory) + (day - 1) <= Len(deaths)
ResultsAreOld == winner = None => \A i \in DOMAIN seerResults : seerResults[i].day < day
ClaimsNotFuture == \A i \in DOMAIN claims : claims[i].day <= day

IInv ==
    /\ TypeOK
    /\ WinnerMatchesTally
    /\ DeathsCounted
    /\ TwoSurvive
    /\ DaysCostLives
    /\ SeerKnowsTheTruth
    /\ ResultsAreOld
    /\ ClaimsRepeatResults
    /\ ClaimsNotFuture
    /\ ClaimedSeerFalls

(* The living are a finite set.                                            *)
LEMMA AliveIsFinite ==
  ASSUME TypeOK
  PROVE  /\ IsFiniteSet(alive) /\ Cardinality(alive) \in Nat
         /\ Cardinality(Players) \in Nat
BY PlayersAssumption, FS_Subset, FS_CardinalityType DEF TypeOK

(* An open game offers every voter and the werewolf somebody to choose.    *)
LEMMA OpenGame ==
  ASSUME IInv, winner = None
  PROVE  /\ TheWolf \in alive
         /\ Cardinality(alive) >= 3
         /\ \A p \in Players : alive \ {p} # {}
<1>1. TheWolf \in alive /\ Cardinality(alive) >= 3
  BY OpenTally DEF IInv, TypeOK, WinnerMatchesTally
<1>2. ASSUME NEW p \in Players, alive \ {p} = {} PROVE FALSE
  <2>1. alive = {TheWolf}
    BY <1>1, <1>2
  <2>2. Cardinality(alive) = 1
    BY <2>1, FS_Singleton
  <2> QED BY <1>1, <2>2
<1> QED BY <1>1, <1>2

(* A kill takes exactly one of the living.                                 *)
LEMMA KillStep ==
  ASSUME TypeOK, NEW p, NEW cause \in Causes, KillPlayer(p, cause)
  PROVE  /\ p \in Players
         /\ alive' \in SUBSET Players
         /\ deaths' \in Seq(DeathLog)
         /\ Len(deaths') = Len(deaths) + 1
         /\ Cardinality(alive') = Cardinality(alive) - 1
<1>1. p \in alive /\ alive \subseteq Players /\ day \in Nat
  BY DEF KillPlayer, TypeOK
<1>2. [player |-> p, day |-> day, cause |-> cause]
         \in DeathLog
  BY <1>1 DEF DeathLog
<1>3. /\ deaths' \in Seq(DeathLog)
      /\ Len(deaths') = Len(deaths) + 1
  BY <1>2 DEF KillPlayer, TypeOK
<1>4. Cardinality(alive') = Cardinality(alive) - 1
  BY <1>1, AliveIsFinite, FS_RemoveElement DEF KillPlayer
<1> QED BY <1>1, <1>3, <1>4 DEF KillPlayer

-----------------------------------------------------------------------------
(* Every new game satisfies the inductive invariant.                       *)
LEMMA InitInvariant == Init => IInv
<1> SUFFICES ASSUME Init PROVE IInv
  OBVIOUS
<1>1. role \in RoleDeals
  BY InitialRolesAssumption DEF Init
<1>2. TypeOK
  BY <1>1, InitialSuspicionAssumption DEF Init, TypeOK, Phases
<1>3. TheWolf \in Players
  BY <1>1, DealFacts
<1>4. WinnerMatchesTally
  BY <1>1, <1>3, OpenTally, PlayersAssumption DEF Init, WinnerMatchesTally
<1>5. DeathsCounted /\ TwoSurvive /\ DaysCostLives
  BY <1>2, AliveIsFinite, PlayersAssumption DEF Init, DeathsCounted, TwoSurvive, DaysCostLives
<1>6. /\ SeerKnowsTheTruth /\ ResultsAreOld /\ ClaimsRepeatResults
      /\ ClaimsNotFuture /\ ClaimedSeerFalls
  BY DEF Init, SeerKnowsTheTruth, ResultsAreOld, ClaimsRepeatResults,
         ClaimsNotFuture, ClaimedSeerFalls
<1> QED BY <1>2, <1>4, <1>5, <1>6 DEF IInv

(* A question moves no life and no day: only the suspicions, the phase and *)
(* possibly one more claim.                                                *)
LEMMA PressureType ==
  ASSUME TypeOK, NEW mentioned, ApplyQuestionPressure(mentioned)
  PROVE  suspicion' \in [Players -> [Players -> Int]] /\ pressures' \in Nat
BY DEF TypeOK, ApplyQuestionPressure

(* A question that makes nobody claim preserves the invariant.             *)
LEMMA QuietQuestion ==
  ASSUME IInv, NEW mentioned, ApplyQuestionPressure(mentioned), phase' \in Phases,
         UNCHANGED <<role, alive, deaths, seerResults, claims, voteHistory, day, winner>>
  PROVE  IInv'
<1>1. TypeOK'
  BY PressureType DEF IInv, TypeOK
<1>2. TheWolf' = TheWolf /\ TheSeer' = TheSeer /\ Tally(alive)' = Tally(alive)
  BY DEF TheWolf, TheSeer, Tally, TeamOf
<1>3. /\ WinnerMatchesTally' /\ DeathsCounted' /\ TwoSurvive' /\ DaysCostLives'
      /\ ResultsAreOld' /\ ClaimsNotFuture' /\ ClaimedSeerFalls'
  BY <1>2 DEF IInv, WinnerMatchesTally, DeathsCounted, TwoSurvive, DaysCostLives,
              ResultsAreOld, ClaimsNotFuture, ClaimedSeerFalls
<1>4. SeerKnowsTheTruth' /\ ClaimsRepeatResults'
  BY <1>2 DEF IInv, SeerKnowsTheTruth, ClaimsRepeatResults
<1> QED BY <1>1, <1>3, <1>4 DEF IInv

(* A question that makes the seer claim preserves the invariant.           *)
LEMMA ClaimingQuestion ==
  ASSUME IInv, winner = None, NEW npc \in alive, WillClaim(npc),
         NEW mentioned, ApplyQuestionPressure(mentioned), phase' \in Phases,
         claims' = Append(claims,
            [actor |-> npc, day |-> day, results |-> ResultsPublished]),
         UNCHANGED <<role, alive, deaths, seerResults, voteHistory, day, winner>>
  PROVE  IInv'
<1> USE DEF IInv
<1>1. npc = TheSeer /\ npc \in Players /\ seerResults # <<>>
  BY DealFacts DEF WillClaim, TypeOK
<1>2. /\ ResultsPublished \in Seq(Result)
      /\ Len(ResultsPublished) = Len(seerResults)
      /\ ResultsPublished # <<>>
      /\ \A k \in DOMAIN ResultsPublished :
            /\ k \in DOMAIN seerResults
            /\ ResultsPublished[k].target = seerResults[k].target
            /\ ResultsPublished[k].result = seerResults[k].result
  <2>1. seerResults \in Seq(NightLog) /\ Len(seerResults) \in Nat
        /\ DOMAIN seerResults = 1 .. Len(seerResults) /\ Len(seerResults) # 0
    BY <1>1 DEF TypeOK
  <2>2. \A k \in 1 .. Len(seerResults) : seerResults[k] \in NightLog
    BY <2>1
  <2>3. ResultsPublished \in [1 .. Len(seerResults) -> Result]
    BY <2>1, <2>2 DEF ResultsPublished, Result, NightLog
  <2> QED BY <2>1, <2>3 DEF ResultsPublished
<1> DEFINE claim == [actor |-> npc, day |-> day, results |-> ResultsPublished]
<1>3. claim \in ClaimLog
  BY <1>1, <1>2 DEF TypeOK, ClaimLog
<1> HIDE DEF claim
<1>4. /\ claims' \in Seq(ClaimLog)
      /\ DOMAIN claims' = 1 .. Len(claims) + 1
      /\ Len(claims) \in Nat /\ DOMAIN claims = 1 .. Len(claims)
      /\ claims'[Len(claims) + 1] = claim
      /\ \A i \in 1 .. Len(claims) : claims'[i] = claims[i]
  BY <1>3 DEF TypeOK, claim
<1>5. TypeOK'
  BY <1>4, PressureType DEF TypeOK
<1>6. TheWolf' = TheWolf /\ TheSeer' = TheSeer /\ Tally(alive)' = Tally(alive)
  BY DEF TheWolf, TheSeer, Tally, TeamOf
<1>7. /\ WinnerMatchesTally' /\ DeathsCounted' /\ TwoSurvive' /\ DaysCostLives'
      /\ ResultsAreOld' /\ SeerKnowsTheTruth'
  BY <1>6 DEF WinnerMatchesTally, DeathsCounted, TwoSurvive, DaysCostLives,
              ResultsAreOld, SeerKnowsTheTruth
<1>8. ClaimsNotFuture' /\ ClaimedSeerFalls'
  <2>1. claim.day = day /\ day \in Nat
    BY DEF claim, TypeOK
  <2>2. \A i \in DOMAIN claims' :
          \/ i \in DOMAIN claims /\ claims'[i] = claims[i]
          \/ claims'[i] = claim
    BY <1>4
  <2> QED BY <2>1, <2>2 DEF ClaimsNotFuture, ClaimedSeerFalls
<1>9. ClaimsRepeatResults'
  <2> SUFFICES ASSUME NEW i \in DOMAIN claims'
               PROVE  /\ claims'[i].actor = TheSeer
                      /\ claims'[i].results # <<>>
                      /\ Len(claims'[i].results) <= Len(seerResults)
                      /\ \A k \in DOMAIN claims'[i].results :
                           /\ claims'[i].results[k].target = seerResults[k].target
                           /\ claims'[i].results[k].result = seerResults[k].result
                           /\ seerResults[k].day < claims'[i].day
    BY <1>6 DEF ClaimsRepeatResults
  <2>1. CASE i \in 1 .. Len(claims)
    BY <2>1, <1>4 DEF ClaimsRepeatResults
  <2>2. CASE i = Len(claims) + 1
    <3>1. claims'[i] = claim
      BY <2>2, <1>4
    <3>2. Len(seerResults) \in Nat
      BY DEF TypeOK
    <3> QED BY <3>1, <3>2, <1>1, <1>2 DEF claim, ResultsAreOld
  <2> QED BY <2>1, <2>2, <1>4
<1> QED BY <1>5, <1>7, <1>8, <1>9

-----------------------------------------------------------------------------
(* A vote with its execution preserves the invariant.                      *)
LEMMA VoteStep ==
  ASSUME IInv, RunVote
  PROVE  IInv'
<1> USE DEF IInv
<1> DEFINE votes == Votes
           executed == ResolveVote(votes)
<1>1. /\ KillPlayer(executed, "execution")
      /\ voteHistory' = Append(voteHistory,
           [day |-> day, votes |-> votes, executed |-> executed])
  BY DEF RunVote
<1>2. /\ winner = None /\ phase' = "win_check" /\ winner' = Tally(alive')
      /\ UNCHANGED <<role, suspicion, seerResults, claims, day, pressures>>
  BY DEF RunVote
<1> HIDE DEF executed
<1>3. /\ executed \in Players /\ alive' \in SUBSET Players
      /\ deaths' \in Seq(DeathLog)
      /\ Len(deaths') = Len(deaths) + 1
      /\ Cardinality(alive') = Cardinality(alive) - 1
  BY <1>1, KillStep DEF Causes
<1>4. TheWolf' = TheWolf /\ TheSeer' = TheSeer /\ Tally(alive)' = Tally(alive')
  BY <1>2 DEF TheWolf, TheSeer, Tally, TeamOf
<1>5. votes \in Ballots
  <2>1. \A voter \in alive : ChooseVote(voter) \in Players
    <3> TAKE voter \in alive
    <3>1. voter \in Players /\ alive \ {voter} \in SUBSET Players /\ alive \ {voter} # {}
      BY <1>2, OpenGame DEF TypeOK
    <3>2. \A p \in alive \ {voter} : suspicion[voter][p] \in Int
      BY <3>1 DEF TypeOK
    <3> QED BY <3>1, <3>2, MostSuspectedExists DEF ChooseVote
  <2>2. Votes \in [alive -> Players] /\ alive \in SUBSET Players
    BY <2>1 DEF Votes, TypeOK
  <2> QED BY <2>2 DEF Ballots
<1> HIDE DEF votes
<1>6. /\ voteHistory' \in Seq([day : Nat, votes : Ballots, executed : Players])
      /\ Len(voteHistory') = Len(voteHistory) + 1
  BY <1>1, <1>3, <1>5 DEF TypeOK
<1>7. TypeOK'
  BY <1>2, <1>3, <1>6, OpenTally DEF TypeOK, Phases
<1>8. WinnerMatchesTally'
  BY <1>2, <1>4 DEF WinnerMatchesTally
<1>9. DeathsCounted' /\ TwoSurvive' /\ DaysCostLives'
  <2>1. Cardinality(alive) >= 3 /\ Cardinality(alive) \in Nat
    BY <1>2, OpenGame, AliveIsFinite
  <2>2. Len(deaths) \in Nat /\ Len(voteHistory) \in Nat /\ day \in Nat
        /\ Cardinality(Players) \in Nat
    BY AliveIsFinite DEF TypeOK
  <2>3. DeathsCounted'
    BY <1>3, <2>1, <2>2 DEF DeathsCounted
  <2>4. TwoSurvive'
    BY <1>3, <2>1 DEF TwoSurvive
  <2>5. DaysCostLives'
    BY <1>2, <1>3, <1>6, <2>2 DEF DaysCostLives
  <2> QED BY <2>3, <2>4, <2>5
<1>10. /\ SeerKnowsTheTruth' /\ ResultsAreOld' /\ ClaimsRepeatResults'
       /\ ClaimsNotFuture'
  BY <1>2, <1>4 DEF SeerKnowsTheTruth, ResultsAreOld, ClaimsRepeatResults, ClaimsNotFuture
<1>11. ClaimedSeerFalls'
  BY <1>1, <1>2 DEF KillPlayer, ClaimedSeerFalls
<1> QED BY <1>7, <1>8, <1>9, <1>10, <1>11

(* The seer's check adds at most one truthful result about a new target,   *)
(* dated today, and disturbs no suspicion but its own.                     *)
LEMMA SeerStep ==
  ASSUME TypeOK, SeerKnowsTheTruth, RunSeerAction, UNCHANGED role
  PROVE  /\ seerResults' \in Seq(NightLog)
         /\ suspicion' \in [Players -> [Players -> Int]]
         /\ SeerKnowsTheTruth'
         /\ Len(seerResults') >= Len(seerResults)
         /\ \A i \in DOMAIN seerResults' :
              \/ i \in DOMAIN seerResults /\ seerResults'[i] = seerResults[i]
              \/ i \notin DOMAIN seerResults /\ seerResults'[i].day = day
         /\ \A i \in DOMAIN seerResults :
              i \in DOMAIN seerResults' /\ seerResults'[i] = seerResults[i]
<1>1. TheWolf' = TheWolf /\ TheSeer' = TheSeer
  BY DEF TheWolf, TheSeer
<1>2. CASE ~(TheSeer \in alive /\ SeerCandidates # {})
  BY <1>1, <1>2 DEF RunSeerAction, TypeOK, SeerKnowsTheTruth
<1>3. CASE TheSeer \in alive /\ SeerCandidates # {}
  <2> DEFINE target == MostSuspected(suspicion[TheSeer], SeerCandidates)
             result == IF role[target] = "werewolf" THEN "werewolf" ELSE "not_werewolf"
             entry  == [day |-> day, target |-> target, result |-> result]
             score  == IF role[target] = "werewolf" THEN SeerFoundWolf ELSE SeerCleared
  <2>1. /\ TheSeer \in Players
        /\ \A p \in Players : role[p] = "werewolf" <=> p = TheWolf
    BY DealFacts DEF TypeOK
  <2>2. target \in SeerCandidates
    <3>1. SeerCandidates \in SUBSET Players /\ SeerCandidates # {}
      BY <1>3 DEF SeerCandidates, TypeOK
    <3>2. \A p \in SeerCandidates : suspicion[TheSeer][p] \in Int
      BY <3>1, <2>1 DEF TypeOK
    <3> QED BY <3>1, <3>2, MostSuspectedExists
  <2>3. /\ target \in Players /\ target # TheSeer
        /\ \A i \in DOMAIN seerResults : seerResults[i].target # target
    BY <2>2 DEF SeerCandidates, AlreadyChecked, TypeOK
  <2>4. /\ seerResults' = Append(seerResults, entry)
        /\ suspicion' = [suspicion EXCEPT ![TheSeer][target] = score]
    BY <1>3 DEF RunSeerAction
  <2>5. /\ entry \in NightLog /\ entry.target = target /\ entry.day = day
        /\ entry.result = "werewolf" <=> target = TheWolf
    BY <2>1, <2>3 DEF NightLog, TypeOK
  <2>6. score \in Int
    BY DEF SeerFoundWolf, SeerCleared
  <2> HIDE DEF target, entry, score
  <2>7. suspicion' \in [Players -> [Players -> Int]]
    BY <2>1, <2>3, <2>4, <2>6 DEF TypeOK
  <2>8. /\ seerResults' \in Seq(NightLog)
        /\ DOMAIN seerResults = 1 .. Len(seerResults) /\ Len(seerResults) \in Nat
        /\ Len(seerResults') = Len(seerResults) + 1
        /\ DOMAIN seerResults' = 1 .. Len(seerResults) + 1
        /\ seerResults'[Len(seerResults) + 1] = entry
        /\ \A i \in 1 .. Len(seerResults) : seerResults'[i] = seerResults[i]
    BY <2>4, <2>5 DEF TypeOK
  <2>9. \A i \in DOMAIN seerResults' :
          \/ i \in DOMAIN seerResults /\ seerResults'[i] = seerResults[i]
          \/ i = Len(seerResults) + 1 /\ seerResults'[i] = entry
    BY <2>8
  <2>10. SeerKnowsTheTruth'
    <3>1. \A i \in DOMAIN seerResults' :
            /\ seerResults'[i].target # TheSeer
            /\ seerResults'[i].result = "werewolf" <=> seerResults'[i].target = TheWolf
      BY <2>3, <2>5, <2>9 DEF SeerKnowsTheTruth
    <3>2. \A i, j \in DOMAIN seerResults' :
            seerResults'[i].target = seerResults'[j].target => i = j
      BY <2>3, <2>5, <2>9 DEF SeerKnowsTheTruth
    <3> QED BY <1>1, <3>1, <3>2 DEF SeerKnowsTheTruth
  <2> QED BY <2>5, <2>7, <2>8, <2>9, <2>10
<1> QED BY <1>2, <1>3

(* The attack in an open game always finds its victim.                     *)
LEMMA AttackHasVictim ==
  ASSUME IInv, winner = None
  PROVE  AttackTarget \in alive \ {TheWolf}
<1> USE DEF IInv
<1>1. /\ TheWolf \in Players /\ TheSeer # TheWolf
      /\ alive \ {TheWolf} \in SUBSET Players /\ alive \ {TheWolf} # {}
  BY DealFacts, OpenGame DEF TypeOK
<1>2. CASE claims # <<>> /\ claims[1].actor \in alive
  <2>1. 1 \in DOMAIN claims
    BY <1>2 DEF TypeOK
  <2> QED BY <1>1, <1>2, <2>1 DEF AttackTarget, ClaimsRepeatResults
<1>3. CASE ~(claims # <<>> /\ claims[1].actor \in alive)
  <2>1. \A p \in alive \ {TheWolf} : suspicion[TheWolf][p] \in Int
    BY <1>1 DEF TypeOK
  <2> QED BY <1>1, <1>3, <2>1, LeastSuspectedExists DEF AttackTarget
<1> QED BY <1>2, <1>3

(* A night preserves the invariant.                                        *)
LEMMA NightStep ==
  ASSUME IInv, RunNight
  PROVE  IInv'
<1> USE DEF IInv
<1>1. /\ winner = None /\ RunSeerAction /\ RunWerewolfAttack
      /\ winner' = Tally(alive')
      /\ UNCHANGED <<role, claims, voteHistory, pressures>>
      /\ \/ winner' = None /\ day' = day + 1 /\ phase' = "day_discussion"
         \/ winner' # None /\ day' = day /\ phase' = "win_check"
  BY DEF RunNight
<1>2. KillPlayer(AttackTarget, "werewolf_attack")
  <2>1. TheWolf \in alive /\ TheWolf \in Players
    BY <1>1, OpenGame DEF TypeOK
  <2> QED BY <1>1, <2>1, OpenGame DEF RunWerewolfAttack
<1>3. /\ alive' \in SUBSET Players
      /\ deaths' \in Seq(DeathLog)
      /\ Len(deaths') = Len(deaths) + 1
      /\ Cardinality(alive') = Cardinality(alive) - 1
  BY <1>2, KillStep DEF Causes
<1>4. TheWolf' = TheWolf /\ TheSeer' = TheSeer /\ Tally(alive)' = Tally(alive')
  BY <1>1 DEF TheWolf, TheSeer, Tally, TeamOf
<1>5. /\ seerResults' \in Seq(NightLog)
      /\ suspicion' \in [Players -> [Players -> Int]]
      /\ SeerKnowsTheTruth'
      /\ Len(seerResults') >= Len(seerResults)
      /\ \A i \in DOMAIN seerResults' :
           \/ i \in DOMAIN seerResults /\ seerResults'[i] = seerResults[i]
           \/ i \notin DOMAIN seerResults /\ seerResults'[i].day = day
      /\ \A i \in DOMAIN seerResults :
           i \in DOMAIN seerResults' /\ seerResults'[i] = seerResults[i]
  BY <1>1, SeerStep
<1>6. day \in Nat /\ day' \in Nat
  BY <1>1 DEF TypeOK
<1>7. TypeOK'
  BY <1>1, <1>3, <1>5, <1>6, OpenTally DEF TypeOK, Phases
<1>8. WinnerMatchesTally'
  BY <1>1, <1>4 DEF WinnerMatchesTally
<1>9. DeathsCounted' /\ TwoSurvive' /\ DaysCostLives'
  <2>1. Cardinality(alive) >= 3 /\ Cardinality(alive) \in Nat
    BY <1>1, OpenGame, AliveIsFinite
  <2>2. Len(deaths) \in Nat /\ Len(voteHistory) \in Nat
        /\ Cardinality(Players) \in Nat
    BY AliveIsFinite DEF TypeOK
  <2>3. DeathsCounted'
    BY <1>3, <2>1, <2>2 DEF DeathsCounted
  <2>4. TwoSurvive'
    BY <1>3, <2>1 DEF TwoSurvive
  <2>5. DaysCostLives'
    BY <1>1, <1>3, <1>6, <2>2 DEF DaysCostLives
  <2> QED BY <2>3, <2>4, <2>5
<1>10. ResultsAreOld'
  <2>1. \A i \in DOMAIN seerResults : seerResults[i].day \in Nat
    <3> TAKE i \in DOMAIN seerResults
    <3>1. seerResults[i] \in NightLog
      BY DEF TypeOK
    <3> QED BY <3>1 DEF NightLog
  <2>2. \A i \in DOMAIN seerResults : seerResults[i].day < day + 1
    BY <1>1, <1>6, <2>1 DEF ResultsAreOld
  <2> QED BY <1>1, <1>5, <1>6, <2>2 DEF ResultsAreOld
<1>typed. \A i \in DOMAIN claims : claims[i].day \in Nat /\ claims[i].results \in Seq(Result)
  <2> TAKE i \in DOMAIN claims
  <2>1. claims[i] \in ClaimLog
    BY DEF TypeOK
  <2> QED BY <2>1 DEF ClaimLog
<1>11. ClaimsNotFuture'
  BY <1>1, <1>6, <1>typed DEF ClaimsNotFuture
<1>12. ClaimsRepeatResults'
  <2> SUFFICES ASSUME NEW i \in DOMAIN claims
               PROVE  /\ claims[i].actor = TheSeer
                      /\ claims[i].results # <<>>
                      /\ Len(claims[i].results) <= Len(seerResults')
                      /\ \A k \in DOMAIN claims[i].results :
                           /\ claims[i].results[k].target = seerResults'[k].target
                           /\ claims[i].results[k].result = seerResults'[k].result
                           /\ seerResults'[k].day < claims[i].day
    BY <1>1, <1>4 DEF ClaimsRepeatResults
  <2>1. /\ claims[i].results \in Seq(Result)
        /\ Len(claims[i].results) \in Nat /\ Len(seerResults) \in Nat
        /\ Len(seerResults') \in Nat
    BY <1>5, <1>typed DEF TypeOK
  <2>2. \A k \in DOMAIN claims[i].results : k \in DOMAIN seerResults
    <3>1. /\ DOMAIN claims[i].results = 1 .. Len(claims[i].results)
          /\ DOMAIN seerResults = 1 .. Len(seerResults)
          /\ Len(claims[i].results) <= Len(seerResults)
      BY <2>1 DEF TypeOK, ClaimsRepeatResults
    <3> QED BY <2>1, <3>1
  <2> QED BY <1>5, <2>1, <2>2 DEF ClaimsRepeatResults
<1>13. ClaimedSeerFalls'
  <2> SUFFICES ASSUME NEW i \in DOMAIN claims, claims[i].day < day',
                      claims[i].actor \in alive'
               PROVE  FALSE
    BY <1>1 DEF ClaimedSeerFalls
  <2>1. claims[i].actor \in alive
    BY <1>2 DEF KillPlayer
  <2>2. 1 \in DOMAIN claims /\ claims # <<>>
    <3>1. DOMAIN claims = 1 .. Len(claims) /\ Len(claims) \in Nat
      BY DEF TypeOK
    <3>2. 1 <= Len(claims)
      BY <3>1
    <3> QED BY <3>1, <3>2
  <2>3. claims[1].actor = claims[i].actor
    BY <2>2 DEF ClaimsRepeatResults
  <2>4. AttackTarget = claims[i].actor
    BY <2>1, <2>2, <2>3 DEF AttackTarget
  <2> QED BY <1>2, <2>4 DEF KillPlayer
<1> QED BY <1>5, <1>7, <1>8, <1>9, <1>10, <1>11, <1>12, <1>13

-----------------------------------------------------------------------------
(* Every command preserves the invariant.                                  *)
LEMMA StepInvariant == IInv /\ [Next]_vars => IInv'
<1> SUFFICES ASSUME IInv, [Next]_vars PROVE IInv'
  OBVIOUS
<1>1. ASSUME NEW npc \in Players, NEW mentioned \in Mentions, AskDeadNpc(npc, mentioned)
      PROVE  IInv'
  BY <1>1, QuietQuestion DEF AskDeadNpc, Phases
<1>2. ASSUME NEW npc \in Players, NEW mentioned \in Mentions,
             AskProviderFails(npc, mentioned)
      PROVE  IInv'
  BY <1>2, QuietQuestion DEF AskProviderFails, Phases
<1>3. ASSUME NEW npc \in Players, NEW mentioned \in Mentions, NEW asksRole \in BOOLEAN,
             AskNpc(npc, mentioned, asksRole)
      PROVE  IInv'
  <2>1. CASE asksRole /\ WillClaim(npc)
    BY <1>3, <2>1, ClaimingQuestion DEF AskNpc, Phases
  <2>2. CASE ~(asksRole /\ WillClaim(npc))
    BY <1>3, <2>2, QuietQuestion DEF AskNpc, Phases
  <2> QED BY <2>1, <2>2
<1>4. ASSUME UNCHANGED vars PROVE IInv'
  <2>1. TheWolf' = TheWolf /\ TheSeer' = TheSeer /\ Tally(alive)' = Tally(alive)
    BY <1>4 DEF vars, TheWolf, TheSeer, Tally, TeamOf
  <2> QED BY <1>4, <2>1
        DEF vars, IInv, TypeOK, WinnerMatchesTally, DeathsCounted, TwoSurvive,
            DaysCostLives, SeerKnowsTheTruth, ResultsAreOld, ClaimsRepeatResults,
            ClaimsNotFuture, ClaimedSeerFalls
<1> QED BY <1>1, <1>2, <1>3, <1>4, VoteStep, NightStep DEF Next

(* The inductive invariant holds throughout every game.                    *)
THEOREM Invariance == Spec => []IInv
<1>1. Init => IInv
  BY InitInvariant
<1>2. IInv /\ [Next]_vars => IInv'
  BY StepInvariant
<1> QED BY <1>1, <1>2, PTL DEF Spec

(* gameEngine.mjs keeps its state well formed through every command.       *)
THEOREM TypeCorrect == Spec => []TypeOK
<1>1. IInv => TypeOK
  BY DEF IInv
<1> QED BY <1>1, Invariance, PTL

(* runSeerAction: the seer's private results are truthful and about        *)
(* distinct players, in every village.                                     *)
THEOREM SeerTruth == Spec => []SeerKnowsTheTruth
<1>1. IInv => SeerKnowsTheTruth
  BY DEF IInv
<1> QED BY <1>1, Invariance, PTL

(* maybeCreateRoleClaim: only the seer claims, and only what it knows.     *)
THEOREM ClaimsAreHonest == Spec => []ClaimsRepeatResults
<1>1. IInv => ClaimsRepeatResults
  BY DEF IInv
<1> QED BY <1>1, Invariance, PTL

(* runSeerAction and maybeCreateRoleClaim together.                        *)
THEOREM SeerHonest == Spec => []SeerIsHonest
BY SeerTruth, ClaimsAreHonest, PTL DEF SeerIsHonest

(* runWerewolfAttack: nobody who claimed survives the following night.     *)
THEOREM ClaimIsFatal == Spec => []ClaimedSeerFalls
<1>1. IInv => ClaimedSeerFalls
  BY DEF IInv
<1> QED BY <1>1, Invariance, PTL

(* runVote and runNight: the bound on the length of a game.                *)
THEOREM GameTerminates == Spec => []GameIsShort
<1>1. IInv => GameIsShort
  <2> SUFFICES ASSUME IInv PROVE GameIsShort
    OBVIOUS
  <2>1. /\ Len(deaths) + Cardinality(alive) = Cardinality(Players)
        /\ Len(deaths) \in Nat /\ Cardinality(alive) \in Nat /\ Cardinality(Players) \in Nat
        /\ Cardinality(alive) >= 2
    BY AliveIsFinite DEF IInv, DeathsCounted, TwoSurvive, TypeOK
  <2>2. winner = None => Cardinality(alive) >= 3
    BY OpenGame
  <2>3. Len(voteHistory) + (day - 1) <= Len(deaths)
    BY DEF IInv, DaysCostLives
  <2> QED BY <2>1, <2>2, <2>3 DEF GameIsShort
<1> QED BY <1>1, Invariance, PTL

(* The dead neither speak nor act nor change their minds.                  *)
THEOREM DeadAreOut == Spec => DeadTakeNoPart
<1> DEFINE Step == /\ alive' \subseteq alive
                   /\ \A p \in Players \ alive : suspicion'[p] = suspicion[p]
                   /\ TheSeer \notin alive => UNCHANGED <<seerResults, claims>>
<1>1. IInv /\ [Next]_vars => [Step]_vars
  <2> SUFFICES ASSUME IInv, Next PROVE Step
    BY DEF vars
  <2>1. ASSUME NEW npc \in Players, NEW mentioned \in Mentions,
               AskDeadNpc(npc, mentioned) \/ AskProviderFails(npc, mentioned)
        PROVE  Step
    BY <2>1 DEF AskDeadNpc, AskProviderFails, ApplyQuestionPressure
  <2>2. ASSUME NEW npc \in Players, NEW mentioned \in Mentions,
               NEW asksRole \in BOOLEAN, AskNpc(npc, mentioned, asksRole)
        PROVE  Step
    <3>1. TheSeer \notin alive => ~WillClaim(npc)
      BY <2>2, DealFacts DEF AskNpc, WillClaim, IInv, TypeOK
    <3> QED BY <2>2, <3>1 DEF AskNpc, ApplyQuestionPressure
  <2>3. CASE RunVote
    BY <2>3 DEF RunVote, KillPlayer
  <2>4. CASE RunNight
    <3>1. TheSeer \in Players
      BY DealFacts DEF IInv, TypeOK
    <3>2. /\ alive' \subseteq alive
          /\ UNCHANGED claims
      BY <2>4 DEF RunNight, RunWerewolfAttack, KillPlayer
    <3>3. TheSeer \notin alive => UNCHANGED <<seerResults, suspicion>>
      BY <2>4 DEF RunNight, RunSeerAction
    <3>4. \A p \in Players : p # TheSeer => suspicion'[p] = suspicion[p]
      BY <2>4 DEF RunNight, RunSeerAction, IInv, TypeOK
    <3> QED BY <3>2, <3>3, <3>4
  <2> QED BY <2>1, <2>2, <2>3, <2>4 DEF Next
<1>2. []IInv /\ [][Next]_vars => DeadTakeNoPart
  BY <1>1, PTL DEF DeadTakeNoPart
<1> QED BY <1>2, Invariance, PTL DEF Spec

-----------------------------------------------------------------------------
(* No kill throws.  The attack always finds a victim; the vote elects one  *)
(* of the living if the sums of suspicion it compares are integers.  A sum *)
(* is a recursive function on the subsets of the voters: that there is one *)
(* and that its values are integers is shown by taking the least number of *)
(* voters for which it would fail.                                         *)

Chosen(s) == CHOOSE x \in s : TRUE

(* f adds up what the players of a set have against p, one chosen player   *)
(* after another, for the sets in D.                                       *)
AddsUp(f, p, D) ==
  f = [s \in D |-> IF s = {} THEN 0
                   ELSE suspicion[Chosen(s)][p] + f[s \ {Chosen(s)}]]

UpTo(k, S) == {s \in SUBSET S : Cardinality(s) <= k}

(* The sum of the source is one that adds up.                              *)
LEMMA SumIsChosen ==
  ASSUME NEW p \in Players
  PROVE  LET S == alive \ {p} IN
         AggregateSuspicion(p) = (CHOOSE f : AddsUp(f, p, SUBSET S))[S]
  BY DEF AggregateSuspicion, MapThenSumSet, MapThenFoldSet, AddsUp, Chosen

(* A set without the player chosen from it is smaller by one.              *)
LEMMA ChosenIsTaken ==
  ASSUME NEW S, IsFiniteSet(S), NEW s \in SUBSET S, s # {}
  PROVE  /\ Chosen(s) \in s /\ s \ {Chosen(s)} \in SUBSET S
         /\ Cardinality(s) \in Nat \ {0}
         /\ Cardinality(s \ {Chosen(s)}) = Cardinality(s) - 1
<1>1. Chosen(s) \in s
  BY DEF Chosen
<1>2. IsFiniteSet(s) /\ Cardinality(s) \in Nat
  BY FS_Subset, FS_CardinalityType
<1>3. Cardinality(s \ {Chosen(s)}) = Cardinality(s) - 1
  BY <1>1, <1>2, FS_RemoveElement
<1>4. IsFiniteSet(s \ {Chosen(s)})
  BY <1>2, FS_RemoveElement, FS_Subset
<1>5. Cardinality(s \ {Chosen(s)}) \in Nat
  BY <1>4, FS_CardinalityType
<1> QED BY <1>1, <1>2, <1>3, <1>5

(* If the small sets can be added up, so can those larger by one.          *)
LEMMA SumExtends ==
  ASSUME NEW S, IsFiniteSet(S), NEW p, NEW k \in Nat, NEW f, AddsUp(f, p, UpTo(k, S))
  PROVE  \E g : AddsUp(g, p, UpTo(k + 1, S))
<1> DEFINE term(h, s) == IF s = {} THEN 0
                         ELSE suspicion[Chosen(s)][p] + h[s \ {Chosen(s)}]
           g == [s \in UpTo(k + 1, S) |-> term(f, s)]
<1>1. \A s \in UpTo(k, S) : s \in UpTo(k + 1, S) /\ f[s] = term(f, s)
  <2>1. ASSUME NEW s \in UpTo(k, S) PROVE s \in UpTo(k + 1, S)
    <3>1. Cardinality(s) \in Nat
      BY FS_Subset, FS_CardinalityType DEF UpTo
    <3> QED BY <3>1 DEF UpTo
  <2>2. ASSUME NEW s \in UpTo(k, S) PROVE f[s] = term(f, s)
    BY DEF AddsUp
  <2> QED BY <2>1, <2>2
<1>2. \A s \in UpTo(k, S) : g[s] = f[s]
  BY <1>1
<1>3. ASSUME NEW s \in UpTo(k + 1, S) PROVE term(f, s) = term(g, s)
  <2>1. CASE s = {}
    BY <2>1
  <2>2. CASE s # {}
    <3>1. s \ {Chosen(s)} \in UpTo(k, S)
      BY <2>2, ChosenIsTaken DEF UpTo
    <3>2. g[s \ {Chosen(s)}] = f[s \ {Chosen(s)}]
      BY <1>2, <3>1
    <3> HIDE DEF g
    <3> QED BY <3>2
  <2> QED BY <2>1, <2>2
<1>4. g = [s \in UpTo(k + 1, S) |-> term(g, s)]
  <2>1. g = [s \in UpTo(k + 1, S) |-> g[s]]
    OBVIOUS
  <2>2. \A s \in UpTo(k + 1, S) : g[s] = term(g, s)
    BY <1>3
  <2> HIDE DEF g, term
  <2> QED BY <2>1, <2>2
<1> HIDE DEF g
<1> QED BY <1>4 DEF AddsUp

(* So every set of voters can be added up.                                 *)
LEMMA SumExists ==
  ASSUME NEW S, IsFiniteSet(S), NEW p
  PROVE  \E f : AddsUp(f, p, SUBSET S)
<1> DEFINE Bad == {k \in Nat : ~\E f : AddsUp(f, p, UpTo(k, S))}
<1>1. \E f : AddsUp(f, p, UpTo(0, S))
  <2>1. UpTo(0, S) = {{}}
    <3>1. ASSUME NEW s \in SUBSET S, Cardinality(s) <= 0, s # {} PROVE FALSE
      <4>1. Cardinality(s) \in Nat \ {0}
        BY <3>1, ChosenIsTaken
      <4> QED BY <3>1, <4>1
    <3>2. {} \in UpTo(0, S)
      BY FS_EmptySet DEF UpTo
    <3> QED BY <3>1, <3>2 DEF UpTo
  <2>2. AddsUp([s \in {{}} |-> 0], p, {{}})
    BY DEF AddsUp
  <2> QED BY <2>1, <2>2
<1>2. Bad = {}
  <2> SUFFICES ASSUME Bad # {} PROVE FALSE
    OBVIOUS
  <2>1. PICK k \in Bad : \A j \in Bad : k <= j
    BY NatMin
  <2>2. k \in Nat \ {0}
    BY <1>1
  <2>3. k - 1 \in Nat /\ k - 1 \notin Bad /\ (k - 1) + 1 = k
    BY <2>1, <2>2
  <2>4. PICK f : AddsUp(f, p, UpTo(k - 1, S))
    BY <2>3
  <2>5. \E g : AddsUp(g, p, UpTo((k - 1) + 1, S))
    BY <2>3, <2>4, SumExtends
  <2> QED BY <2>3, <2>5
<1>3. Cardinality(S) \in Nat /\ UpTo(Cardinality(S), S) = SUBSET S
  BY FS_CardinalityType, FS_Subset DEF UpTo
<1>4. \E f : AddsUp(f, p, UpTo(Cardinality(S), S))
  BY <1>2, <1>3
<1> QED BY <1>3, <1>4

(* What is added up from integers is an integer.                           *)
LEMMA SumIsInteger ==
  ASSUME NEW S, IsFiniteSet(S), NEW p, \A x \in S : suspicion[x][p] \in Int,
         NEW f, AddsUp(f, p, SUBSET S)
  PROVE  \A s \in SUBSET S : f[s] \in Int
<1> DEFINE T == {Cardinality(s) : s \in {t \in SUBSET S : f[t] \notin Int}}
<1>1. T \in SUBSET Nat
  BY FS_Subset, FS_CardinalityType
<1>2. T = {}
  <2> SUFFICES ASSUME T # {} PROVE FALSE
    OBVIOUS
  <2>1. PICK k \in T : \A j \in T : k <= j
    <3> HIDE DEF T
    <3> QED BY <1>1, NatMin
  <2>2. PICK s \in SUBSET S : f[s] \notin Int /\ k = Cardinality(s)
    OBVIOUS
  <2>3. f[s] = IF s = {} THEN 0 ELSE suspicion[Chosen(s)][p] + f[s \ {Chosen(s)}]
    BY DEF AddsUp
  <2>4. s # {}
    BY <2>2, <2>3
  <2>5. /\ Chosen(s) \in S /\ s \ {Chosen(s)} \in SUBSET S
        /\ Cardinality(s) \in Nat /\ Cardinality(s \ {Chosen(s)}) = Cardinality(s) - 1
    BY <2>4, ChosenIsTaken
  <2>6. f[s \ {Chosen(s)}] \in Int
    <3>1. ~(k <= Cardinality(s \ {Chosen(s)}))
      BY <2>2, <2>5
    <3> QED BY <2>1, <2>5, <3>1
  <2> QED BY <2>2, <2>3, <2>4, <2>5, <2>6
<1> QED BY <1>2

(* So the vote compares integers.                                          *)
LEMMA AggregateIsInteger ==
  ASSUME TypeOK, NEW p \in Players
  PROVE  AggregateSuspicion(p) \in Int
<1> DEFINE S == alive \ {p}
           f == CHOOSE g : AddsUp(g, p, SUBSET S)
<1>1. IsFiniteSet(S) /\ \A x \in S : suspicion[x][p] \in Int
  BY AliveIsFinite, FS_Subset DEF TypeOK
<1>2. AddsUp(f, p, SUBSET S)
  BY <1>1, SumExists
<1>3. AggregateSuspicion(p) = f[S]
  BY SumIsChosen
<1> HIDE DEF f, S
<1> QED BY <1>1, <1>2, <1>3, SumIsInteger

(* Whom the votes of an open game elect is alive.                          *)
LEMMA VoteElectsTheLiving ==
  ASSUME IInv, winner = None
  PROVE  ResolveVote(Votes) \in alive
<1> DEFINE tied == MostVoted(Votes)
<1> USE DEF IInv
<1>1. \A voter \in alive : ChooseVote(voter) \in alive \ {voter}
  <2> TAKE voter \in alive
  <2>1. voter \in Players /\ alive \ {voter} \in SUBSET Players /\ alive \ {voter} # {}
    BY OpenGame DEF TypeOK
  <2>2. \A p \in alive \ {voter} : suspicion[voter][p] \in Int
    BY <2>1 DEF TypeOK
  <2> QED BY <2>1, <2>2, MostSuspectedExists DEF ChooseVote
<1>2. /\ DOMAIN Votes = alive /\ \A v \in alive : Votes[v] \in alive
      /\ alive # {} /\ alive \subseteq Players /\ IsFiniteSet(alive)
  BY <1>1, OpenGame, AliveIsFinite DEF Votes, TypeOK
<1> DEFINE For(p) == {v \in DOMAIN Votes : Votes[v] = p}
<1>3. \A p \in Players : /\ IsFiniteSet(For(p)) /\ CountFor(Votes, p) = Cardinality(For(p))
                         /\ CountFor(Votes, p) \in Nat
  <2>1. \A p \in Players : IsFiniteSet(For(p))
    BY <1>2, FS_Subset
  <2>2. \A p \in Players : CountFor(Votes, p) = Cardinality(For(p))
    BY DEF CountFor
  <2> HIDE DEF For
  <2> QED BY <2>1, <2>2, FS_CardinalityType
<1>4. ASSUME NEW p \in Players, CountFor(Votes, p) > 0 PROVE p \in alive
  <2>1. For(p) # {}
    BY <1>3, <1>4, FS_EmptySet
  <2> QED BY <1>2, <2>1
<1>5. \E p \in Players : CountFor(Votes, p) > 0
  <2>1. PICK v \in alive : TRUE
    BY <1>2
  <2>2. Votes[v] \in Players /\ v \in For(Votes[v])
    BY <1>2
  <2>3. Cardinality(For(Votes[v])) # 0
    BY <1>3, <2>2, FS_EmptySet
  <2> QED BY <1>3, <2>2, <2>3
<1> HIDE DEF For
<1>6. tied \in SUBSET Players /\ tied # {} /\ tied \subseteq alive
  <2>1. PICK p \in Players : \A q \in Players : CountFor(Votes, q) <= CountFor(Votes, p)
    <3> DEFINE count == [q \in Players |-> CountFor(Votes, q)]
    <3>1. \A q \in Players : count[q] \in Int
      BY <1>3
    <3>2. IsFiniteSet(Players) /\ Players # {}
      BY <1>2, PlayersAssumption
    <3>3. \E p \in Players : \A q \in Players : count[q] <= count[p]
      <4> HIDE DEF count
      <4> QED BY <3>1, <3>2, FiniteArgMax
    <3> QED BY <3>3
  <2>2. CountFor(Votes, p) > 0
    BY <1>3, <1>5, <2>1
  <2>3. p \in tied
    BY <2>1, <2>2 DEF MostVoted
  <2> QED BY <1>4, <2>3 DEF MostVoted
<1>7. MostSuspected([p \in tied |-> AggregateSuspicion(p)], tied) \in tied
  <2> DEFINE score == [p \in tied |-> AggregateSuspicion(p)]
  <2>1. \A p \in tied : score[p] \in Int
    BY <1>6, AggregateIsInteger
  <2> HIDE DEF score, tied
  <2>2. MostSuspected(score, tied) \in tied
    BY <1>6, <2>1, MostSuspectedExists
  <2> QED BY <2>2 DEF score
<1> HIDE DEF tied
<1>8. ResolveVote(Votes) = MostSuspected([p \in tied |-> AggregateSuspicion(p)], tied)
  BY DEF ResolveVote, tied
<1> QED BY <1>6, <1>7, <1>8

(* runVote and runWerewolfAttack: no legal sequence of commands, in no     *)
(* village, makes killPlayer throw.                                        *)
THEOREM NoKillThrows == Spec => []KillsNeverThrow
<1>1. IInv => KillsNeverThrow
  BY VoteElectsTheLiving, AttackHasVictim DEF KillsNeverThrow
<1> QED BY <1>1, Invariance, PTL
=============================================================================
