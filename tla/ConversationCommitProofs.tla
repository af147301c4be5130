------------------------ MODULE ConversationCommitProofs ------------------------
(***************************************************************************)
(* Proofs about ConversationCommit, for any NPCs, clients, utterances,     *)
(* candidates and limits: a question has an owner until it is closed, a    *)
(* version that has not moved guards all a reaction was prepared from, and *)
(* the conversation implements its ledger.                                 *)
(***************************************************************************)
EXTENDS ConversationCommit, FiniteSetTheorems, NaturalsInduction, WellFoundedInduction, TLAPS

(* The numbers, and that prepared is a function of the clients.            *)
Numbers ==
    /\ version \in 0..MaxSafe /\ turn \in 0..MaxSafe /\ phase \in Phases
    /\ finished \in BOOLEAN
    /\ next \in Counters
    /\ prepared = [c \in Clients |-> prepared[c]]

(* What a statement is, as far as its numbers go.                          *)
Said == [acts : Utterances, from : Nat, version : Nat, turn : Nat, orders : SUBSET Nat,
         slot : Nat, append : Nat]

(* What the command in progress knows of the game is true of it.           *)
CommandKnows ==
    command # None =>
        /\ command \in Commands /\ ~finished
        /\ command.turn = turn
        /\ command.stage = "interpreting" =>
             /\ command.version = version /\ command.phase = phase
             /\ version <= MaxSafe - 2
        /\ command.stage = "answering" => command.version <= MaxSafe - 1

(* Statements are numbered, and each is newer than the ones before it.     *)
StatementsAscend ==
    /\ statements \in Seq(Said)
    /\ \A i \in 1..Len(statements) : statements[i].version <= version
    /\ \A i, j \in 1..Len(statements) :
         i < j => statements[i].version < statements[j].version

(* Answers and prepared reactions are to statements that have been made,   *)
(* and one that is up to date is to the last of them.                      *)
ReactionsFollow ==
    /\ \A a \in answers : a.request \in 1..Len(statements)
    /\ \A c \in Clients : prepared[c] # None =>
         /\ prepared[c].version \in Nat /\ prepared[c].version <= version
         /\ prepared[c].request \in 1..Len(statements)
         /\ prepared[c].proposals \in Candidates
         /\ prepared[c].after = AfterReserved(prepared[c].next, prepared[c].proposals)
         /\ prepared[c].version = version => prepared[c].request = Len(statements)

(* The inductive invariant: the two properties, and what they rest on.     *)
IInv ==
    /\ Numbers
    /\ CommandKnows
    /\ StatementsAscend
    /\ ReactionsFollow
    /\ QuestionHasAnOwner
    /\ VersionGuardsPrepared

-----------------------------------------------------------------------------
(* The counters of what is committed.                                      *)
LEMMA EventsAreCounted == \A acts \in Utterances : EventsOf(acts) \in Nat
<1> SUFFICES ASSUME NEW acts \in Utterances PROVE EventsOf(acts) \in Nat
  OBVIOUS
<1>1. IsFiniteSet(DOMAIN acts)
  BY InputsAssumption, FS_Interval
<1>2. IsFiniteSet({i \in DOMAIN acts : HasEvent(acts[i])})
  BY <1>1, FS_Subset
<1> QED
  BY <1>2, FS_CardinalityType DEF EventsOf

(* The counters after a reservation are counters again.                    *)
LEMMA ReservedAreCounted ==
    \A from \in Counters, proposals \in Candidates :
        AfterReserved(from, proposals) \in Counters
<1> SUFFICES ASSUME NEW from \in Counters, NEW proposals \in Candidates
             PROVE  AfterReserved(from, proposals) \in Counters
  OBVIOUS
<1>1. Len(proposals) \in Nat
  BY InputsAssumption
<1> QED
  BY <1>1 DEF AfterReserved, Counters

(* The version of a statement is a number.                                 *)
LEMMA SaidFacts == \A s \in Said : s.version \in Nat
BY DEF Said

(* The initial states satisfy the inductive invariant.                     *)
LEMMA InitInvariant == Init => IInv
<1> SUFFICES ASSUME Init PROVE IInv
  OBVIOUS
<1>1. Numbers
  <2>1. next \in Counters
    BY DEF Init, Counters
  <2>2. prepared = [c \in Clients |-> prepared[c]]
    BY DEF Init
  <2>3. version \in 0..MaxSafe /\ turn \in 0..MaxSafe /\ phase \in Phases
    BY LimitsAssumption DEF Init, Phases
  <2> QED
    BY <2>1, <2>2, <2>3 DEF Init, Numbers
<1>2. CommandKnows /\ QuestionHasAnOwner
  BY DEF Init, CommandKnows, QuestionHasAnOwner
<1>3. StatementsAscend /\ ReactionsFollow /\ VersionGuardsPrepared
  BY DEF Init, StatementsAscend, ReactionsFollow, VersionGuardsPrepared
<1> QED
  BY <1>1, <1>2, <1>3 DEF IInv

(* Whatever is prepared stays behind when the version moves on.            *)
LEMMA VersionMovesOn ==
    ASSUME IInv, version' = version + 1, UNCHANGED prepared
    PROVE  /\ VersionGuardsPrepared'
           /\ \A c \in Clients : prepared'[c] # None =>
                prepared'[c].version \in Nat /\ prepared'[c].version < version'
BY DEF IInv, Numbers, ReactionsFollow, VersionGuardsPrepared

(* What is prepared is guarded as long as nothing it depends on changes.   *)
LEMMA GuardsStay ==
    ASSUME VersionGuardsPrepared,
           UNCHANGED <<version, phase, turn, world, claims, next, prepared>>
    PROVE  VersionGuardsPrepared'
BY DEF VersionGuardsPrepared, world, OrderHolds, Authorized, MaySay, KnownResults, Alive

(* AskAccepted: no turn is begun while a question is open.                 *)
LEMMA AskKeeps == IInv /\ AskAccepted => IInv'
<1> SUFFICES ASSUME IInv, AskAccepted PROVE IInv'
  OBVIOUS
<1> USE LimitsAssumption
<1>1. phase # "player_question"
  BY DEF AskAccepted, IInv, QuestionHasAnOwner
<1>2. Numbers' /\ StatementsAscend' /\ ReactionsFollow'
  BY DEF AskAccepted, IInv, Numbers, StatementsAscend, ReactionsFollow, conversation, held, world
<1>3. CommandKnows'
  BY NoneAssumption DEF AskAccepted, IInv, Numbers, CommandKnows, Commands, world
<1>4. QuestionHasAnOwner'
  BY <1>1 DEF AskAccepted, QuestionHasAnOwner
<1>5. VersionGuardsPrepared'
  BY <1>1 DEF AskAccepted, IInv, VersionGuardsPrepared, held
<1> QED
  BY <1>2, <1>3, <1>4, <1>5 DEF IInv

(* InterpreterDeclines, PlayerCommitThrows and an answer that needs no     *)
(* settlement only end the command; the question is then closed.           *)
LEMMA CommandEndsKeeps ==
    ASSUME IInv, phase # "player_question", command' = None,
           UNCHANGED <<version, phase, turn, world, conversation, held>>
    PROVE  IInv'
<1>1. Numbers' /\ StatementsAscend' /\ ReactionsFollow'
  BY DEF IInv, Numbers, StatementsAscend, ReactionsFollow, conversation, held, world
<1>2. CommandKnows' /\ QuestionHasAnOwner'
  BY DEF CommandKnows, QuestionHasAnOwner
<1>3. VersionGuardsPrepared'
  BY GuardsStay DEF IInv, conversation, held
<1> QED
  BY <1>1, <1>2, <1>3 DEF IInv

(* PlayerCommits: the statement takes the next version, and its command    *)
(* owns the question.                                                      *)
LEMMA StatementKeeps ==
    ASSUME IInv, NEW acts \in Utterances, PlayerCommits(acts)
    PROVE  IInv'
<1> USE LimitsAssumption
<1>1. /\ command # None /\ command.stage = "interpreting" /\ command.version = version
      /\ version <= MaxSafe - 2 /\ ~finished /\ command.turn = turn
      /\ version \in Nat /\ turn \in 0..MaxSafe
  BY DEF IInv, Numbers, CommandKnows, PlayerCommits, MayCommitStatement
<1>2. Numbers'
  <2>1. AfterStatement(acts) \in Counters
    BY EventsAreCounted DEF AfterStatement, IInv, Numbers, Counters
  <2> QED
    BY <1>1, <2>1 DEF PlayerCommits, IInv, Numbers, Phases, world, held
<1>3. command' \in Commands /\ command' # None
  BY <1>1, NoneAssumption DEF PlayerCommits, Commands, Phases
<1>4. CommandKnows'
  BY <1>1, <1>3 DEF PlayerCommits, CommandKnows, world
<1>5. Statement(acts) \in Said /\ Statement(acts).version = version + 1
  <2>1. next.created..(next.created + EventsOf(acts) + 2) \subseteq Nat
    BY EventsAreCounted DEF IInv, Numbers, Counters
  <2> QED
    BY <1>1, <2>1 DEF Statement, Said, IInv, Numbers, Counters
<1>6. /\ Len(statements') = Len(statements) + 1 /\ Len(statements) \in Nat
      /\ statements' \in Seq(Said)
      /\ statements'[Len(statements) + 1] = Statement(acts)
      /\ \A i \in 1..Len(statements) : statements'[i] = statements[i]
  BY <1>5 DEF PlayerCommits, IInv, StatementsAscend
<1>7. StatementsAscend'
  <2>1. \A i \in 1..Len(statements') :
          IF i = Len(statements) + 1 THEN statements'[i].version = version + 1
          ELSE i \in 1..Len(statements) /\ statements'[i].version = statements[i].version
    BY <1>5, <1>6
  <2>2. \A i \in 1..Len(statements) : statements[i].version \in Nat
    BY SaidFacts DEF IInv, StatementsAscend
  <2> QED
    BY <1>1, <1>6, <2>1, <2>2 DEF PlayerCommits, IInv, StatementsAscend
<1>8. ReactionsFollow'
  BY <1>1, <1>6, VersionMovesOn DEF PlayerCommits, IInv, ReactionsFollow, held
<1>9. QuestionHasAnOwner'
  <2>1. ~IsAnswered(Asked)'
    BY <1>6 DEF PlayerCommits, IInv, ReactionsFollow, IsAnswered, Asked
  <2> QED
    BY <2>1, <1>3 DEF PlayerCommits, QuestionHasAnOwner, OwnerMatches
<1> QED
  BY <1>2, <1>4, <1>7, <1>8, <1>9, VersionMovesOn DEF IInv, PlayerCommits, held

(* ReactionSettled: the question is closed and the version moves on.       *)
LEMMA SettlementKeeps == IInv /\ ReactionSettled => IInv'
<1> SUFFICES ASSUME IInv, ReactionSettled PROVE IInv'
  OBVIOUS
<1> USE LimitsAssumption
<1>1. version' = version + 1 /\ version < MaxSafe /\ version \in Nat
  BY DEF IInv, Numbers, CommandKnows, ReactionSettled, OwnerMatches
<1>2. Numbers'
  BY <1>1 DEF ReactionSettled, IInv, Numbers, Phases, world, conversation, held
<1>3. CommandKnows' /\ QuestionHasAnOwner'
  BY DEF ReactionSettled, CommandKnows, QuestionHasAnOwner
<1>4. StatementsAscend'
  <2>1. statements' = statements
    BY DEF ReactionSettled, conversation
  <2>2. \A i \in 1..Len(statements) : statements[i].version \in Nat
    BY SaidFacts DEF IInv, StatementsAscend
  <2> QED
    BY <1>1, <2>1, <2>2 DEF IInv, StatementsAscend
<1>5. ReactionsFollow'
  BY <1>1, VersionMovesOn DEF ReactionSettled, IInv, ReactionsFollow, conversation, held
<1> QED
  BY <1>1, <1>2, <1>3, <1>4, <1>5, VersionMovesOn DEF IInv, ReactionSettled, held

(* Votes and nights wait for the command, and so for the question.         *)
LEMMA OtherCommandKeeps ==
    ASSUME IInv, OtherCommand, phase' \in Phases \ {"player_question"}
    PROVE  IInv'
<1> USE LimitsAssumption
<1>1. version' = version + 1 /\ version < MaxSafe /\ version \in Nat
  BY DEF IInv, Numbers, OtherCommand
<1>2. Numbers'
  BY <1>1 DEF OtherCommand, IInv, Numbers, conversation, held
<1>3. CommandKnows' /\ QuestionHasAnOwner'
  BY DEF OtherCommand, CommandKnows, QuestionHasAnOwner
<1>4. StatementsAscend'
  <2>1. statements' = statements
    BY DEF OtherCommand, conversation
  <2>2. \A i \in 1..Len(statements) : statements[i].version \in Nat
    BY SaidFacts DEF IInv, StatementsAscend
  <2> QED
    BY <1>1, <2>1, <2>2 DEF IInv, StatementsAscend
<1>5. ReactionsFollow'
  BY <1>1, VersionMovesOn DEF OtherCommand, IInv, ReactionsFollow, conversation, held
<1> QED
  BY <1>1, <1>2, <1>3, <1>4, <1>5, VersionMovesOn DEF IInv, OtherCommand, held

(* Prepare: only the last statement can be read while its question is      *)
(* open, and what is prepared is right at this version.                    *)
LEMMA PrepareKeeps ==
    ASSUME IInv, NEW c \in Clients, NEW r \in DOMAIN statements, NEW n,
           NEW proposals \in Candidates, Prepare(c, r, n, proposals)
    PROVE  IInv'
<1> DEFINE p == Reaction(Snapshot(r), n, proposals)
<1>1. /\ prepared'[c] = p
      /\ \A d \in Clients \ {c} : prepared'[d] = prepared[d]
      /\ prepared' = [d \in Clients |-> prepared'[d]]
  BY DEF Prepare, IInv, Numbers
<1>2. /\ p.version = version /\ p.turn = turn /\ p.request = r /\ p.npc = Question(r).subject
      /\ p.next = next /\ p.priorClaims = Len(claims) /\ p.proposals = proposals
      /\ p.topic = Question(r).payload /\ p.after = AfterReserved(next, proposals)
      /\ p.claims = ClaimsOfReaction(claims, p.npc, proposals, version + 1)
  BY DEF Reaction, Snapshot
<1>3. r = Len(statements) /\ r \in 1..Len(statements)
  <2>1. Len(statements) \in Nat /\ r \in 1..Len(statements)
    BY DEF IInv, StatementsAscend
  <2>2. statements[r].version = version
    BY DEF Prepare, Readable
  <2>3. \A i \in 1..Len(statements) : statements[i].version \in Nat
    BY SaidFacts DEF IInv, StatementsAscend
  <2>4. ~(r < Len(statements))
    BY <2>1, <2>2, <2>3 DEF IInv, StatementsAscend, Numbers
  <2> QED
    BY <2>1, <2>4
<1>4. Numbers' /\ CommandKnows' /\ StatementsAscend'
  BY <1>1 DEF Prepare, IInv, Numbers, CommandKnows, StatementsAscend, world, conversation
<1>5. ReactionsFollow'
  BY <1>1, <1>2, <1>3 DEF Prepare, IInv, Numbers, ReactionsFollow, conversation
<1>6. QuestionHasAnOwner'
  BY DEF Prepare, IInv, QuestionHasAnOwner, OwnerMatches, IsAnswered, Asked, conversation
<1>7. phase = "player_question" /\ ~finished
  BY DEF Prepare, Readable, IInv, QuestionHasAnOwner, CommandKnows
<1>8. Authorized(p)
  BY <1>2, <1>7 DEF Prepare, Readable, ValidCandidate, Authorized, Snapshot
<1>9. VersionGuardsPrepared'
  <2> SUFFICES ASSUME NEW d \in Clients, prepared'[d] # None, prepared'[d].version = version'
               PROVE  /\ phase' = "player_question" /\ turn' = prepared'[d].turn
                      /\ OrderHolds(prepared[d])' /\ Authorized(prepared[d])'
                      /\ prepared'[d].claims = ClaimsOfReaction(claims', prepared'[d].npc,
                                                  prepared'[d].proposals, version' + 1)
    BY DEF VersionGuardsPrepared
  <2>1. UNCHANGED <<version, phase, turn, world, claims, next>>
    BY DEF Prepare, conversation
  <2>2. ASSUME NEW q, Authorized(q), OrderHolds(q), q = prepared'[d]
        PROVE  Authorized(prepared[d])' /\ OrderHolds(prepared[d])'
    BY <2>1, <2>2 DEF Authorized, MaySay, KnownResults, Alive, world, OrderHolds
  <2>3. CASE d = c
    <3>1. OrderHolds(p)
      BY <1>2 DEF OrderHolds
    <3> QED
      BY <1>1, <1>2, <1>7, <1>8, <2>1, <2>2, <2>3, <3>1
  <2>4. CASE d # c
    <3>1. prepared'[d] = prepared[d]
      BY <1>1, <2>4
    <3> QED
      BY <2>1, <2>2, <3>1 DEF IInv, VersionGuardsPrepared
  <2> QED
    BY <2>3, <2>4
<1> QED
  BY <1>4, <1>5, <1>6, <1>9 DEF IInv

(* CommitApplied: the answer is to the last statement, takes the next      *)
(* version and closes the question.                                        *)
LEMMA AppliedKeeps ==
    ASSUME IInv, NEW c \in Clients, NEW expected \in 0..MaxSafe, CommitApplied(c, expected)
    PROVE  IInv'
<1> USE LimitsAssumption
<1> DEFINE p == prepared[c]
<1>1. /\ p # None /\ p.version = version /\ phase = "player_question" /\ version < MaxSafe
      /\ p.request = Len(statements) /\ p.request \in 1..Len(statements)
      /\ version \in Nat /\ p.proposals \in Candidates
      /\ p.next = next /\ p.after = AfterReserved(next, p.proposals)
  BY DEF CommitApplied, HandIn, Commits, Applicable, OrderHolds, IInv, Numbers, ReactionsFollow
<1>2. /\ version' = version + 1 /\ phase' = "day_discussion" /\ next' = p.after
      /\ answers' = answers \union {p}
      /\ UNCHANGED <<turn, world, statements, command, prepared>>
  BY <1>1 DEF CommitApplied, ApplyDelta, Delta, Ends
<1>3. Numbers'
  BY <1>1, <1>2, ReservedAreCounted DEF IInv, Numbers, Phases, world
<1>4. command # None => command.stage = "answering"
  BY <1>1 DEF IInv, QuestionHasAnOwner
<1>5. CommandKnows' /\ QuestionHasAnOwner'
  BY <1>2, <1>4 DEF IInv, CommandKnows, QuestionHasAnOwner, world
<1>6. StatementsAscend'
  <2>1. version' = version + 1 /\ version \in Nat /\ statements' = statements
    BY <1>1, <1>2
  <2> QED
    BY <2>1, SaidFacts DEF IInv, StatementsAscend
<1>7. ReactionsFollow'
  BY <1>1, <1>2, VersionMovesOn DEF IInv, ReactionsFollow
<1> QED
  BY <1>2, <1>3, <1>5, <1>6, <1>7, VersionMovesOn DEF IInv

(* A commit that is not applied changes only how it ended.                 *)
LEMMA OutcomeKeeps ==
    ASSUME IInv, UNCHANGED <<version, phase, turn, world, conversation, command, prepared>>
    PROVE  IInv'
<1>1. Numbers' /\ StatementsAscend' /\ ReactionsFollow'
  BY DEF IInv, Numbers, StatementsAscend, ReactionsFollow, conversation, world
<1>2. CommandKnows' /\ QuestionHasAnOwner'
  BY DEF IInv, CommandKnows, QuestionHasAnOwner, OwnerMatches, IsAnswered, Asked, conversation, world
<1>3. VersionGuardsPrepared'
  BY GuardsStay DEF IInv, conversation
<1> QED
  BY <1>1, <1>2, <1>3 DEF IInv

(* Every step keeps the inductive invariant.                               *)
LEMMA NextInvariant == IInv /\ [Next]_vars => IInv'
<1> SUFFICES ASSUME IInv, [Next]_vars PROVE IInv'
  OBVIOUS
<1>1. CASE CommandStep
  <2>1. command # None /\ command.stage = "interpreting" => phase # "player_question"
    BY DEF IInv, QuestionHasAnOwner
  <2>2. CASE InterpreterDeclines
    BY <2>1, <2>2, CommandEndsKeeps DEF InterpreterDeclines
  <2>3. ASSUME NEW acts \in Utterances, PlayerCommitThrows(acts) PROVE IInv'
    BY <2>1, <2>3, CommandEndsKeeps DEF PlayerCommitThrows, MayCommitStatement
  <2>4. CASE ReactionNeedsNoSettlement
    BY <2>4, CommandEndsKeeps DEF ReactionNeedsNoSettlement, IInv, QuestionHasAnOwner
  <2>5. CASE Vote
    BY <2>5, OtherCommandKeeps DEF Vote, Phases
  <2>6. CASE Night
    BY <2>6, OtherCommandKeeps DEF Night, Phases
  <2> QED
    BY <1>1, <2>2, <2>3, <2>4, <2>5, <2>6, AskKeeps, StatementKeeps, SettlementKeeps DEF CommandStep
<1>2. CASE PortStep
  <2>1. PICK c \in Clients :
          \/ \E r \in DOMAIN statements, n \in Tries[c], proposals \in Candidates :
                Prepare(c, r, n, proposals)
          \/ \E expected \in 0..MaxSafe :
                \/ CommitConflicts(c, expected)
                \/ CommitReplayed(c, expected)
                \/ \E rootAgrees \in BOOLEAN : CommitRejected(c, expected, rootAgrees)
                \/ CommitThrows(c, expected)
                \/ CommitApplied(c, expected)
    BY <1>2 DEF PortStep
  <2>2. ASSUME NEW r \in DOMAIN statements, NEW n, NEW proposals \in Candidates,
               Prepare(c, r, n, proposals)
        PROVE  IInv'
    BY <2>2, PrepareKeeps
  <2>3. ASSUME NEW expected \in 0..MaxSafe,
               \/ CommitConflicts(c, expected) \/ CommitReplayed(c, expected)
               \/ \E rootAgrees \in BOOLEAN : CommitRejected(c, expected, rootAgrees)
               \/ CommitThrows(c, expected)
        PROVE  IInv'
    BY <2>3, OutcomeKeeps
       DEF CommitConflicts, CommitReplayed, CommitRejected, CommitThrows, Ends
  <2>4. ASSUME NEW expected \in 0..MaxSafe, CommitApplied(c, expected) PROVE IInv'
    BY <2>4, AppliedKeeps
  <2> QED
    BY <2>1, <2>2, <2>3, <2>4
<1>3. CASE UNCHANGED vars
  BY <1>3, OutcomeKeeps DEF vars, held
<1> QED
  BY <1>1, <1>2, <1>3 DEF Next

-----------------------------------------------------------------------------
(* What holds in every reachable state.                                    *)
THEOREM Invariance == Spec => []IInv
BY InitInvariant, NextInvariant, PTL DEF Spec

(* _settleNpcStructuredLifecycleFailure and the commit: a question is open *)
(* only while the command that owns it is waiting for its answer.          *)
THEOREM QuestionsAreOwned == Spec => []QuestionHasAnOwner
<1>1. IInv => QuestionHasAnOwner
  BY DEF IInv
<1> QED
  BY <1>1, Invariance, PTL

(* validateApplicability: a version that has not moved says that all a     *)
(* reaction was prepared from is as it was.                                *)
THEOREM VersionGuards == Spec => []VersionGuardsPrepared
<1>1. IInv => VersionGuardsPrepared
  BY DEF IInv
<1> QED
  BY <1>1, Invariance, PTL

-----------------------------------------------------------------------------
(* The orders *)

(* OrdersAreDense is inductive together with the number of answers being   *)
(* finite.                                                                 *)
DenseInv == OrdersAreDense /\ IsFiniteSet(answers)

(* An order has been given to a statement or to an answer.                 *)
LEMMA GivenToOne ==
    ASSUME NEW said, NEW given, NEW x
    PROVE  x \in OrdersGiven(said, given) <=>
             \/ \E i \in DOMAIN said : x \in said[i].orders
             \/ \E a \in given : x \in OrdersOfAnswer(a)
BY DEF OrdersGiven

(* A statement takes the orders that follow those given out.               *)
LEMMA StatementIsDense ==
    ASSUME IInv, DenseInv, NEW acts \in Utterances, PlayerCommits(acts)
    PROVE  DenseInv'
<1> DEFINE k == Len(statements)
           s == Statement(acts)
<1>1. EventsOf(acts) \in Nat /\ next.created \in Nat /\ next.slot \in Nat
  BY EventsAreCounted DEF IInv, Numbers, Counters
<1>2. /\ s.orders = next.created..(next.created + EventsOf(acts) + 2) /\ s.slot = next.slot
      /\ next'.created = next.created + EventsOf(acts) + 3
      /\ next'.slot = next.slot + 1 /\ next'.append = next.append + 1
  BY DEF Statement, PlayerCommits, AfterStatement
<1>3. /\ k \in Nat /\ DOMAIN statements = 1..k /\ DOMAIN statements' = 1..(k + 1)
      /\ Len(statements') = k + 1
      /\ statements'[k + 1] = s /\ \A i \in 1..k : statements'[i] = statements[i]
  <2>1. s \in Said
    <3>1. s.orders \subseteq Nat
      BY <1>1, <1>2
    <3> QED
      BY <1>1, <3>1 DEF Statement, Said, IInv, Numbers, Counters
  <2> QED
    BY <2>1 DEF PlayerCommits, IInv, StatementsAscend
<1>4. answers' = answers
  BY DEF PlayerCommits
<1>5. OrdersGiven(statements, answers) = 0..(next.created - 1)
  BY DEF DenseInv, OrdersAreDense
<1>6. /\ \A i \in 1..k : statements[i].orders \subseteq 0..(next.created - 1)
      /\ \A a \in answers : OrdersOfAnswer(a) \subseteq 0..(next.created - 1)
  BY <1>3, <1>5, GivenToOne
<1>7. s.orders \intersect 0..(next.created - 1) = {}
  BY <1>1, <1>2
<1>8. \A a : OrdersOfAnswer(a)' = OrdersOfAnswer(a)
  BY DEF OrdersOfAnswer, Reserved
<1> HIDE DEF s
<1>9. \A i, j \in DOMAIN statements' :
        i # j => statements'[i].orders \intersect statements'[j].orders = {}
  <2> SUFFICES ASSUME NEW i \in 1..(k + 1), NEW j \in 1..(k + 1), i # j
               PROVE  statements'[i].orders \intersect statements'[j].orders = {}
    BY <1>3
  <2>1. CASE i \in 1..k /\ j \in 1..k
    BY <1>3, <2>1 DEF DenseInv, OrdersAreDense
  <2>2. CASE i = k + 1 /\ j \in 1..k
    BY <1>3, <1>6, <1>7, <2>2
  <2>3. CASE j = k + 1 /\ i \in 1..k
    BY <1>3, <1>6, <1>7, <2>3
  <2> QED
    BY <1>3, <2>1, <2>2, <2>3
<1>10. \A a, b \in answers' : a # b => OrdersOfAnswer(a)' \intersect OrdersOfAnswer(b)' = {}
  BY <1>4, <1>8 DEF DenseInv, OrdersAreDense
<1>11. \A i \in DOMAIN statements', a \in answers' :
         statements'[i].orders \intersect OrdersOfAnswer(a)' = {}
  <2> SUFFICES ASSUME NEW i \in 1..(k + 1), NEW a \in answers
               PROVE  statements'[i].orders \intersect OrdersOfAnswer(a) = {}
    BY <1>3, <1>4, <1>8
  <2>1. CASE i \in 1..k
    BY <1>3, <2>1 DEF DenseInv, OrdersAreDense
  <2>2. CASE i = k + 1
    BY <1>3, <1>6, <1>7, <2>2
  <2> QED
    BY <1>3, <2>1, <2>2
<1>12. OrdersGiven(statements', answers') = 0..(next'.created - 1)
  <2>1. 0..(next'.created - 1) = 0..(next.created - 1) \union s.orders
    BY <1>1, <1>2
  <2>2. \A x : x \in OrdersGiven(statements', answers')
                <=> x \in OrdersGiven(statements, answers) \/ x \in s.orders
    BY <1>3, <1>4, GivenToOne
  <2> QED
    BY <1>5, <2>1, <2>2
<1>13. next'.slot = Len(statements') + Cardinality(answers') /\ next'.append = next'.slot
  BY <1>1, <1>2, <1>3, <1>4, FS_CardinalityType DEF DenseInv, OrdersAreDense
<1>14. ({statements[i].slot : i \in DOMAIN statements} \union {a.next.slot : a \in answers})'
          = 0..(next'.slot - 1)
  <2>1. 0..(next'.slot - 1) = 0..(next.slot - 1) \union {s.slot}
    BY <1>1, <1>2
  <2>2. {statements'[i].slot : i \in DOMAIN statements'}
          = {statements[i].slot : i \in DOMAIN statements} \union {s.slot}
    BY <1>3
  <2> QED
    BY <1>4, <2>1, <2>2 DEF DenseInv, OrdersAreDense
<1>15. OrdersAreDense'
  BY <1>9, <1>10, <1>11, <1>12, <1>13, <1>14 DEF OrdersAreDense
<1> QED
  BY <1>4, <1>15 DEF DenseInv

(* An answer takes the orders that were reserved for it, which are those   *)
(* that follow if it is committed.                                         *)
LEMMA AnswerIsDense ==
    ASSUME IInv, DenseInv, NEW c \in Clients, NEW expected \in 0..MaxSafe,
           CommitApplied(c, expected)
    PROVE  DenseInv'
<1> DEFINE p == prepared[c]
<1>1. /\ p.next = next /\ p.after = AfterReserved(next, p.proposals) /\ p.proposals \in Candidates
      /\ p \notin answers
  BY DEF CommitApplied, HandIn, Commits, OrderHolds, IdentityTaken, IInv, ReactionsFollow
<1>2. Len(p.proposals) \in Nat /\ next.created \in Nat /\ next.slot \in Nat
  BY <1>1, InputsAssumption DEF IInv, Numbers, Counters
<1>3. /\ next' = p.after /\ answers' = answers \union {p} /\ statements' = statements
      /\ Len(statements) \in Nat
  BY DEF CommitApplied, ApplyDelta, Delta, IInv, StatementsAscend
<1>4. /\ next'.created = next.created + Len(p.proposals) + 1
      /\ next'.slot = next.slot + 1 /\ next'.append = next.append + 1
      /\ OrdersOfAnswer(p) = next.created..(next.created + Len(p.proposals))
  BY <1>1, <1>3 DEF AfterReserved, OrdersOfAnswer, Reserved
<1>5. OrdersGiven(statements, answers) = 0..(next.created - 1)
  BY DEF DenseInv, OrdersAreDense
<1>6. /\ \A i \in DOMAIN statements : statements[i].orders \subseteq 0..(next.created - 1)
      /\ \A a \in answers : OrdersOfAnswer(a) \subseteq 0..(next.created - 1)
  BY <1>5, GivenToOne
<1>7. OrdersOfAnswer(p) \intersect 0..(next.created - 1) = {}
  BY <1>2, <1>4
<1> HIDE DEF p
<1>8. \A i, j \in DOMAIN statements' :
        i # j => statements'[i].orders \intersect statements'[j].orders = {}
  BY <1>3 DEF DenseInv, OrdersAreDense
<1>9. \A a, b \in answers' : a # b => OrdersOfAnswer(a) \intersect OrdersOfAnswer(b) = {}
  <2> SUFFICES ASSUME NEW a \in answers \union {p}, NEW b \in answers \union {p}, a # b
               PROVE  OrdersOfAnswer(a) \intersect OrdersOfAnswer(b) = {}
    BY <1>3
  <2>1. CASE a \in answers /\ b \in answers
    BY <2>1 DEF DenseInv, OrdersAreDense
  <2>2. CASE a = p /\ b \in answers
    BY <1>6, <1>7, <2>2
  <2>3. CASE b = p /\ a \in answers
    BY <1>6, <1>7, <2>3
  <2> QED
    BY <2>1, <2>2, <2>3
<1>10. \A i \in DOMAIN statements', a \in answers' :
         statements'[i].orders \intersect OrdersOfAnswer(a) = {}
  <2> SUFFICES ASSUME NEW i \in DOMAIN statements, NEW a \in answers \union {p}
               PROVE  statements[i].orders \intersect OrdersOfAnswer(a) = {}
    BY <1>3
  <2>1. CASE a \in answers
    BY <2>1 DEF DenseInv, OrdersAreDense
  <2>2. CASE a = p
    BY <1>6, <1>7, <2>2
  <2> QED
    BY <2>1, <2>2
<1>11. OrdersGiven(statements', answers') = 0..(next'.created - 1)
  <2>1. 0..(next'.created - 1) = 0..(next.created - 1) \union OrdersOfAnswer(p)
    BY <1>2, <1>4
  <2>2. \A x : x \in OrdersGiven(statements', answers')
                <=> x \in OrdersGiven(statements, answers) \/ x \in OrdersOfAnswer(p)
    BY <1>3, GivenToOne
  <2> QED
    BY <1>5, <2>1, <2>2
<1>12. /\ IsFiniteSet(answers') /\ next'.append = next'.slot
       /\ next'.slot = Len(statements') + Cardinality(answers')
  <2>1. Cardinality(answers') = Cardinality(answers) + 1 /\ IsFiniteSet(answers')
    BY <1>1, <1>3, FS_AddElement DEF DenseInv
  <2> QED
    BY <1>2, <1>3, <1>4, <2>1, FS_CardinalityType DEF DenseInv, OrdersAreDense
<1>13. {statements'[i].slot : i \in DOMAIN statements'} \union {a.next.slot : a \in answers'}
          = 0..(next'.slot - 1)
  <2>1. 0..(next'.slot - 1) = 0..(next.slot - 1) \union {p.next.slot}
    BY <1>1, <1>2, <1>4
  <2>2. {a.next.slot : a \in answers'} = {a.next.slot : a \in answers} \union {p.next.slot}
    BY <1>3
  <2> QED
    BY <1>3, <2>1, <2>2 DEF DenseInv, OrdersAreDense
<1>14. OrdersAreDense'
  BY <1>8, <1>9, <1>10, <1>11, <1>12, <1>13 DEF OrdersAreDense, OrdersOfAnswer, Reserved
<1> QED
  BY <1>12, <1>14 DEF DenseInv

(* No other step gives out an order.                                       *)
LEMMA DenseStep == IInv /\ DenseInv /\ [Next]_vars => DenseInv'
<1> SUFFICES ASSUME IInv, DenseInv, [Next]_vars PROVE DenseInv'
  OBVIOUS
<1>1. ASSUME UNCHANGED <<statements, answers, next>> PROVE DenseInv'
  BY <1>1 DEF DenseInv, OrdersAreDense, OrdersGiven, OrdersOfAnswer, Reserved
<1>2. CASE CommandStep
  BY <1>1, <1>2, StatementIsDense
     DEF CommandStep, AskAccepted, InterpreterDeclines, PlayerCommitThrows, ReactionSettled,
         ReactionNeedsNoSettlement, Vote, Night, OtherCommand, conversation
<1>3. CASE PortStep
  BY <1>1, <1>3, AnswerIsDense
     DEF PortStep, Prepare, CommitConflicts, CommitReplayed, CommitRejected, CommitThrows,
         conversation
<1>4. CASE UNCHANGED vars
  BY <1>1, <1>4 DEF vars, conversation
<1> QED
  BY <1>2, <1>3, <1>4 DEF Next

(* At the beginning no order has been given out.                           *)
LEMMA DenseInit == Init => DenseInv
<1> SUFFICES ASSUME Init PROVE DenseInv
  OBVIOUS
<1>1. Len(statements) = 0 /\ DOMAIN statements = {} /\ answers = {}
  BY DEF Init
<1>2. IsFiniteSet(answers) /\ Cardinality(answers) = 0
  BY <1>1, FS_EmptySet
<1>3. next.created = 0 /\ next.slot = 0 /\ next.append = 0
  BY DEF Init
<1>4. OrdersGiven(statements, answers) = 0..(next.created - 1)
  <2>1. \A x : x \notin OrdersGiven(statements, answers)
    BY <1>1, GivenToOne
  <2> QED
    BY <1>3, <2>1
<1> QED
  BY <1>1, <1>2, <1>3, <1>4 DEF DenseInv, OrdersAreDense

(* assertReservationArithmetic and validateOrdering: of all the orders and *)
(* slots none is given out twice, and none is left out.                    *)
THEOREM OrdersStayDense == Spec => []OrdersAreDense
<1>1. DenseInv => OrdersAreDense
  BY DEF DenseInv
<1> QED
  BY <1>1, DenseInit, DenseStep, Invariance, PTL DEF Spec

-----------------------------------------------------------------------------
(* The ledger *)

(* The conversation begins as the ledger does.                             *)
LEMMA LedgerInit == Init => Ledger!Init
BY DEF Init, Ledger!Init

(* Every step states, answers, gives up, or changes nothing of the ledger. *)
LEMMA LedgerStep ==
    IInv /\ [Next]_vars =>
        [Ledger!Next]_<<Len(statements), {a.request : a \in answers},
                        IF phase = "player_question" THEN Len(statements) ELSE None>>
<1> DEFINE said == Len(statements)
           given == {a.request : a \in answers}
           open == IF phase = "player_question" THEN Len(statements) ELSE None
<1> SUFFICES ASSUME IInv, [Next]_vars PROVE [Ledger!Next]_<<said, given, open>>
  OBVIOUS
<1>1. Len(statements) \in Nat /\ None \notin Nat
  BY NoneAssumption DEF IInv, StatementsAscend
<1>2. ASSUME UNCHANGED <<phase, statements, answers>> PROVE UNCHANGED <<said, given, open>>
  BY <1>2
<1>3. ASSUME NEW acts \in Utterances, PlayerCommits(acts) PROVE Ledger!State
  <2>1. phase # "player_question"
    BY <1>3 DEF PlayerCommits, MayCommitStatement, IInv, QuestionHasAnOwner
  <2>2. Len(statements') = Len(statements) + 1
    BY <1>3 DEF PlayerCommits, IInv, StatementsAscend
  <2> QED
    BY <1>3, <2>1, <2>2 DEF PlayerCommits, Ledger!State
<1>4. ASSUME ReactionSettled PROVE Ledger!GiveUp
  <2>1. phase = "player_question" /\ phase' = "day_discussion" /\ UNCHANGED <<statements, answers>>
    BY <1>4 DEF ReactionSettled, OwnerMatches, conversation
  <2> QED
    BY <1>1, <2>1 DEF Ledger!GiveUp
<1>5. ASSUME OtherCommand, phase' # "player_question" PROVE UNCHANGED <<said, given, open>>
  BY <1>5 DEF OtherCommand, conversation, IInv, QuestionHasAnOwner
<1>6. CASE CommandStep
  <2>1. ASSUME \/ AskAccepted \/ InterpreterDeclines \/ ReactionNeedsNoSettlement
               \/ \E acts \in Utterances : PlayerCommitThrows(acts)
        PROVE  UNCHANGED <<said, given, open>>
    BY <1>2, <2>1 DEF AskAccepted, InterpreterDeclines, ReactionNeedsNoSettlement,
                      PlayerCommitThrows, conversation
  <2>2. CASE Vote
    BY <1>5, <2>2 DEF Vote
  <2>3. CASE Night
    BY <1>5, <2>3 DEF Night
  <2> QED
    BY <1>3, <1>4, <1>6, <2>1, <2>2, <2>3 DEF CommandStep, Ledger!Next
<1>7. CASE PortStep
  <2>1. ASSUME NEW c \in Clients, NEW expected \in 0..MaxSafe, CommitApplied(c, expected)
        PROVE  Ledger!Answer
    <3> DEFINE p == prepared[c]
    <3>1. phase = "player_question" /\ p.request = Len(statements)
      BY <2>1 DEF CommitApplied, HandIn, Commits, Applicable, IInv, ReactionsFollow
    <3>2. /\ phase' = "day_discussion" /\ answers' = answers \union {p}
          /\ UNCHANGED statements
      BY <2>1 DEF CommitApplied, ApplyDelta, Delta
    <3> QED
      BY <1>1, <3>1, <3>2 DEF Ledger!Answer
  <2>2. CASE UNCHANGED <<phase, conversation>>
    BY <1>2, <2>2 DEF conversation
  <2> QED
    BY <1>7, <2>1, <2>2 DEF PortStep, Prepare, CommitConflicts, CommitReplayed, CommitRejected,
                            CommitThrows, Ledger!Next
<1>8. CASE UNCHANGED vars
  BY <1>2, <1>8 DEF vars, conversation
<1> QED
  BY <1>6, <1>7, <1>8 DEF Next

(* commitPreparedNpcReactionAtomically and _commitStructuredPlayerQuestion *)
(* record statements and answers as the ledger promises.                   *)
THEOREM ConversationImplementsLedger == Spec => ImplementsLedger
BY LedgerInit, LedgerStep, Invariance, PTL DEF Spec, ImplementsLedger, Ledger!Spec

-----------------------------------------------------------------------------
(* The claims.  What a statement or a reaction claims is built up one act  *)
(* after another, by a recursive function on the sets of acts.  That there *)
(* is one, and what it builds, is shown by taking the least number of acts *)
(* for which it would fail.                                                *)

(* A non-empty set of naturals has a least element.                        *)
LEMMA LeastExists ==
    ASSUME NEW T \in SUBSET Nat, T # {}
    PROVE  \E x \in T : \A y \in T : x <= y
<1> DEFINE R == {ss \in Nat \X Nat : ss[1] < ss[2]}
<1>1. IsWellFoundedOn(R, Nat)
  BY NatLessThanWellFounded DEF OpToRel
<1>2. PICK x \in T : \A y \in T : ~(<<y, x>> \in R)
  BY <1>1, WFMin
<1>3. ASSUME NEW y \in T, ~(x <= y) PROVE FALSE
  <2>1. <<y, x>> \in Nat \X Nat /\ y < x
    BY <1>3
  <2> QED
    BY <1>2, <2>1
<1> QED
  BY <1>3

Latest(s) == CHOOSE i \in s : \A j \in s : i >= j

(* The latest of some of the first n.                                      *)
LEMMA LatestIs ==
    ASSUME NEW n \in Nat, NEW s \in SUBSET (1..n), s # {}
    PROVE  Latest(s) \in s /\ \A j \in s : Latest(s) >= j
<1> DEFINE T == {n - j : j \in s}
<1>1. T \in SUBSET Nat /\ T # {}
  <2>1. \A j \in s : j \in 1..n
    OBVIOUS
  <2>2. \A j \in s : n - j \in Nat
    BY <2>1
  <2> QED
    BY <2>2
<1>2. PICK k \in T : \A l \in T : k <= l
  <2> HIDE DEF T
  <2> QED
    BY <1>1, LeastExists
<1>3. PICK i \in s : k = n - i
  OBVIOUS
<1>4. ASSUME NEW j \in s PROVE i >= j
  <2>1. i \in 1..n /\ j \in 1..n /\ n - j \in T
    OBVIOUS
  <2>2. k <= n - j
    BY <1>2, <2>1
  <2> HIDE DEF T
  <2> QED
    BY <1>3, <2>1, <2>2
<1>5. \E m \in s : \A j \in s : m >= j
  BY <1>4
<1> QED
  BY <1>5 DEF Latest

(* f builds up what is asserted, one act after another, from base.         *)
Builds(f, base, own, prior, actor, at, acts, D) ==
    f = [s \in D |->
           IF s = {} THEN base
           ELSE Asserted(f[s \ {Latest(s)}],
                         IF own THEN f[s \ {Latest(s)}] ELSE prior,
                         actor, acts[Latest(s)], at)]

(* result is what all acts build up.                                       *)
BuiltUp(result, base, own, prior, actor, at, acts) ==
    \E f : /\ Builds(f, base, own, prior, actor, at, acts, SUBSET (1..Len(acts)))
           /\ result = f[1..Len(acts)]

(* What can be built from the first k acts can be from one more.           *)
LEMMA BuildExtends ==
    ASSUME NEW base, NEW own, NEW prior, NEW actor, NEW at, NEW acts, NEW k \in Nat,
           NEW f, Builds(f, base, own, prior, actor, at, acts, SUBSET (1..k))
    PROVE  \E g : Builds(g, base, own, prior, actor, at, acts, SUBSET (1..(k + 1)))
<1> DEFINE term(h, s) ==
               IF s = {} THEN base
               ELSE Asserted(h[s \ {Latest(s)}],
                             IF own THEN h[s \ {Latest(s)}] ELSE prior,
                             actor, acts[Latest(s)], at)
           g == [s \in SUBSET (1..(k + 1)) |-> term(f, s)]
<1>1. \A s \in SUBSET (1..k) : s \in SUBSET (1..(k + 1)) /\ f[s] = term(f, s)
  <2>1. SUBSET (1..k) \subseteq SUBSET (1..(k + 1))
    OBVIOUS
  <2>2. ASSUME NEW s \in SUBSET (1..k) PROVE f[s] = term(f, s)
    BY DEF Builds
  <2> HIDE DEF term
  <2> QED
    BY <2>1, <2>2
<1>2. \A s \in SUBSET (1..k) : g[s] = f[s]
  BY <1>1
<1>3. ASSUME NEW s \in SUBSET (1..(k + 1)) PROVE term(f, s) = term(g, s)
  <2>1. CASE s = {}
    BY <2>1
  <2>2. CASE s # {}
    <3>1. Latest(s) \in s /\ \A j \in s : Latest(s) >= j
      <4>1. k + 1 \in Nat
        OBVIOUS
      <4> QED
        BY <4>1, <2>2, LatestIs
    <3>2. s \ {Latest(s)} \in SUBSET (1..k)
      <4>1. ASSUME NEW j \in s, j # Latest(s) PROVE j \in 1..k
        <5>1. j \in 1..(k + 1) /\ Latest(s) \in 1..(k + 1) /\ Latest(s) >= j
          BY <3>1
        <5> QED
          BY <4>1, <5>1
      <4> QED
        BY <4>1
    <3>3. g[s \ {Latest(s)}] = f[s \ {Latest(s)}]
      BY <1>2, <3>2
    <3> HIDE DEF g
    <3> QED
      BY <3>3
  <2> QED
    BY <2>1, <2>2
<1>4. g = [s \in SUBSET (1..(k + 1)) |-> term(g, s)]
  <2>1. g = [s \in SUBSET (1..(k + 1)) |-> g[s]]
    OBVIOUS
  <2>2. \A s \in SUBSET (1..(k + 1)) : g[s] = term(g, s)
    BY <1>3
  <2> HIDE DEF g, term
  <2> QED
    BY <2>1, <2>2
<1> HIDE DEF g
<1> QED
  BY <1>4 DEF Builds

(* So every sequence of acts can be built up.                              *)
LEMMA BuildExists ==
    ASSUME NEW base, NEW own, NEW prior, NEW actor, NEW at, NEW acts, NEW n \in Nat
    PROVE  \E f : Builds(f, base, own, prior, actor, at, acts, SUBSET (1..n))
<1> DEFINE Built(k) == \E f : Builds(f, base, own, prior, actor, at, acts, SUBSET (1..k))
           Bad == {k \in Nat : ~Built(k)}
<1>1. Built(0)
  <2>1. Builds([s \in {{}} |-> base], base, own, prior, actor, at, acts, {{}})
    BY DEF Builds
  <2>2. SUBSET (1..0) = {{}}
    OBVIOUS
  <2> QED
    BY <2>1, <2>2
<1>2. Bad = {}
  <2> SUFFICES ASSUME Bad # {} PROVE FALSE
    OBVIOUS
  <2>1. PICK k \in Bad : \A j \in Bad : k <= j
    <3>1. Bad \in SUBSET Nat
      OBVIOUS
    <3> HIDE DEF Bad
    <3> QED
      BY <3>1, LeastExists
  <2>2. k \in Nat \ {0}
    BY <1>1
  <2>3. k - 1 \in Nat /\ k - 1 \notin Bad /\ (k - 1) + 1 = k
    <3>1. k - 1 \in Nat /\ (k - 1) + 1 = k /\ ~(k <= k - 1)
      BY <2>2
    <3> HIDE DEF Bad
    <3> QED
      BY <2>1, <3>1
  <2>4. Built((k - 1) + 1)
    <3>1. Built(k - 1)
      BY <2>3
    <3> QED
      BY <3>1, <2>3, BuildExtends
  <2> QED
    BY <2>3, <2>4
<1> HIDE DEF Built
<1>3. Built(n)
  BY <1>2
<1> QED
  BY <1>3 DEF Built

(* The claims of a statement are built up from those there are.            *)
LEMMA StatementIsBuilt ==
    ASSUME NEW acts \in Utterances
    PROVE  BuiltUp(ClaimsOfStatement(acts), claims, TRUE, <<>>, "player", version + 1, acts)
<1>1. Len(acts) \in Nat /\ DOMAIN acts = 1..Len(acts)
  BY InputsAssumption
<1>2. \E f : Builds(f, claims, TRUE, <<>>, "player", version + 1, acts, SUBSET (1..Len(acts)))
  BY <1>1, BuildExists
<1>3. \E f : f = [s \in SUBSET DOMAIN acts |->
                    IF s = {} THEN claims
                    ELSE Asserted(f[s \ {Latest(s)}], f[s \ {Latest(s)}], "player",
                                  acts[Latest(s)], version + 1)]
  BY <1>1, <1>2 DEF Builds
<1>4. \E f : /\ f = [s \in SUBSET DOMAIN acts |->
                       IF s = {} THEN claims
                       ELSE Asserted(f[s \ {Latest(s)}], f[s \ {Latest(s)}], "player",
                                     acts[Latest(s)], version + 1)]
             /\ ClaimsOfStatement(acts) = f[DOMAIN acts]
  BY <1>3 DEF ClaimsOfStatement, FoldLeft, MapThenFoldSet, Max, Latest
<1> QED
  BY <1>1, <1>4 DEF Builds, BuiltUp

(* The claims of a reaction are built up from none.                        *)
LEMMA ReactionIsBuilt ==
    ASSUME NEW prior, NEW npc, NEW at, NEW proposals \in Candidates
    PROVE  BuiltUp(ClaimsOfReaction(prior, npc, proposals, at), <<>>, FALSE, prior, npc, at,
                   proposals)
<1>1. Len(proposals) \in Nat /\ DOMAIN proposals = 1..Len(proposals)
  BY InputsAssumption
<1>2. \E f : Builds(f, <<>>, FALSE, prior, npc, at, proposals, SUBSET (1..Len(proposals)))
  BY <1>1, BuildExists
<1>3. \E f : f = [s \in SUBSET DOMAIN proposals |->
                    IF s = {} THEN <<>>
                    ELSE Asserted(f[s \ {Latest(s)}], prior, npc, proposals[Latest(s)], at)]
  BY <1>1, <1>2 DEF Builds
<1>4. \E f : /\ f = [s \in SUBSET DOMAIN proposals |->
                       IF s = {} THEN <<>>
                       ELSE Asserted(f[s \ {Latest(s)}], prior, npc, proposals[Latest(s)], at)]
             /\ ClaimsOfReaction(prior, npc, proposals, at) = f[DOMAIN proposals]
  BY <1>3 DEF ClaimsOfReaction, FoldLeft, MapThenFoldSet, Max, Latest
<1> QED
  BY <1>1, <1>4 DEF Builds, BuiltUp

-----------------------------------------------------------------------------
IsList(s) == s \in Seq({s[i] : i \in DOMAIN s})

(* s is a beginning of t.                                                  *)
StartsWith(t, s) == Len(s) <= Len(t) /\ \A i \in 1..Len(s) : t[i] = s[i]

(* A list that something is appended to.                                   *)
LEMMA AppendedIs ==
    ASSUME NEW s, IsList(s), NEW e
    PROVE  /\ IsList(Append(s, e)) /\ Len(s) \in Nat /\ Len(Append(s, e)) = Len(s) + 1
           /\ DOMAIN s = 1..Len(s)
           /\ StartsWith(Append(s, e), s) /\ Append(s, e)[Len(s) + 1] = e
<1> DEFINE S == {s[i] : i \in DOMAIN s} \union {e}
           t == Append(s, e)
<1>1. s \in Seq(S) /\ e \in S
  <2>1. s \in Seq({s[i] : i \in DOMAIN s})
    BY DEF IsList
  <2> QED
    BY <2>1
<1> HIDE DEF S
<1>2. /\ t \in Seq(S) /\ Len(s) \in Nat /\ Len(t) = Len(s) + 1
      /\ DOMAIN s = 1..Len(s) /\ DOMAIN t = 1..Len(t)
      /\ t[Len(s) + 1] = e /\ \A i \in 1..Len(s) : t[i] = s[i]
  BY <1>1
<1> HIDE DEF t
<1>3. t \in Seq({t[i] : i \in DOMAIN t})
  BY <1>2
<1> QED
  BY <1>2, <1>3 DEF IsList, StartsWith, t

(* Two lists one after the other.                                          *)
LEMMA JoinedIs ==
    ASSUME NEW s, IsList(s), NEW u, IsList(u)
    PROVE  /\ IsList(s \o u) /\ Len(s) \in Nat /\ Len(u) \in Nat
           /\ Len(s \o u) = Len(s) + Len(u) /\ DOMAIN s = 1..Len(s)
           /\ StartsWith(s \o u, s)
           /\ \A i \in 1..Len(u) : (s \o u)[Len(s) + i] = u[i]
<1> DEFINE S == {s[i] : i \in DOMAIN s} \union {u[i] : i \in DOMAIN u}
           t == s \o u
<1>1. s \in Seq(S) /\ u \in Seq(S)
  <2>1. s \in Seq({s[i] : i \in DOMAIN s}) /\ u \in Seq({u[i] : i \in DOMAIN u})
    BY DEF IsList
  <2> QED
    BY <2>1
<1> HIDE DEF S
<1>2. /\ t \in Seq(S) /\ Len(s) \in Nat /\ Len(u) \in Nat /\ Len(t) = Len(s) + Len(u)
      /\ DOMAIN s = 1..Len(s) /\ DOMAIN t = 1..Len(t)
      /\ \A i \in 1..Len(s) : t[i] = s[i]
  BY <1>1
<1>3. \A i \in 1..Len(u) : t[Len(s) + i] = u[i]
  BY <1>1
<1> HIDE DEF t
<1>4. t \in Seq({t[i] : i \in DOMAIN t})
  BY <1>2
<1> QED
  BY <1>2, <1>3, <1>4 DEF IsList, StartsWith, t

(* Claim i of all is one of actor's at at, given what was claimed before.  *)
ClaimedAfter(all, i, before, actor, at) ==
    \E act : all[i] = Claim(before, actor, act, at)

(* all is what base has grown to by claims of actor's at at: each is given *)
(* what was claimed before it (own), or what prior is.                     *)
Grown(all, base, own, prior, actor, at) ==
    /\ IsList(all) /\ StartsWith(all, base)
    /\ \A i \in (Len(base) + 1)..Len(all) :
         \E before :
            /\ ClaimedAfter(all, i, before, actor, at)
            /\ IF own
               THEN /\ IsList(before) /\ Len(before) = i - 1
                    /\ StartsWith(all, before) /\ StartsWith(before, base)
               ELSE before = prior

(* What is asserted lets the claims grow.                                  *)
LEMMA AssertedGrows ==
    ASSUME NEW all, NEW base, IsList(base), NEW own \in BOOLEAN, NEW prior, NEW actor, NEW at,
           Grown(all, base, own, prior, actor, at), NEW act
    PROVE  Grown(Asserted(all, IF own THEN all ELSE prior, actor, act, at),
                 base, own, prior, actor, at)
<1> DEFINE from == IF own THEN all ELSE prior
           claim == Claim(from, actor, act, at)
           grown == Append(all, claim)
<1>1. IsList(all) /\ StartsWith(all, base)
  BY DEF Grown
<1>2. CASE ~IsClaim(act)
  BY <1>2 DEF Asserted
<1>3. CASE IsClaim(act)
  <2>1. Asserted(all, from, actor, act, at) = grown
    BY <1>3 DEF Asserted
  <2>2. claim = Claim(from, actor, act, at)
    OBVIOUS
  <2> HIDE DEF claim
  <2>3. /\ IsList(grown) /\ Len(all) \in Nat /\ Len(grown) = Len(all) + 1
        /\ StartsWith(grown, all) /\ grown[Len(all) + 1] = claim
    BY <1>1, AppendedIs
  <2>4. Len(base) \in Nat
    BY AppendedIs
  <2> HIDE DEF grown
  <2>5. StartsWith(grown, base)
    BY <1>1, <2>3, <2>4 DEF StartsWith
  <2>6. ASSUME NEW i \in (Len(base) + 1)..Len(grown)
        PROVE  \E before :
                  /\ ClaimedAfter(grown, i, before, actor, at)
                  /\ IF own
                     THEN /\ IsList(before) /\ Len(before) = i - 1
                          /\ StartsWith(grown, before) /\ StartsWith(before, base)
                     ELSE before = prior
    <3>1. CASE i = Len(all) + 1
      <4>1. ClaimedAfter(grown, i, from, actor, at)
        BY <2>2, <2>3, <3>1 DEF ClaimedAfter
      <4>2. own => /\ IsList(from) /\ Len(from) = i - 1
                   /\ StartsWith(grown, from) /\ StartsWith(from, base)
        BY <1>1, <2>3, <3>1
      <4>3. ~own => from = prior
        OBVIOUS
      <4> HIDE DEF from
      <4> QED
        BY <4>1, <4>2, <4>3
    <3>2. CASE i # Len(all) + 1
      <4>1. i \in (Len(base) + 1)..Len(all) /\ i \in 1..Len(all) /\ i - 1 <= Len(all)
        BY <2>3, <2>4, <3>2
      <4>2. PICK before :
              /\ ClaimedAfter(all, i, before, actor, at)
              /\ IF own
                 THEN /\ IsList(before) /\ Len(before) = i - 1
                      /\ StartsWith(all, before) /\ StartsWith(before, base)
                 ELSE before = prior
        BY <4>1 DEF Grown
      <4>3. ClaimedAfter(grown, i, before, actor, at)
        BY <2>3, <4>1, <4>2 DEF ClaimedAfter, StartsWith
      <4>4. own => StartsWith(grown, before)
        <5> SUFFICES ASSUME own PROVE StartsWith(grown, before)
          OBVIOUS
        <5>1. Len(before) = i - 1 /\ StartsWith(all, before)
          BY <4>2
        <5>2. i \in Nat /\ \A j \in 1..(i - 1) : j \in 1..Len(all)
          BY <2>3, <4>1
        <5> QED
          BY <2>3, <4>1, <5>1, <5>2 DEF StartsWith
      <4> QED
        BY <4>2, <4>3, <4>4
    <3> QED
      BY <3>1, <3>2
  <2>7. Grown(grown, base, own, prior, actor, at)
    BY <2>3, <2>5, <2>6 DEF Grown
  <2> QED
    BY <2>1, <2>7
<1> QED
  BY <1>2, <1>3

(* So whatever is built up has grown from its base.                        *)
LEMMA BuiltIsGrown ==
    ASSUME NEW base, IsList(base), NEW own \in BOOLEAN, NEW prior, NEW actor, NEW at,
           NEW acts, Len(acts) \in Nat,
           NEW result, BuiltUp(result, base, own, prior, actor, at, acts)
    PROVE  Grown(result, base, own, prior, actor, at)
<1> DEFINE n == Len(acts)
<1> PICK f : /\ Builds(f, base, own, prior, actor, at, acts, SUBSET (1..n))
             /\ result = f[1..n]
  BY DEF BuiltUp
<1> HIDE DEF n
<1>1. n \in Nat
  BY DEF n
<1> DEFINE Fits(k) == Grown(f[1..k], base, own, prior, actor, at)
           Bad == {k \in 0..n : ~Fits(k)}
<1>2. Fits(0)
  <2>1. 1..0 = {} /\ {} \in SUBSET (1..n)
    BY <1>1
  <2>2. f[1..0] = base
    BY <2>1 DEF Builds
  <2>3. Len(base) \in Nat
    BY AppendedIs
  <2>4. StartsWith(base, base) /\ (Len(base) + 1)..Len(base) = {}
    BY <2>3 DEF StartsWith
  <2> QED
    BY <2>2, <2>4 DEF Grown
<1>3. ASSUME NEW k \in 1..n, Fits(k - 1) PROVE Fits(k)
  <2>1. /\ 1..k \in SUBSET (1..n) /\ 1..k # {} /\ k \in Nat
        /\ (1..k) \ {k} = 1..(k - 1)
    <3>1. k \in Nat \ {0} /\ k <= n
      BY <1>1
    <3>2. 1..k \subseteq 1..n /\ k \in 1..k
      BY <1>1, <3>1
    <3>3. (1..k) \ {k} = 1..(k - 1)
      BY <3>1
    <3> QED
      BY <3>1, <3>2, <3>3
  <2>2. Latest(1..k) = k
    <3>1. 1..k \in SUBSET (1..k) /\ k \in 1..k
      BY <2>1
    <3>2. Latest(1..k) \in 1..k /\ Latest(1..k) >= k
      BY <2>1, <3>1, LatestIs
    <3> QED
      BY <2>1, <3>2
  <2>3. f[1..k] = Asserted(f[(1..k) \ {Latest(1..k)}],
                           IF own THEN f[(1..k) \ {Latest(1..k)}] ELSE prior,
                           actor, acts[Latest(1..k)], at)
    BY <2>1 DEF Builds
  <2>4. f[1..k] = Asserted(f[1..(k - 1)], IF own THEN f[1..(k - 1)] ELSE prior,
                           actor, acts[k], at)
    BY <2>1, <2>2, <2>3
  <2> QED
    BY <1>3, <2>4, AssertedGrows
<1> HIDE DEF Fits
<1>4. Bad = {}
  <2> SUFFICES ASSUME Bad # {} PROVE FALSE
    OBVIOUS
  <2>1. PICK k \in Bad : \A j \in Bad : k <= j
    <3>1. Bad \in SUBSET Nat
      BY <1>1
    <3> HIDE DEF Bad
    <3> QED
      BY <3>1, LeastExists
  <2>2. k \in 1..n /\ ~Fits(k)
    BY <1>1, <1>2
  <2>3. k - 1 \in 0..n /\ ~(k <= k - 1)
    BY <1>1, <2>2
  <2>4. Fits(k - 1)
    BY <2>1, <2>3
  <2> QED
    BY <1>3, <2>2, <2>4
<1> QED
  BY <1>1, <1>4 DEF Fits

(* What a player or NPC claims from prior is at at.                        *)
LEMMA ClaimIsAt == \A prior, actor, act, at : Claim(prior, actor, act, at).at = at
BY DEF Claim

(* Claim i of all repeats the first claim of an earlier version that says  *)
(* the same, or contradicts every earlier one on its subject.              *)
EarlierThan(all, i) == {j \in DOMAIN all : all[j].at < all[i].at /\ SameSubject(all[j], all[i])}
SameAs(all, i) == {j \in EarlierThan(all, i) : all[j].payload = all[i].payload}
RightAt(all, i) ==
    IF SameAs(all, i) = {}
    THEN all[i].repeats = None /\ all[i].contradicts = EarlierThan(all, i)
    ELSE /\ all[i].repeats \in SameAs(all, i) /\ all[i].contradicts = {}
         /\ \A j \in SameAs(all, i) : all[i].repeats <= j

(* A claim whose references hold is right: those it relates to among the   *)
(* ones before it are then those of earlier versions.                      *)
LEMMA NewClaimIsRight ==
    ASSUME NEW all, IsList(all), NEW n \in Nat, NEW at,
           \A j \in 1..n : all[j].at < at,
           \A j \in (n + 1)..Len(all) : all[j].at = at,
           NEW i \in (n + 1)..Len(all),
           NEW before, IsList(before), StartsWith(all, before), n <= Len(before),
           NEW actor, ClaimedAfter(all, i, before, actor, at),
           ClaimReferencesHold(all), ~(at < at)
    PROVE  RightAt(all, i)
<1> PICK act : all[i] = Claim(before, actor, act, at)
  BY DEF ClaimedAfter
<1> DEFINE new == [actor |-> actor, subject |-> act.subject]
           same == {j \in DOMAIN before : SameSubject(before[j], new)}
           equal == {j \in same : before[j].payload = act.payload}
           first == CHOOSE j \in equal : \A k \in equal : j <= k
<1>1. /\ all[i].actor = actor /\ all[i].subject = act.subject /\ all[i].payload = act.payload
      /\ all[i].at = at
      /\ all[i].repeats = IF equal = {} THEN None ELSE first
      /\ all[i].contradicts = IF equal = {} THEN same ELSE {}
  BY DEF Claim
<1>2. /\ Len(all) \in Nat /\ Len(before) \in Nat /\ Len(before) <= Len(all)
      /\ DOMAIN all = 1..Len(all) /\ DOMAIN before = 1..Len(before)
      /\ \A j \in 1..Len(before) : before[j] = all[j]
  BY AppendedIs DEF StartsWith
<1>3. i \in DOMAIN all
  BY <1>2
<1>4. \A j \in Related(all[i]) : j \in DOMAIN all /\ all[j].at < at
  BY <1>1, <1>3 DEF ClaimReferencesHold
<1>5. \A j \in DOMAIN all : all[j].at < at <=> j \in 1..n
  <2> TAKE j \in DOMAIN all
  <2>1. j \in 1..n \/ j \in (n + 1)..Len(all)
    BY <1>2
  <2>2. j \in (n + 1)..Len(all) => ~(all[j].at < at) /\ j \notin 1..n
    BY <1>2
  <2> QED
    BY <2>1, <2>2
<1>6. \A j \in DOMAIN all : SameSubject(all[j], all[i]) <=> SameSubject(all[j], new)
  BY <1>1 DEF SameSubject
<1>7. EarlierThan(all, i) = {j \in same : j \in 1..n}
  <2>1. \A j \in 1..n : j \in DOMAIN all /\ j \in DOMAIN before /\ before[j] = all[j]
    BY <1>2
  <2>2. same \subseteq DOMAIN all
    BY <1>2
  <2>3. ASSUME NEW j \in EarlierThan(all, i) PROVE j \in same /\ j \in 1..n
    <3>1. j \in DOMAIN all /\ all[j].at < at /\ SameSubject(all[j], all[i])
      BY <1>1 DEF EarlierThan
    <3>2. j \in 1..n /\ SameSubject(all[j], new)
      BY <1>5, <1>6, <3>1
    <3> QED
      BY <2>1, <3>2
  <2>4. ASSUME NEW j \in same, j \in 1..n PROVE j \in EarlierThan(all, i)
    <3>1. j \in DOMAIN all /\ all[j] = before[j] /\ SameSubject(before[j], new)
      BY <2>1, <2>4
    <3> HIDE DEF new
    <3>2. all[j].at < all[i].at /\ SameSubject(all[j], all[i])
      BY <1>1, <1>5, <1>6, <2>4, <3>1
    <3> QED
      BY <3>1, <3>2 DEF EarlierThan
  <2> QED
    BY <2>3, <2>4
<1>8. SameAs(all, i) = {j \in equal : j \in 1..n}
  <2>1. \A j \in 1..n : before[j] = all[j]
    BY <1>2
  <2> HIDE DEF same
  <2> QED
    BY <1>1, <1>7, <2>1 DEF SameAs
<1>9. equal \in SUBSET Nat /\ equal \subseteq same
  BY <1>2
<1> HIDE DEF same, equal
<1>10. CASE equal = {}
  <2>1. all[i].repeats = None /\ all[i].contradicts = same
    BY <1>1, <1>10
  <2>2. \A j \in same : j \in 1..n
    BY <1>4, <1>5, <2>1 DEF Related
  <2>3. EarlierThan(all, i) = same
    BY <1>7, <2>2
  <2>4. SameAs(all, i) = {}
    BY <1>8, <1>10
  <2> QED
    BY <2>1, <2>3, <2>4 DEF RightAt
<1>11. CASE equal # {}
  <2>1. first \in equal /\ \A k \in equal : first <= k
    <3>1. \E j \in equal : \A k \in equal : j <= k
      BY <1>9, <1>11, LeastExists
    <3> QED
      BY <3>1
  <2>2. all[i].repeats = first /\ all[i].contradicts = {}
    BY <1>1, <1>11
  <2> HIDE DEF first
  <2>3. first # None
    BY <1>9, <2>1, NoneAssumption
  <2>4. first \in 1..n
    BY <1>4, <1>5, <2>2, <2>3 DEF Related
  <2>5. first \in SameAs(all, i) /\ \A j \in SameAs(all, i) : first <= j
    BY <1>8, <2>1, <2>4
  <2> QED
    BY <2>2, <2>5 DEF RightAt
<1> QED
  BY <1>10, <1>11

(* What was right before others are claimed at a later version stays so.   *)
LEMMA OldClaimStaysRight ==
    ASSUME NEW old, IsList(old), NEW all, IsList(all), StartsWith(all, old), NEW at,
           \A j \in (Len(old) + 1)..Len(all) : all[j].at = at,
           NEW i \in 1..Len(old), RightAt(old, i), ~(at < old[i].at)
    PROVE  RightAt(all, i)
<1>1. /\ Len(all) \in Nat /\ Len(old) \in Nat /\ Len(old) <= Len(all)
      /\ DOMAIN all = 1..Len(all) /\ DOMAIN old = 1..Len(old)
      /\ \A j \in 1..Len(old) : all[j] = old[j]
  BY AppendedIs DEF StartsWith
<1>2. \A j \in 1..Len(all) : j \in 1..Len(old) \/ j \in (Len(old) + 1)..Len(all)
  BY <1>1
<1>3. \A j \in 1..Len(old) : j \in 1..Len(all)
  BY <1>1
<1>4. EarlierThan(all, i) = EarlierThan(old, i)
  <2>1. ASSUME NEW j \in EarlierThan(all, i) PROVE j \in EarlierThan(old, i)
    <3>1. j \in 1..Len(all) /\ all[j].at < old[i].at /\ SameSubject(all[j], old[i])
      BY <1>1 DEF EarlierThan
    <3>2. j \in 1..Len(old)
      BY <1>2, <3>1
    <3> QED
      BY <1>1, <3>1, <3>2 DEF EarlierThan
  <2>2. ASSUME NEW j \in EarlierThan(old, i) PROVE j \in EarlierThan(all, i)
    BY <1>1, <1>3 DEF EarlierThan
  <2> QED
    BY <2>1, <2>2
<1>5. SameAs(all, i) = SameAs(old, i)
  <2>1. \A j \in EarlierThan(old, i) : all[j] = old[j]
    BY <1>1 DEF EarlierThan
  <2> QED
    BY <1>1, <1>4, <2>1 DEF SameAs
<1> QED
  BY <1>1, <1>4, <1>5 DEF RightAt

(* The invariant: claims are dated, and related as they should be.         *)
ClaimsFit ==
    /\ IsList(claims)
    /\ \A i \in 1..Len(claims) : claims[i].at \in Nat /\ claims[i].at <= version
    /\ \A i \in 1..Len(claims) : RightAt(claims, i)

(* The claims of the next version leave the others as they were, and are   *)
(* right if their references hold.                                         *)
LEMMA GrowthFits ==
    ASSUME ClaimsFit, version \in Nat, NEW all, IsList(all), StartsWith(all, claims),
           \A i \in (Len(claims) + 1)..Len(all) :
              \E before, actor :
                 /\ ClaimedAfter(all, i, before, actor, version + 1)
                 /\ IsList(before) /\ StartsWith(all, before) /\ Len(claims) <= Len(before),
           ClaimReferencesHold(all)
    PROVE  /\ \A i \in 1..Len(all) : all[i].at \in Nat /\ all[i].at <= version + 1
           /\ \A i \in 1..Len(all) : RightAt(all, i)
<1> DEFINE n == Len(claims)
           at == version + 1
<1>1. /\ Len(all) \in Nat /\ n \in Nat /\ n <= Len(all)
      /\ \A j \in 1..n : all[j] = claims[j]
  BY AppendedIs DEF StartsWith, ClaimsFit
<1>2. \A j \in 1..n : claims[j].at \in Nat /\ claims[j].at <= version /\ RightAt(claims, j)
  BY DEF ClaimsFit
<1>3. \A j \in (n + 1)..Len(all) : all[j].at = at
  BY ClaimIsAt DEF ClaimedAfter
<1>4. \A i \in 1..Len(all) : i \in 1..n \/ i \in (n + 1)..Len(all)
  BY <1>1
<1>5. ASSUME NEW i \in 1..n
      PROVE  all[i].at \in Nat /\ all[i].at < at /\ RightAt(all, i)
  <2>1. all[i].at \in Nat /\ all[i].at < at /\ ~(at < claims[i].at) /\ RightAt(claims, i)
    BY <1>1, <1>2
  <2>2. IsList(claims)
    BY DEF ClaimsFit
  <2> HIDE DEF at
  <2> QED
    BY <1>3, <2>1, <2>2, OldClaimStaysRight
<1>6. ASSUME NEW i \in (n + 1)..Len(all)
      PROVE  all[i].at = at /\ RightAt(all, i)
  <2>1. PICK before, actor :
          /\ ClaimedAfter(all, i, before, actor, at)
          /\ IsList(before) /\ StartsWith(all, before) /\ n <= Len(before)
    OBVIOUS
  <2>2. ~(at < at) /\ \A j \in 1..n : all[j].at < at
    BY <1>5
  <2> HIDE DEF n, at
  <2> QED
    BY <1>1, <1>3, <2>1, <2>2, NewClaimIsRight
<1>7. ASSUME NEW i \in 1..Len(all)
      PROVE  all[i].at \in Nat /\ all[i].at <= at /\ RightAt(all, i)
  BY <1>4, <1>5, <1>6, <1>7
<1> QED
  BY <1>7

(* PlayerCommits: each claim of the statement is made after those before   *)
(* it in the conversation and in the statement.                            *)
LEMMA StatementClaimsFit ==
    ASSUME IInv, ClaimsFit, NEW acts \in Utterances, PlayerCommits(acts)
    PROVE  ClaimsFit'
<1> DEFINE all == ClaimsOfStatement(acts)
<1>1. BuiltUp(all, claims, TRUE, <<>>, "player", version + 1, acts)
  BY StatementIsBuilt
<1>2. Len(acts) \in Nat /\ IsList(claims) /\ version \in Nat
  BY InputsAssumption DEF ClaimsFit, IInv, Numbers
<1>3. Grown(all, claims, TRUE, <<>>, "player", version + 1)
  BY <1>1, <1>2, BuiltIsGrown
<1>4. /\ claims' = all /\ ClaimReferencesHold(all) /\ version' = version + 1
  BY DEF PlayerCommits
<1> HIDE DEF all
<1>5. IsList(all) /\ StartsWith(all, claims)
  BY <1>3 DEF Grown
<1>6. \A i \in (Len(claims) + 1)..Len(all) :
        \E before, actor :
           /\ ClaimedAfter(all, i, before, actor, version + 1)
           /\ IsList(before) /\ StartsWith(all, before) /\ Len(claims) <= Len(before)
  BY <1>3 DEF Grown, StartsWith
<1>7. /\ \A i \in 1..Len(all) : all[i].at \in Nat /\ all[i].at <= version + 1
      /\ \A i \in 1..Len(all) : RightAt(all, i)
  BY <1>2, <1>4, <1>5, <1>6, GrowthFits
<1>8. ASSUME NEW i \in 1..Len(claims')
      PROVE  claims'[i].at \in Nat /\ claims'[i].at <= version' /\ RightAt(claims', i)
  BY <1>4, <1>7
<1> QED
  BY <1>4, <1>5, <1>8 DEF ClaimsFit

(* CommitApplied: each claim of the reaction is made after those that are  *)
(* committed; that they are still those of the snapshot is what the        *)
(* version guards.                                                         *)
LEMMA ReactionClaimsFit ==
    ASSUME IInv, ClaimsFit, NEW c \in Clients, NEW expected \in 0..MaxSafe,
           CommitApplied(c, expected)
    PROVE  ClaimsFit'
<1> DEFINE p == prepared[c]
           new == p.claims
           all == claims \o new
<1>1. /\ p # None /\ p.version = version /\ version \in Nat /\ p.proposals \in Candidates
      /\ p.claims = ClaimsOfReaction(claims, p.npc, p.proposals, version + 1)
  BY DEF CommitApplied, HandIn, Commits, Applicable, IInv, Numbers, ReactionsFollow,
         VersionGuardsPrepared
<1>2. claims' = all /\ ClaimReferencesHold(all) /\ version' = version + 1
  BY <1>1 DEF CommitApplied, ApplyDelta, Delta
<1> HIDE DEF p
<1>3. BuiltUp(new, <<>>, FALSE, claims, p.npc, version + 1, p.proposals)
  BY <1>1, ReactionIsBuilt
<1>4. Len(p.proposals) \in Nat /\ IsList(claims) /\ IsList(<<>>) /\ Len(<<>>) = 0
  <2>1. Len(p.proposals) \in Nat
    BY <1>1, InputsAssumption
  <2>2. IsList(<<>>) /\ Len(<<>>) = 0
    BY DEF IsList
  <2> QED
    BY <2>1, <2>2 DEF ClaimsFit
<1>5. Grown(new, <<>>, FALSE, claims, p.npc, version + 1)
  BY <1>1, <1>3, <1>4, BuiltIsGrown
<1> HIDE DEF new
<1>6. /\ IsList(new)
      /\ \A i \in 1..Len(new) : ClaimedAfter(new, i, claims, p.npc, version + 1)
  BY <1>4, <1>5 DEF Grown
<1>7. /\ IsList(all) /\ Len(claims) \in Nat /\ Len(new) \in Nat
      /\ Len(all) = Len(claims) + Len(new) /\ StartsWith(all, claims)
      /\ \A i \in 1..Len(new) : all[Len(claims) + i] = new[i]
  BY <1>4, <1>6, JoinedIs
<1> HIDE DEF all
<1>8. ASSUME NEW i \in (Len(claims) + 1)..Len(all)
      PROVE  \E before, actor :
                /\ ClaimedAfter(all, i, before, actor, version + 1)
                /\ IsList(before) /\ StartsWith(all, before) /\ Len(claims) <= Len(before)
  <2> DEFINE k == i - Len(claims)
  <2>1. k \in 1..Len(new) /\ i = Len(claims) + k
    BY <1>7
  <2> HIDE DEF k
  <2>2. ClaimedAfter(all, i, claims, p.npc, version + 1)
    BY <1>6, <1>7, <2>1 DEF ClaimedAfter
  <2>3. Len(claims) <= Len(claims)
    BY <1>7
  <2> QED
    BY <1>4, <1>7, <2>2, <2>3
<1>9. /\ \A i \in 1..Len(all) : all[i].at \in Nat /\ all[i].at <= version + 1
      /\ \A i \in 1..Len(all) : RightAt(all, i)
  BY <1>1, <1>2, <1>7, <1>8, GrowthFits
<1>10. ASSUME NEW i \in 1..Len(claims')
       PROVE  claims'[i].at \in Nat /\ claims'[i].at <= version' /\ RightAt(claims', i)
  BY <1>2, <1>9
<1> QED
  BY <1>2, <1>7, <1>10 DEF ClaimsFit

(* No other step changes the claims, and none takes a version back.        *)
LEMMA ClaimsStay ==
    ASSUME ClaimsFit, version \in Nat, claims' = claims, version' \in {version, version + 1}
    PROVE  ClaimsFit'
<1>1. ASSUME NEW i \in 1..Len(claims')
      PROVE  claims'[i].at \in Nat /\ claims'[i].at <= version' /\ RightAt(claims', i)
  BY DEF ClaimsFit
<1>2. IsList(claims')
  BY DEF ClaimsFit
<1> QED
  BY <1>1, <1>2 DEF ClaimsFit

(* Every step leaves the claims dated and related as they should be.       *)
LEMMA ClaimsStep == IInv /\ ClaimsFit /\ [Next]_vars => ClaimsFit'
<1> SUFFICES ASSUME IInv, ClaimsFit, [Next]_vars PROVE ClaimsFit'
  OBVIOUS
<1> DEFINE Same == claims' = claims /\ version' \in {version, version + 1}
<1>1. version \in Nat
  BY DEF IInv, Numbers
<1>2. CASE CommandStep
  <2>1. ASSUME NEW acts \in Utterances, PlayerCommits(acts) PROVE ClaimsFit'
    BY <2>1, StatementClaimsFit
  <2>2. ASSUME NEW acts \in Utterances, PlayerCommitThrows(acts) PROVE Same
    BY <2>2 DEF PlayerCommitThrows, conversation
  <2>3. ASSUME AskAccepted PROVE Same
    BY <2>3 DEF AskAccepted, conversation
  <2>4. ASSUME InterpreterDeclines PROVE Same
    BY <2>4 DEF InterpreterDeclines, conversation
  <2>5. ASSUME ReactionSettled PROVE Same
    BY <2>5 DEF ReactionSettled, conversation
  <2>6. ASSUME ReactionNeedsNoSettlement PROVE Same
    BY <2>6 DEF ReactionNeedsNoSettlement, conversation
  <2>7. ASSUME Vote PROVE Same
    BY <2>7 DEF Vote, OtherCommand, conversation
  <2>8. ASSUME Night PROVE Same
    BY <2>8 DEF Night, OtherCommand, conversation
  <2> HIDE DEF Same
  <2>9. Same => ClaimsFit'
    BY <1>1, ClaimsStay DEF Same
  <2> QED
    BY <1>2, <2>1, <2>2, <2>3, <2>4, <2>5, <2>6, <2>7, <2>8, <2>9 DEF CommandStep
<1>3. CASE PortStep
  <2>1. PICK c \in Clients :
          \/ \E r \in DOMAIN statements, n \in Tries[c], proposals \in Candidates :
                Prepare(c, r, n, proposals)
          \/ \E expected \in 0..MaxSafe :
                \/ CommitConflicts(c, expected)
                \/ CommitReplayed(c, expected)
                \/ \E rootAgrees \in BOOLEAN : CommitRejected(c, expected, rootAgrees)
                \/ CommitThrows(c, expected)
                \/ CommitApplied(c, expected)
    BY <1>3 DEF PortStep
  <2>2. ASSUME NEW r, NEW n, NEW proposals, Prepare(c, r, n, proposals) PROVE Same
    BY <2>2 DEF Prepare, conversation
  <2>3. ASSUME NEW expected \in 0..MaxSafe,
               \/ CommitConflicts(c, expected) \/ CommitReplayed(c, expected)
               \/ \E rootAgrees \in BOOLEAN : CommitRejected(c, expected, rootAgrees)
               \/ CommitThrows(c, expected)
        PROVE  Same
    BY <2>3 DEF CommitConflicts, CommitReplayed, CommitRejected, CommitThrows, conversation
  <2>4. ASSUME NEW expected \in 0..MaxSafe, CommitApplied(c, expected) PROVE ClaimsFit'
    BY <2>4, ReactionClaimsFit
  <2> HIDE DEF Same
  <2>5. Same => ClaimsFit'
    BY <1>1, ClaimsStay DEF Same
  <2> QED
    BY <2>1, <2>2, <2>3, <2>4, <2>5
<1>4. CASE UNCHANGED vars
  BY <1>1, <1>4, ClaimsStay DEF vars, conversation
<1> QED
  BY <1>2, <1>3, <1>4 DEF Next

(* The conversation begins without claims.                                 *)
LEMMA InitClaims == Init => ClaimsFit
BY DEF Init, ClaimsFit, IsList

(* The claims are dated and related in every reachable state.              *)
THEOREM ClaimsInvariance == Spec => []ClaimsFit
BY InitClaims, ClaimsStep, Invariance, PTL DEF Spec

(* createClaim and validateClaimReferences: in every conversation a claim  *)
(* repeats the first that says the same, or contradicts all earlier ones   *)
(* on its subject.                                                         *)
THEOREM RelationsStayRight == Spec => []RelationsAreRight
<1>1. ClaimsFit => RelationsAreRight
  <2> SUFFICES ASSUME ClaimsFit, NEW i \in DOMAIN claims
               PROVE  LET earlier == {j \in DOMAIN claims :
                                        /\ claims[j].at < claims[i].at
                                        /\ SameSubject(claims[j], claims[i])}
                          equal == {j \in earlier : claims[j].payload = claims[i].payload}
                      IN  IF equal = {}
                          THEN claims[i].repeats = None /\ claims[i].contradicts = earlier
                          ELSE /\ claims[i].repeats \in equal /\ claims[i].contradicts = {}
                               /\ \A j \in equal : claims[i].repeats <= j
    BY DEF RelationsAreRight
  <2>1. RightAt(claims, i)
    BY AppendedIs DEF ClaimsFit
  <2> QED
    BY <2>1 DEF RightAt, SameAs, EarlierThan
<1> QED
  BY <1>1, ClaimsInvariance, PTL

-----------------------------------------------------------------------------
(* The types of the rest: who is dead, what the seer knows, how commits    *)
(* have ended.                                                             *)
RestTypeOK ==
    /\ dead \subseteq NPCs
    /\ facts \subseteq [subject : NPCs, payload : {"werewolf", "not_werewolf"}]
    /\ outcome = [c \in Clients |-> outcome[c]]
    /\ \A c \in Clients : outcome[c] \in Outcomes \union {None}

(* Every step keeps these types.                                           *)
LEMMA RestStep == RestTypeOK /\ [Next]_vars => RestTypeOK'
<1> SUFFICES ASSUME RestTypeOK, [Next]_vars PROVE RestTypeOK'
  OBVIOUS
<1> DEFINE Same == UNCHANGED <<dead, facts, outcome>>
<1>1. Same => RestTypeOK'
  BY DEF RestTypeOK
<1>2. CASE CommandStep
  <2>1. ASSUME NEW acts \in Utterances, PlayerCommits(acts) \/ PlayerCommitThrows(acts)
        PROVE  Same
    BY <2>1 DEF PlayerCommits, PlayerCommitThrows, world, held
  <2>2. ASSUME AskAccepted \/ InterpreterDeclines PROVE Same
    BY <2>2 DEF AskAccepted, InterpreterDeclines, world, held
  <2>5. ASSUME ReactionSettled PROVE Same
    BY <2>5 DEF ReactionSettled, world, held
  <2>6. ASSUME ReactionNeedsNoSettlement PROVE Same
    BY <2>6 DEF ReactionNeedsNoSettlement, world, held
  <2>3. CASE Vote
    BY <2>3 DEF Vote, OtherCommand, Alive, held, RestTypeOK
  <2>4. CASE Night
    <3>1. UNCHANGED outcome /\ dead' \subseteq NPCs
      BY <2>4 DEF Night, OtherCommand, Alive, held, RestTypeOK
    <3>2. facts' \subseteq [subject : NPCs, payload : {"werewolf", "not_werewolf"}]
      <4>1. \A n \in NPCs : [subject |-> n, payload |-> Role(n)]
                               \in [subject : NPCs, payload : {"werewolf", "not_werewolf"}]
        BY DEF Role
      <4> QED
        BY <2>4, <4>1 DEF Night, Alive, RestTypeOK
    <3> QED
      BY <3>1, <3>2 DEF RestTypeOK
  <2> HIDE DEF Same
  <2> QED
    BY <1>1, <1>2, <2>1, <2>2, <2>3, <2>4, <2>5, <2>6 DEF CommandStep
<1>3. CASE PortStep
  <2>1. PICK c \in Clients :
          \/ \E r \in DOMAIN statements, n \in Tries[c], proposals \in Candidates :
                Prepare(c, r, n, proposals)
          \/ \E expected \in 0..MaxSafe :
                \/ CommitConflicts(c, expected)
                \/ CommitReplayed(c, expected)
                \/ \E rootAgrees \in BOOLEAN : CommitRejected(c, expected, rootAgrees)
                \/ CommitThrows(c, expected)
                \/ CommitApplied(c, expected)
    BY <1>3 DEF PortStep
  <2>2. UNCHANGED <<dead, facts>>
    BY <2>1 DEF Prepare, CommitConflicts, CommitReplayed, CommitRejected, CommitThrows,
                CommitApplied, world
  <2>3. \E how \in Outcomes \union {None} : outcome' = [outcome EXCEPT ![c] = how]
    BY <2>1 DEF Prepare, CommitConflicts, CommitReplayed, CommitRejected, CommitThrows,
                CommitApplied, Ends, Outcomes
  <2> QED
    BY <2>2, <2>3 DEF RestTypeOK
<1>4. CASE UNCHANGED vars
  BY <1>1, <1>4 DEF vars, world, held
<1> QED
  BY <1>2, <1>3, <1>4 DEF Next

(* _submitCommandImpl and the authority port keep the conversation well    *)
(* formed, and its versions and turns safe integers.                       *)
THEOREM TypeCorrect == Spec => []ConversationTypeOK
<1>1. Init => RestTypeOK
  BY DEF Init, RestTypeOK
<1>2. Spec => []RestTypeOK
  BY <1>1, RestStep, PTL DEF Spec
<1>3. IInv /\ ClaimsFit /\ RestTypeOK => ConversationTypeOK
  <2> SUFFICES ASSUME IInv, ClaimsFit, RestTypeOK PROVE ConversationTypeOK
    OBVIOUS
  <2>1. \A i \in DOMAIN claims : claims[i].at \in 0..MaxSafe
    BY AppendedIs, LimitsAssumption DEF ClaimsFit, IInv, Numbers
  <2>2. command # None =>
          command \in Commands /\ command.version <= MaxSafe /\ command.turn <= MaxSafe
    <3> SUFFICES ASSUME command # None
                 PROVE  command \in Commands /\ command.version <= MaxSafe /\ command.turn <= MaxSafe
      OBVIOUS
    <3>1. command \in Commands /\ command.stage \in {"interpreting", "answering"}
      BY DEF IInv, CommandKnows, Commands
    <3>2. command.version \in Nat /\ command.turn = turn
      BY <3>1 DEF IInv, CommandKnows, Commands
    <3> QED
      BY <3>1, <3>2, LimitsAssumption DEF IInv, CommandKnows, Numbers
  <2> QED
    BY <2>1, <2>2 DEF IInv, Numbers, RestTypeOK, ConversationTypeOK
<1> QED
  BY <1>2, <1>3, Invariance, ClaimsInvariance, PTL
=============================================================================
