\* Two NPCs, two clients of the port, versions that run out at five: two
\* questions with their outcomes, a vote or a night between them, and more
\* claims and events than a projection takes.
SPECIFICATION Spec
CONSTANTS
    seer = seer
    wolf = wolf
    c1 = c1
    c2 = c2
    NPCs = {seer, wolf}
    Seer = seer
    Werewolves = {wolf}
    Clients = {c1, c2}
    Tries <- MCTries
    Utterances <- MCUtterances
    Candidates <- MCCandidates
    ClaimLimit = 3
    EventLimit = 4
    MaxSafe = 5
    None = None
INVARIANTS
    ConversationTypeOK
    OrdersAreDense
    VersionGuardsPrepared
    RelationsAreRight
    QuestionHasAnOwner
PROPERTIES
    ImplementsLedger
    QuestionIsClosed
CHECK_DEADLOCK FALSE
