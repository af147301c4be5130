\* All 20 deals, two suspicion tables, one accusing question, two claims.
CONSTANTS
    Players <- MCPlayers
    NameRank <- MCNameRank
    InitialSuspicion <- MCInitialSuspicion
    InitialRoles <- MCInitialRoles
    Mentions <- MCMentions
    None = None
    MaxPressures = 1
    MaxClaims = 2
SPECIFICATION Spec
INVARIANTS
    TypeOK
    SeerIsHonest
    ClaimedSeerFalls
    KillsNeverThrow
    GameIsShort
CHECK_DEADLOCK FALSE
