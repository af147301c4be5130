\* One client, and otherwise as MCConversationCommit.cfg.
SPECIFICATION Spec
CONSTANTS
    seer = seer
    wolf = wolf
    c1 = c1
    c2 = c2
    NPCs = {seer, wolf}
    Seer = seer
    Werewolves = {wolf}
    Clients = {c1}
    Tries <- MCTries
    Utterances <- MCUtterances
    Candidates <- MCCandidates
    ClaimLimit = 3
    EventLimit = 4
    MaxSafe = 5
    None = None
INVARIANTS
    NoCommitThrows
CHECK_DEADLOCK FALSE
