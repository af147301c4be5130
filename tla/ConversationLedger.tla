-------------------------- MODULE ConversationLedger --------------------------
(***************************************************************************)
(* What the authoritative conversation promises: the player's statements   *)
(* are recorded one after another; an NPC answers the statement that has   *)
(* just been made or none at all, and answers it once; when the next       *)
(* statement is made the one before it can no longer be answered.          *)
(* ConversationCommit implements it.                                       *)
(***************************************************************************)
EXTENDS Naturals

CONSTANT None

VARIABLES
    stated,    \* how many statements have been recorded
    answered,  \* the numbers of those an NPC has answered
    open       \* the number of the statement that may be answered, or None

Init == stated = 0 /\ answered = {} /\ open = None

State ==
    /\ open = None
    /\ stated' = stated + 1
    /\ open' = stated'
    /\ UNCHANGED answered

Answer ==
    /\ open # None
    /\ answered' = answered \union {open}
    /\ open' = None
    /\ UNCHANGED stated

GiveUp ==
    /\ open # None
    /\ open' = None
    /\ UNCHANGED <<stated, answered>>

Next == State \/ Answer \/ GiveUp

Spec == Init /\ [][Next]_<<stated, answered, open>>
=============================================================================
