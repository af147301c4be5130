------------------------ MODULE MCConversationCommit ------------------------
EXTENDS ConversationCommit

CONSTANTS seer, wolf, c1, c2

(* Both clients may give a reaction the same identity, or different ones.  *)
MCTries == (c1 :> {1}) @@ (c2 :> {1, 2})

Act(kind, subject, payload) == [kind |-> kind, subject |-> subject, payload |-> payload]

AskRole(npc)   == Act("question", npc, "role")
AskOther(npc)  == Act("question", npc, "suspicion")
ClaimRole(r)   == Act("role_claim", "role", r)
ClaimResult(r) == Act("result_claim", wolf, r)

(* Questions; claims of the player that repeat and contradict each other;  *)
(* a statement without a question, which nobody can answer; and one with   *)
(* two claims on one subject.                                              *)
MCUtterances ==
    {<<AskRole(seer)>>,
     <<AskOther(wolf), ClaimRole("seer")>>,
     <<ClaimRole("citizen"), Act("information_request", "rules", "rules")>>,
     <<AskRole(seer), ClaimRole("seer"), ClaimRole("citizen")>>}

MCCandidates ==
    {<<ClaimRole("seer"), ClaimResult("werewolf")>>,
     <<ClaimResult("not_werewolf")>>,
     <<Act("suspicion", wolf, "")>>,
     <<Act("vote_declaration", wolf, ""), Act("vote_declaration", seer, "")>>}
=============================================================================
