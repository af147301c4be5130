---------------------------- MODULE ReactionRegistry ----------------------------
(***************************************************************************)
(* What the NPC reaction coordinator promises its caller, the structured   *)
(* reaction route: a memory of at most Capacity reactions, in the order in *)
(* which they were begun.  A reaction stays open until it ends, once, with *)
(* an outcome that never changes; when the memory is full a new reaction   *)
(* takes the place of the oldest one that has ended, and an open one is    *)
(* never forgotten.  ReactionCoordinator implements it.                    *)
(***************************************************************************)
EXTENDS Integers, SequencesExt

CONSTANTS
    Plans,     \* reactions, by their reactionPlanId
    Capacity   \* how many of them are remembered

Outcomes == {"committed", "non_commit"}

VARIABLE kept  \* the remembered reactions with what became of them, oldest first

Entry == [plan : Plans, outcome : Outcomes \union {"open"}]

Init == kept = <<>>

IsOldestEnded(i) ==
    /\ kept[i].outcome # "open"
    /\ \A j \in 1..(i - 1) : kept[j].outcome = "open"

Begin(p) ==
    LET entry == [plan |-> p, outcome |-> "open"] IN
    /\ \A i \in DOMAIN kept : kept[i].plan # p
    /\ \/ /\ Len(kept) < Capacity
          /\ kept' = Append(kept, entry)
       \/ /\ Len(kept) = Capacity
          /\ \E i \in DOMAIN kept :
               IsOldestEnded(i) /\ kept' = Append(RemoveAt(kept, i), entry)

End(i, outcome) ==
    /\ kept[i].outcome = "open"
    /\ kept' = [kept EXCEPT ![i].outcome = outcome]

Clear == kept' = <<>>

Next ==
    \/ \E p \in Plans : Begin(p)
    \/ \E i \in DOMAIN kept, outcome \in Outcomes : End(i, outcome)
    \/ Clear

Spec == Init /\ [][Next]_kept
=============================================================================
