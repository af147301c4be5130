------------------------ MODULE CoordinatorRefinement ------------------------
(***************************************************************************)
(* How the coordinator's root is read as the list of ReactionRegistry: the *)
(* remembered reactions in the order of their creation, each with what     *)
(* became of it.                                                           *)
(***************************************************************************)
EXTENDS ReactionCoordinator

(* The remembered reactions, in the order of their creation.               *)
Older(p) == {q \in Occupied : Order(q) < Order(p)}
ByAge(i) == CHOOSE p \in Occupied : Cardinality(Older(p)) = i - 1

OutcomeOf(p) ==
    IF ~IsEnded(p) THEN "open"
    ELSE IF reactionTombstones[p].terminalStatus = "committed" THEN "committed"
    ELSE "non_commit"

Registry == INSTANCE ReactionRegistry WITH
    kept <- [i \in 1..Cardinality(Occupied) |->
               [plan |-> ByAge(i), outcome |-> OutcomeOf(ByAge(i))]]

(* The coordinator is the bounded memory its caller relies on: reactions   *)
(* are forgotten in the order of their creation, never while they are      *)
(* open, and an outcome, once given, stays (createPlannedNpcReaction,      *)
(* installTombstone, resetNpcReactionCoordinator).                         *)
ImplementsRegistry == Registry!Spec
==============================================================================
