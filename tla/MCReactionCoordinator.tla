------------------------- MODULE MCReactionCoordinator -------------------------
(***************************************************************************)
(* A coordinator that remembers two reactions out of three: the third one  *)
(* has to wait for a tombstone to evict.  Identities are interchangeable.  *)
(***************************************************************************)
EXTENDS CoordinatorRefinement, TLC

Interchangeable ==
    Permutations(Plans) \union Permutations(Requests)
    \union Permutations(AttemptIds) \union Permutations(Fingerprints)
=============================================================================
