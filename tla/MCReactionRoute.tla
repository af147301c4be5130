---------------------------- MODULE MCReactionRoute ----------------------------
(* A small instance of ReactionRoute.                                      *)
EXTENDS ReactionRoute

CONSTANTS Executions, Tries

MCPlans    == 1..Executions
MCTriggers == 1..2
MCAttempts == (1..Executions) \X (1..Tries)
MCBackoff  == <<1>>
=============================================================================
