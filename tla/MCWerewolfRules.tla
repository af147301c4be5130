-------------------------- MODULE MCWerewolfRules --------------------------
(* The village of five NPCs of DEFAULT_PLAYERS, with every deal of the     *)
(* roles and two of the suspicion tables a game may start with: the sample *)
(* scenario's and a skewed one inside the range of rng.int(3).  A question *)
(* accuses at most two players.                                            *)
EXTENDS WerewolfRules

MCPlayers == 1 .. 5
MCNameRank == [p \in MCPlayers |-> p]

SampleTable ==
    << <<0, 0, 1, 3, 1>>,
       <<0, 0, 1, 2, 0>>,
       <<1, 0, 0, 4, 2>>,
       <<0, 1, 2, 0, 0>>,
       <<0, 0, 3, 2, 0>> >>
SkewedTable == [p \in MCPlayers |-> [q \in MCPlayers |->
                  IF p = q THEN 0 ELSE (p + 2 * q) % 3]]

MCInitialSuspicion == {SampleTable, SkewedTable}
MCMentions == {S \in SUBSET MCPlayers : Cardinality(S) <= 2}
MCInitialRoles == RoleDeals
=============================================================================
