--------------------------- MODULE MCStakerRound ---------------------------
(* alice's staker and a block sync that fetches blocks of the trunk.       *)
EXTENDS StakerRound, SmallChain

MCBlock == {"genesis", "a1", "a2"}
MCSound == {"a1", "a2"}
=============================================================================
