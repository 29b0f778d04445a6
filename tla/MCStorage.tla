----------------------------- MODULE MCStorage -----------------------------
(* Two callers of apply_block, one of which may drop its calls, and one    *)
(* waiter, over the block tree of SmallChain.                              *)
EXTENDS Storage, SmallChain

MCTrunk == {"genesis", "a1", "a2"}
MCTrunkSound == {"a1", "a2"}
=============================================================================
