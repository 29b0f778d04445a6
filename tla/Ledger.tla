------------------------------- MODULE Ledger -------------------------------
(***************************************************************************)
(* What the storage promises to its callers: one chain of blocks from the  *)
(* genesis on, each stored with a proof with which it extends its parent,  *)
(* that only ever grows at its end, except that a power loss may take back *)
(* the blocks sqlite had not synced (WAL, synchronous = normal).  No       *)
(* locks, no tables, no caches.                                            *)
(***************************************************************************)
EXTENDS Naturals, Sequences

CONSTANTS
    Block, Genesis,
    Proof,              \* the consensus proofs that may come with a block
    Extends(_, _, _)    \* the block may be put on the parent with the proof

VARIABLES
    chain,     \* sequence of [block, proof], the block of height i at i
    durable    \* the length of the prefix that survives a power loss

ledgerVars == <<chain, durable>>

Tip(c) == IF c = <<>> THEN Genesis ELSE c[Len(c)].block

LedgerInit == chain = <<>> /\ durable = 0

Append1(block, proof) ==
    /\ Extends(block, proof, Tip(chain))
    /\ chain' = Append(chain, [block |-> block, proof |-> proof])
    /\ UNCHANGED durable

Sync == durable' = Len(chain) /\ UNCHANGED chain

PowerLoss == chain' = SubSeq(chain, 1, durable) /\ UNCHANGED durable

LedgerNext ==
    \/ \E block \in Block, proof \in Proof : Append1(block, proof)
    \/ Sync
    \/ PowerLoss

LedgerSpec == LedgerInit /\ [][LedgerNext]_ledgerVars
=============================================================================
