------------------------------- MODULE Chain -------------------------------
(***************************************************************************)
(* What the node knows of the state transition function (melstf), which is *)
(* outside this repository: blocks, the states they lead to, and the parts *)
(* of a state the node reads.  A SealedState is named by the block that    *)
(* produced it, so Prev[b] is the state b was made for and Genesis the     *)
(* state genesis.realize() gives.                                          *)
(*                                                                         *)
(* Everything here is a constant: TLC instances list a few blocks, the     *)
(* proofs hold for any.                                                    *)
(***************************************************************************)
EXTENDS Stakes

CONSTANTS
    Block,          \* blocks anybody may hand to the node, and Genesis
    Genesis,
    Height,         \* Block -> Nat, the height in the header
    Prev,           \* Block -> Block, the state the block was made for
    Sound,          \* blocks SealedState::apply_block accepts on Prev[b]
    GenesisStakes,  \* GenesisConfig.stakes
    StakesAfter,    \* Block -> SUBSET StakeDoc, the stakes of the state, the
                    \* ones header.stakes_hash commits to
    DocsIn,         \* Block -> SUBSET StakeDoc, the decodable documents in
                    \* the block's transactions of kind Stake
    Registered,     \* Block -> SUBSET StakeDoc, the ones melstf registers
    MirrorFrom      \* 500000 on mainnet, 0 on every other network

ASSUME ChainAssumption ==
    /\ Genesis \in Block
    /\ \A b \in Block : Height[b] \in Nat /\ Prev[b] \in Block
    /\ Height[Genesis] = 0
    /\ Sound \subseteq Block \ {Genesis}
    /\ MirrorFrom \in Nat

\* How melstf evolves the stakes: the expired ones leave when the block opens,
\* the ones the block registers come in.
ASSUME StakesAssumption ==
    /\ GenesisStakes \subseteq StakeDoc
    /\ \A b \in Block : DocsIn[b] \subseteq StakeDoc
    /\ StakesAfter[Genesis] = GenesisStakes
    /\ \A b \in Sound :
        LET epoch == Epoch(Height[b])
        IN  /\ \A doc \in Registered[b] : Unexpired(doc, epoch)
            /\ StakesAfter[b] =
                 {doc \in StakesAfter[Prev[b]] : Unexpired(doc, epoch)}
                   \cup Registered[b]

\* The stake documents apply_block copies to the stakes table (lines 327-336).
Mirrored(b) == IF Height[b] >= MirrorFrom THEN DocsIn[b] ELSE {}

\* The copy registers what melstf registers.  apply_block does not make sure
\* of it ("this poorly replicates the validation logic", storage.rs:330): it is
\* an assumption about the Stake transactions that reach the chain.
ASSUME MirrorAssumption == \A b \in Sound : Registered[b] = Mirrored(b)
=============================================================================
