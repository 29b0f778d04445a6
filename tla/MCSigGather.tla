---------------------------- MODULE MCSigGather ----------------------------
(* Three stakers with stakes 2, 1 and 1; and four for a block that opens an *)
(* epoch, in which the stakes of three of them start to count.              *)
EXTENDS SigGather

LOCAL Doc(hash, key, syms, start, end) ==
    [txhash |-> hash, pubkey |-> key, syms_staked |-> syms,
     e_start |-> start, e_post_end |-> end]

MCKey == {"alice", "bob", "carol"}

MCOrder == << Doc(1, "alice", 2, 0, 9), Doc(2, "bob", 1, 0, 9),
              Doc(3, "carol", 1, 0, 9), Doc(4, "carol", 4, 1, 9) >>

MCStakeDoc == {MCOrder[i] : i \in DOMAIN MCOrder}

\* carol has a second stake, which counts from epoch 1 on.
MCDocs == MCStakeDoc

EpochKey == {"alice", "bob", "carol", "dave"}

EpochOrder == << Doc(1, "alice", 1, 0, 9), Doc(2, "bob", 3, 1, 9),
                 Doc(3, "carol", 3, 1, 9), Doc(4, "dave", 3, 1, 9) >>

EpochDocs == {EpochOrder[i] : i \in DOMAIN EpochOrder}

\* The conditions of the theorems hold here, the second within an epoch, and
\* what follows from them.
ASSUME MCQuorums ==
    /\ CrashesAreFew /\ QuorumsMeet
    /\ SameEpoch => EnoughPasses
=============================================================================
