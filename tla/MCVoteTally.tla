---------------------------- MODULE MCVoteTally ----------------------------
(* Four documents of three stakers: a large one, two small ones of which   *)
(* one ends and one starts at epoch 1, and one of a staker whose stake is  *)
(* already counted.  Every subset of them, every proof, three epochs.      *)
EXTENDS VoteTally

CONSTANTS alice, bob, carol

MCKey == {alice, bob, carol}

Doc(hash, key, syms, start, end) ==
    [txhash |-> hash, pubkey |-> key, syms_staked |-> syms,
     e_start |-> start, e_post_end |-> end]

MCDocOrder == << Doc(1, alice, 5, 0, 3), Doc(2, bob, 1, 1, 3),
                 Doc(3, carol, 2, 0, 1), Doc(4, alice, 0, 0, 2) >>

MCStakeDoc == {MCDocOrder[i] : i \in DOMAIN MCDocOrder}

MCDocSeqs == {SelectSeq(MCDocOrder, LAMBDA d : d \in s) : s \in SUBSET MCStakeDoc}

MCHeights == {1, 2, 5, 6}
=============================================================================
