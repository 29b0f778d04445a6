------------------------------- MODULE Stakes -------------------------------
(***************************************************************************)
(* Stake documents and the vote count of Storage::apply_block.             *)
(*                                                                         *)
(* A stake document is a record with the fields of melstructs::StakeDoc    *)
(* the node reads, plus the hash of the transaction that registered it     *)
(* (the key of the stakes table).  A consensus proof is reduced to what    *)
(* apply_block asks of it: per key, no signature, a signature that does    *)
(* not verify over the block's header, or one that does.                   *)
(***************************************************************************)
EXTENDS Integers, Sequences, FiniteSets, SequencesExt

CONSTANTS
    Key,          \* public keys of stakers
    StakeDoc,     \* every stake document the instance knows
    DocOrder,     \* the documents in the order pre_tip911() iterates over them
    EpochLength   \* blocks per epoch

ASSUME StakeDocAssumption ==
    /\ EpochLength \in Nat \ {0}
    /\ \A d \in StakeDoc : /\ d.pubkey \in Key
                           /\ d.syms_staked \in Nat
                           /\ d.e_start \in Nat
                           /\ d.e_post_end \in Nat
    /\ DocOrder \in Seq(StakeDoc) /\ IsInjective(DocOrder)
    /\ \A d \in StakeDoc : \E i \in 1 .. Len(DocOrder) : DocOrder[i] = d

\* BlockHeight::epoch (melstructs, external).
Epoch(height) == height \div EpochLength

\* The filter of the counting loop: the epoch lies in [e_start, e_post_end).
Active(doc, epoch) == doc.e_start <= epoch /\ epoch < doc.e_post_end

\* What StakeSet::unlock_old(epoch) keeps (melstf, external).
Unexpired(doc, epoch) == epoch < doc.e_post_end

Stake == [d \in StakeDoc |-> d.syms_staked]

\* StakeSet::votes, summed over keys; over all of them it is total_votes
\* (tip911_stakeset, external).
Votes(docs, epoch, keys) ==
    FoldSet(LAMBDA d, sum : sum + Stake[d], 0,
            {d \in docs : Active(d, epoch) /\ d.pubkey \in keys})

NoVotes == [total |-> 0, present |-> 0]

\* Mutated forms of CountDoc.  The signature is not verified; the total grows
\* after the document is counted; an ended document's stake is taken back.
CountDocUnverified(votes, doc, epoch, cproof) ==
    IF ~Active(doc, epoch) THEN votes
    ELSE LET total == votes.total + doc.syms_staked
         IN  [total   |-> total,
              present |-> IF cproof[doc.pubkey] # "none"
                          THEN votes.present + total ELSE votes.present]

CountDocBeforeTotal(votes, doc, epoch, cproof) ==
    IF ~Active(doc, epoch) THEN votes
    ELSE [total   |-> votes.total + doc.syms_staked,
          present |-> IF cproof[doc.pubkey] = "good"
                      THEN votes.present + votes.total ELSE votes.present]

CountDocTakenBack(votes, doc, epoch, cproof) ==
    IF ~Active(doc, epoch)
    THEN [votes EXCEPT !.total = @ - doc.syms_staked]
    ELSE [votes EXCEPT !.total = @ + doc.syms_staked]

\* One turn of the counting loop.  Line 288 adds the running total, not the
\* stake of the document at hand; this is what the code does.
CountDoc(votes, doc, epoch, cproof) ==
    IF ~Active(doc, epoch) THEN votes
    ELSE LET total == votes.total + doc.syms_staked
         IN  [total   |-> total,
              present |-> IF cproof[doc.pubkey] = "good"
                          THEN votes.present + total ELSE votes.present]

\* The test of line 293, negated: the block goes through.
Enough(votes) == votes.present > (2 * votes.total) \div 3

\* The whole loop over a set of documents, in iteration order.
Tally(docs, epoch, cproof) ==
    FoldLeft(LAMBDA votes, doc : IF doc \in docs
                                 THEN CountDoc(votes, doc, epoch, cproof) ELSE votes,
             NoVotes, DocOrder)
=============================================================================
