----------------------------- MODULE VoteTally -----------------------------
(***************************************************************************)
(* The consensus proof check of Storage::apply_block, one turn of its loop *)
(* per step: the documents of the parent's stake set are visited one after *)
(* the other, the votes accumulate, and the totals are compared at the     *)
(* end.  The check starts from any stake set, any height and any proof.    *)
(*                                                                         *)
(* signed is a history variable: the stake of the documents whose owner    *)
(* did sign the block, which is what the loop is there to compute.         *)
(***************************************************************************)
EXTENDS Stakes

CONSTANTS
    DocSeqs,   \* the stake sets the loop may be given, in iteration order
    Heights    \* the heights of the putative blocks

ASSUME TallyAssumption == DocSeqs \subseteq Seq(StakeDoc) /\ Heights \subseteq Nat

VARIABLES
    docs,      \* the stake documents still to visit, in iteration order
    seen,      \* how many documents were visited
    height,    \* blk.header.height
    cproof,    \* Key -> "none" | "bad" | "good"
    votes,     \* total_votes and present_votes
    signed,    \* stake of the active documents that carry a good signature
    verdict    \* "counting" | "accept" | "reject"

vars == <<docs, seen, height, cproof, votes, signed, verdict>>

Signature == {"none", "bad", "good"}

TypeOK ==
    /\ docs \in Seq(StakeDoc)
    /\ seen \in Nat /\ seen <= Len(docs)
    /\ height \in Nat
    /\ cproof \in [Key -> Signature]
    /\ votes \in [total : Nat, present : Nat]
    /\ signed \in Nat
    /\ verdict \in {"counting", "accept", "reject"}

Init ==
    /\ docs \in DocSeqs
    /\ seen = 0
    /\ height \in Heights
    /\ cproof \in [Key -> Signature]
    /\ votes = NoVotes
    /\ signed = 0
    /\ verdict = "counting"

\* One turn of the loop over raw_stakes().pre_tip911().
Visit ==
    /\ verdict = "counting" /\ seen < Len(docs)
    /\ LET doc   == docs[seen + 1]
           epoch == Epoch(height)
       IN  /\ votes' = CountDoc(votes, doc, epoch, cproof)
           /\ signed' = IF Active(doc, epoch) /\ cproof[doc.pubkey] = "good"
                        THEN signed + doc.syms_staked ELSE signed
    /\ seen' = seen + 1
    /\ UNCHANGED <<docs, height, cproof, verdict>>

\* The comparison after the loop, and the bail! of the losing branch.
Decide ==
    /\ verdict = "counting" /\ seen = Len(docs)
    /\ verdict' = IF Enough(votes) THEN "accept" ELSE "reject"
    /\ UNCHANGED <<docs, seen, height, cproof, votes, signed>>

Next == Visit \/ Decide

Spec == Init /\ [][Next]_vars

-----------------------------------------------------------------------------
\* A block signed by more than two thirds of the active stake is never
\* refused for "insufficient votes".
QuorumNeverRefused == verdict = "reject" => 3 * signed <= 2 * votes.total

\* A block goes through only if at least one active document's owner signed
\* it: an empty proof, or one of bad signatures, never passes, not even when
\* no stake is active.
AcceptedHasSigner ==
    verdict = "accept" =>
        \E i \in 1 .. Len(docs) : /\ Active(docs[i], Epoch(height))
                                  /\ cproof[docs[i].pubkey] = "good"

\* README.md:192: a consensus proof is a quorum of signatures, so an accepted
\* block carries the signatures of more than two thirds of the active stake.
\* The code does not check this.
AcceptedHasQuorum == verdict = "accept" => 3 * signed > 2 * votes.total
=============================================================================
