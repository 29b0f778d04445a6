--------------------------- MODULE VoteTallyProofs ---------------------------
(***************************************************************************)
(* For every stake set, height and proof, however large: the vote count of *)
(* apply_block never refuses a quorum, and never accepts without a signer. *)
(***************************************************************************)
EXTENDS VoteTally, TLAPS

\* What the loop maintains: the votes counted are at least the stake that
\* signed (the running total it adds is at least the document's own stake),
\* and votes are only counted for documents that were signed.  The verdict is
\* the comparison of the totals the loop ended with.
TallyInv ==
    /\ votes.present >= signed
    /\ votes.present > 0 =>
            \E i \in 1 .. seen : /\ Active(docs[i], Epoch(height))
                                 /\ cproof[docs[i].pubkey] = "good"
    /\ verdict = "accept" => Enough(votes)
    /\ verdict = "reject" => ~Enough(votes)

\* A turn of the loop keeps the counters natural numbers and never lowers
\* present_votes; a signed document raises it by its stake or more.
LEMMA CountDocFacts ==
    ASSUME NEW v \in [total : Nat, present : Nat], NEW doc \in StakeDoc,
           NEW epoch, NEW cp \in [Key -> Signature]
    PROVE  LET w == CountDoc(v, doc, epoch, cp)
           IN  /\ w \in [total : Nat, present : Nat]
               /\ IF Active(doc, epoch) /\ cp[doc.pubkey] = "good"
                  THEN w.present >= v.present + doc.syms_staked
                  ELSE w.present = v.present
<1>1. doc.syms_staked \in Nat
  BY StakeDocAssumption
<1>2. CASE Active(doc, epoch)
  BY <1>1, <1>2 DEF CountDoc
<1>3. CASE ~Active(doc, epoch)
  BY <1>3 DEF CountDoc
<1>4. QED
  BY <1>2, <1>3

\* The types of the loop's variables.
THEOREM VoteTallyTypeOK == Spec => []TypeOK
<1>1. Init => TypeOK
  BY TallyAssumption DEF Init, TypeOK, NoVotes
<1>2. TypeOK /\ [Next]_vars => TypeOK'
  <2> SUFFICES ASSUME TypeOK, [Next]_vars PROVE TypeOK'
    OBVIOUS
  <2>1. CASE Visit
    <3> DEFINE doc == docs[seen + 1]
    <3>1. doc \in StakeDoc /\ doc.syms_staked \in Nat
      BY <2>1, StakeDocAssumption DEF Visit, TypeOK
    <3>2. CountDoc(votes, doc, Epoch(height), cproof) \in [total : Nat, present : Nat]
      BY <3>1, CountDocFacts DEF TypeOK
    <3>3. QED
      BY <2>1, <3>1, <3>2 DEF Visit, TypeOK
  <2>2. CASE Decide
    BY <2>2 DEF Decide, TypeOK
  <2>3. CASE UNCHANGED vars
    BY <2>3 DEF vars, TypeOK
  <2>4. QED
    BY <2>1, <2>2, <2>3 DEF Next
<1>3. QED
  BY <1>1, <1>2, PTL DEF Spec

\* TallyInv in every reachable state.
LEMMA TallyInvariant == Spec => []TallyInv
<1>1. Init => TallyInv
  BY DEF Init, TallyInv, NoVotes
<1>2. TypeOK /\ TallyInv /\ [Next]_vars => TallyInv'
  <2> SUFFICES ASSUME TypeOK, TallyInv, [Next]_vars PROVE TallyInv'
    OBVIOUS
  <2>1. CASE Visit
    <3> DEFINE doc  == docs[seen + 1]
               good == Active(doc, Epoch(height)) /\ cproof[doc.pubkey] = "good"
    <3>1. doc \in StakeDoc /\ doc.syms_staked \in Nat
      BY <2>1, StakeDocAssumption DEF Visit, TypeOK
    <3>2. IF good THEN votes'.present >= votes.present + doc.syms_staked
                  ELSE votes'.present = votes.present
      BY <2>1, <3>1, CountDocFacts DEF Visit, TypeOK
    <3>3. signed' = IF good THEN signed + doc.syms_staked ELSE signed
      BY <2>1 DEF Visit
    <3>4. votes.present \in Nat /\ votes'.present \in Nat /\ signed \in Nat
      BY <2>1, <3>1, CountDocFacts DEF Visit, TypeOK
    <3>5. UNCHANGED <<docs, height, cproof, verdict>> /\ seen' = seen + 1
          /\ seen \in Nat /\ verdict = "counting"
      BY <2>1 DEF Visit, TypeOK
    <3>6. votes'.present >= signed'
      BY <3>1, <3>2, <3>3, <3>4 DEF TallyInv
    <3>7. ASSUME votes'.present > 0
          PROVE  \E i \in 1 .. seen' : /\ Active(docs'[i], Epoch(height'))
                                       /\ cproof'[docs'[i].pubkey] = "good"
      <4>1. CASE good
        BY <4>1, <3>5
      <4>2. CASE ~good
        BY <4>2, <3>2, <3>4, <3>5, <3>7 DEF TallyInv
      <4>3. QED
        BY <4>1, <4>2
    <3>8. QED
      BY <3>5, <3>6, <3>7 DEF TallyInv
  <2>2. CASE Decide
    BY <2>2 DEF Decide, TallyInv
  <2>3. CASE UNCHANGED vars
    BY <2>3 DEF vars, TallyInv
  <2>4. QED
    BY <2>1, <2>2, <2>3 DEF Next
<1>3. QED
  BY <1>1, <1>2, VoteTallyTypeOK, PTL DEF Spec

\* apply_block never refuses, for insufficient votes, a block that more than
\* two thirds of the active stake signed.
THEOREM NeverRefusesAQuorum == Spec => []QuorumNeverRefused
<1>1. TypeOK /\ TallyInv => QuorumNeverRefused
  BY DEF TypeOK, TallyInv, QuorumNeverRefused, Enough
<1>2. QED
  BY <1>1, VoteTallyTypeOK, TallyInvariant, PTL

\* apply_block never accepts a block none of whose active stakers signed it.
THEOREM NeverAcceptsUnsigned == Spec => []AcceptedHasSigner
<1>1. TypeOK /\ TallyInv => AcceptedHasSigner
  <2> SUFFICES ASSUME TypeOK, TallyInv, verdict = "accept"
               PROVE  \E i \in 1 .. Len(docs) : /\ Active(docs[i], Epoch(height))
                                                /\ cproof[docs[i].pubkey] = "good"
    BY DEF AcceptedHasSigner
  <2>1. votes.present > 0
    BY DEF TypeOK, TallyInv, Enough
  <2>2. 1 .. seen \subseteq 1 .. Len(docs)
    BY DEF TypeOK
  <2>3. QED
    BY <2>1, <2>2 DEF TallyInv
<1>2. QED
  BY <1>1, VoteTallyTypeOK, TallyInvariant, PTL
=============================================================================
