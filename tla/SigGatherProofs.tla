-------------------------- MODULE SigGatherProofs --------------------------
(***************************************************************************)
(* One block per height, for any stakers, stakes and candidates and any    *)
(* number of crashes, if those that crash have a third of the stake at     *)
(* most (CrashesAreFew) and the block opens no epoch (SameEpoch).          *)
(*                                                                         *)
(* Stakes are sums, so quorums of more than two thirds share more than a   *)
(* third of the stake, which is more than crashes (QuorumsMeet), and the   *)
(* votes apply_block counts are no less than the stake that signed, which  *)
(* is what the gatherer counts (EnoughPasses).                             *)
(*                                                                         *)
(* Of the voters of the decision, those that do not crash either still run *)
(* their deciders or have the block in their storage, and who has it does  *)
(* not enter the consensus again (Held).  A second instance would need one *)
(* of them.  So all that is decided, signed or stored is one block.        *)
(***************************************************************************)
EXTENDS SigGather, FoldLemmas

\* The documents that count in an epoch for some keys.
Counted(docs, epoch, keys) ==
    {d \in docs : Active(d, epoch) /\ d.pubkey \in keys}

\* Stakes are numbers, and votes a sum of them.
LEMMA StakeFacts ==
    /\ IsFiniteSet(StakeDoc)
    /\ \A d \in StakeDoc : Stake[d] \in Nat /\ Stake[d] = d.syms_staked
    /\ \A docs, epoch, keys : Votes(docs, epoch, keys) = Total(Stake, Counted(docs, epoch, keys))
<1>1. IsFiniteSet(StakeDoc)
  BY StakeDocAssumption DEF IsFiniteSet
<1>2. \A d \in StakeDoc : Stake[d] \in Nat /\ Stake[d] = d.syms_staked
  BY StakeDocAssumption DEF Stake
<1>3. \A docs, epoch, keys : Votes(docs, epoch, keys) = Total(Stake, Counted(docs, epoch, keys))
  BY DEF Votes, Total, Counted
<1> QED BY <1>1, <1>2, <1>3

\* More keys have no fewer votes.
LEMMA VotesGrow ==
    ASSUME NEW docs \in SUBSET StakeDoc, NEW epoch, NEW B, NEW A \in SUBSET B
    PROVE  /\ Votes(docs, epoch, A) \in Nat /\ Votes(docs, epoch, B) \in Nat
           /\ Votes(docs, epoch, A) <= Votes(docs, epoch, B)
<1> DEFINE a == Counted(docs, epoch, A)  b == Counted(docs, epoch, B)
<1>1. IsFiniteSet(StakeDoc) /\ \A d \in StakeDoc : Stake[d] \in Nat
  BY StakeFacts
<1>2. a \in SUBSET b /\ a \in SUBSET StakeDoc /\ b \in SUBSET StakeDoc
  BY DEF Counted
<1>3. Votes(docs, epoch, A) = Total(Stake, a) /\ Votes(docs, epoch, B) = Total(Stake, b)
  BY StakeFacts
<1> HIDE DEF a, b
<1>4. Total(Stake, a) \in Nat /\ Total(Stake, b) \in Nat
  BY <1>1, <1>2, TotalFacts
<1>5. Total(Stake, a) <= Total(Stake, b)
  BY <1>1, <1>2, TotalSubset
<1> QED BY <1>3, <1>4, <1>5

\* Keys apart add up their votes.
LEMMA VotesAddUp ==
    ASSUME NEW docs \in SUBSET StakeDoc, NEW epoch, NEW A, NEW B, A \cap B = {}
    PROVE  Votes(docs, epoch, A \cup B) = Votes(docs, epoch, A) + Votes(docs, epoch, B)
<1> DEFINE a == Counted(docs, epoch, A)  b == Counted(docs, epoch, B)
<1>1. IsFiniteSet(StakeDoc) /\ \A d \in StakeDoc : Stake[d] \in Nat
  BY StakeFacts
<1>2. /\ a \in SUBSET StakeDoc /\ b \in SUBSET StakeDoc /\ a \cap b = {}
      /\ Counted(docs, epoch, A \cup B) = a \cup b
  BY DEF Counted
<1>3. /\ Votes(docs, epoch, A) = Total(Stake, a) /\ Votes(docs, epoch, B) = Total(Stake, b)
      /\ Votes(docs, epoch, A \cup B) = Total(Stake, Counted(docs, epoch, A \cup B))
  BY StakeFacts
<1> HIDE DEF a, b
<1>4. Total(Stake, a \cup b) = Total(Stake, a) + Total(Stake, b)
  BY <1>1, <1>2, TotalUnion
<1> QED BY <1>2, <1>3, <1>4

\* What two sets of keys have in common, if together they are not all.
LEMMA VotesShared ==
    ASSUME NEW docs \in SUBSET StakeDoc, NEW epoch, NEW q \in SUBSET Key, NEW r \in SUBSET Key
    PROVE  Votes(docs, epoch, q) + Votes(docs, epoch, r)
             <= Votes(docs, epoch, Key) + Votes(docs, epoch, q \cap r)
<1> DEFINE rest == r \ q  both == q \cap r  all == q \cup rest
<1>1. /\ q \cap rest = {} /\ rest \cap both = {}
      /\ all \subseteq Key /\ rest \cup both = r
  OBVIOUS
<1>2. Votes(docs, epoch, all) = Votes(docs, epoch, q) + Votes(docs, epoch, rest)
  <2> HIDE DEF rest
  <2> QED BY <1>1, VotesAddUp
<1> HIDE DEF rest, both, all
<1>3. Votes(docs, epoch, r) = Votes(docs, epoch, rest) + Votes(docs, epoch, both)
  <2>1. Votes(docs, epoch, rest \cup both) = Votes(docs, epoch, rest) + Votes(docs, epoch, both)
    BY <1>1, VotesAddUp
  <2> QED BY <1>1, <2>1
<1>4. Votes(docs, epoch, all) <= Votes(docs, epoch, Key)
  BY <1>1, VotesGrow
<1>5. /\ Votes(docs, epoch, q) \in Nat /\ Votes(docs, epoch, rest) \in Nat
      /\ Votes(docs, epoch, both) \in Nat /\ Votes(docs, epoch, Key) \in Nat
  BY VotesGrow
<1> QED BY <1>2, <1>3, <1>4, <1>5 DEF both

\* Two quorums have more than a third of the stake in common.
LEMMA FewCrashesMeet == CrashesAreFew => QuorumsMeet
<1> SUFFICES ASSUME CrashesAreFew, NEW q \in ConsensusQuorum, NEW r \in ConsensusQuorum,
                    q \cap r \subseteq Crashing
             PROVE  FALSE
  BY DEF QuorumsMeet, ConsensusQuorum, Quorums
<1> DEFINE epoch == Epoch(BaseHeight + 1)
           V(keys) == Votes(Docs, epoch, keys)
<1>1. Docs \in SUBSET StakeDoc /\ q \in SUBSET Key /\ r \in SUBSET Key
  BY GatherAssumption DEF ConsensusQuorum, Quorums
<1>2. V(q) > (V(Key) * 2) \div 3 /\ V(r) > (V(Key) * 2) \div 3
  BY DEF ConsensusQuorum, Quorums
<1>3. 3 * V(Crashing) <= V(Key)
  BY DEF CrashesAreFew
<1> HIDE DEF epoch
<1>4. V(q) + V(r) <= V(Key) + V(q \cap r)
  BY <1>1, VotesShared
<1>5. V(q \cap r) <= V(Crashing)
  BY <1>1, VotesGrow
<1>6. V(q) \in Nat /\ V(r) \in Nat /\ V(q \cap r) \in Nat /\ V(Key) \in Nat /\ V(Crashing) \in Nat
  BY <1>1, VotesGrow
<1> HIDE DEF V
<1> QED BY <1>2, <1>3, <1>4, <1>5, <1>6

-----------------------------------------------------------------------------
\* The vote count of apply_block.
Counts == [total : Nat, present : Nat]

Signature == {"none", "bad", "good"}

\* One turn of its loop over all documents.
Turn(votes, doc, docs, epoch, cproof) ==
    IF doc \in docs THEN CountDoc(votes, doc, epoch, cproof) ELSE votes

\* The total grows by the stake of an active document, the votes present by no
\* less than that if it is signed.
LEMMA TurnFacts ==
    ASSUME NEW v \in Counts, NEW doc \in StakeDoc, NEW docs, NEW epoch,
           NEW cp \in [Key -> Signature]
    PROVE  LET w == Turn(v, doc, docs, epoch, cp)
           IN  /\ w \in Counts /\ w.present >= v.present
               /\ IF doc \in docs /\ Active(doc, epoch)
                  THEN /\ w.total = v.total + Stake[doc]
                       /\ cp[doc.pubkey] = "good" => w.present >= v.present + Stake[doc]
                  ELSE w = v
<1>1. doc.syms_staked \in Nat /\ Stake[doc] = doc.syms_staked
  BY StakeDocAssumption DEF Stake
<1>2. CASE ~(doc \in docs /\ Active(doc, epoch))
  BY <1>2 DEF Turn, CountDoc, Counts
<1>3. CASE doc \in docs /\ Active(doc, epoch)
  <2> DEFINE total == v.total + doc.syms_staked
  <2>1. Turn(v, doc, docs, epoch, cp)
          = [total |-> total,
             present |-> IF cp[doc.pubkey] = "good" THEN v.present + total ELSE v.present]
    BY <1>3 DEF Turn, CountDoc
  <2>2. v.total \in Nat /\ v.present \in Nat /\ total \in Nat
    BY <1>1 DEF Counts
  <2> QED BY <1>1, <1>3, <2>1, <2>2 DEF Counts
<1> QED BY <1>2, <1>3

\* The loop: f[k] is what it has counted after k documents.
Tallies(f, docs, epoch, cp) ==
    LET n == Len(DocOrder)
    IN  /\ f[0] = NoVotes /\ f[n] = Tally(docs, epoch, cp)
        /\ \A k \in 0 .. n : f[k] \in Counts
        /\ \A k \in 1 .. n : f[k] = Turn(f[k - 1], DocOrder[k], docs, epoch, cp)

\* It is what Tally computes.
LEMMA TallyExists ==
    ASSUME NEW docs, NEW epoch, NEW cp \in [Key -> Signature]
    PROVE  \E f : Tallies(f, docs, epoch, cp)
<1> DEFINE n == Len(DocOrder)
           step == [i \in 1 .. n |-> [v \in Counts |-> Turn(v, DocOrder[i], docs, epoch, cp)]]
           Eq(f) == f = [T \in SUBSET DOMAIN DocOrder |->
              IF T = {} THEN NoVotes
              ELSE IF DocOrder[Max(T)] \in docs
                   THEN CountDoc(f[T \ {Max(T)}], DocOrder[Max(T)], epoch, cp)
                   ELSE f[T \ {Max(T)}]]
           g == CHOOSE f : Eq(f)
<1>1. n \in Nat /\ DOMAIN DocOrder = 1 .. n /\ \A i \in 1 .. n : DocOrder[i] \in StakeDoc
  BY StakeDocAssumption
<1>2. step \in [1 .. n -> [Counts -> Counts]] /\ NoVotes \in Counts
  <2>1. ASSUME NEW i \in 1 .. n, NEW v \in Counts
        PROVE  Turn(v, DocOrder[i], docs, epoch, cp) \in Counts
    BY <1>1, TurnFacts
  <2> QED BY <2>1 DEF NoVotes, Counts
<1>3. PICK f : IsRun(f, n, Counts, NoVotes, step)
  <2> HIDE DEF n, step
  <2> QED BY <1>1, <1>2, RunExists
<1>4. \A T \in SUBSET (1 .. n) : T # {} => Max(T) \in T
  BY <1>1, MaxIsLast
<1>5. ASSUME NEW T \in SUBSET (1 .. n), T # {}
      PROVE  f[T] = Turn(f[T \ {Max(T)}], DocOrder[Max(T)], docs, epoch, cp)
  <2>1. Max(T) \in 1 .. n /\ f[T \ {Max(T)}] \in Counts
    BY <1>3, <1>4, <1>5 DEF IsRun
  <2>2. step[Max(T)][f[T \ {Max(T)}]]
          = Turn(f[T \ {Max(T)}], DocOrder[Max(T)], docs, epoch, cp)
    BY <2>1
  <2> QED BY <1>3, <1>5, <2>2 DEF IsRun
<1>6. Eq(f)
  <2>1. f = [T \in SUBSET (1 .. n) |-> f[T]] /\ f[{}] = NoVotes
    BY <1>3 DEF IsRun
  <2> HIDE DEF n
  <2> QED BY <1>1, <1>5, <2>1 DEF Turn
<1>7. Eq(g)
  <2> HIDE DEF Eq
  <2> QED BY <1>6
<1>8. Tally(docs, epoch, cp) = g[1 .. n]
  BY <1>1 DEF Tally, FoldLeft, MapThenFoldSet
<1>9. f[1 .. n] = g[1 .. n]
  <2>1. ASSUME NEW T \in SUBSET (1 .. n), T = {} \/ f[T \ {Max(T)}] = g[T \ {Max(T)}]
        PROVE  f[T] = g[T]
    <3> HIDE DEF g, n
    <3>1. CASE T = {}
      BY <1>1, <1>6, <1>7, <3>1
    <3>2. CASE T # {}
      <4>1. g[T] = Turn(g[T \ {Max(T)}], DocOrder[Max(T)], docs, epoch, cp)
        BY <1>1, <1>7, <3>2 DEF Turn
      <4> QED BY <1>5, <2>1, <3>2, <4>1
    <3> QED BY <3>1, <3>2
  <2> HIDE DEF g, n
  <2> QED BY <1>1, <2>1, RunsAgree
<1> DEFINE h == [k \in 0 .. n |-> f[1 .. k]]
<1> HIDE DEF n, g, step, Eq
<1>10. f[1 .. 0] = NoVotes /\ \A k \in 0 .. n : f[1 .. k] \in Counts
  BY <1>1, <1>3, RunPrefix
<1>11. ASSUME NEW k \in 1 .. n
       PROVE  f[1 .. k] = Turn(f[1 .. (k - 1)], DocOrder[k], docs, epoch, cp)
  <2>1. n \in Nat /\ k \in 1 .. n
    BY <1>1
  <2>2. 1 .. k \in SUBSET (1 .. n) /\ 1 .. k # {}
    BY <2>1
  <2>3. Max(1 .. k) = k /\ (1 .. k) \ {k} = 1 .. (k - 1)
    BY <2>1, MaxOfPrefix
  <2> QED BY <1>5, <2>2, <2>3
<1>12. /\ h[0] = NoVotes /\ h[n] = Tally(docs, epoch, cp)
       /\ \A k \in 0 .. n : h[k] \in Counts
       /\ \A k \in 1 .. n : h[k] = Turn(h[k - 1], DocOrder[k], docs, epoch, cp)
  BY <1>1, <1>8, <1>9, <1>10, <1>11
<1> QED BY <1>12 DEF n, Tallies

\* The documents that count among the first k.
Visited(k, docs, epoch, keys) ==
    {d \in Counted(docs, epoch, keys) : \E i \in 1 .. k : DocOrder[i] = d}

\* The next document joins them if it counts; it was not among them before.
LEMMA VisitedGrows ==
    ASSUME NEW docs \in SUBSET StakeDoc, NEW epoch, NEW keys, NEW k \in 1 .. Len(DocOrder)
    PROVE  LET d == DocOrder[k]
               before == Total(Stake, Visited(k - 1, docs, epoch, keys))
           IN  Total(Stake, Visited(k, docs, epoch, keys))
                 = IF d \in Counted(docs, epoch, keys) THEN before + Stake[d] ELSE before
<1> DEFINE d == DocOrder[k]
           all == Counted(docs, epoch, keys)
           old == Visited(k - 1, docs, epoch, keys)
           new == Visited(k, docs, epoch, keys)
<1>1. /\ \A i \in 1 .. k : i \in 1 .. k - 1 \/ i = k
      /\ \A i \in 1 .. k - 1 : i \in 1 .. k /\ i # k /\ i \in 1 .. Len(DocOrder)
      /\ k \in 1 .. k /\ DOMAIN DocOrder = 1 .. Len(DocOrder)
  BY StakeDocAssumption
<1>2. \A i \in 1 .. k - 1 : DocOrder[i] # d
  BY <1>1, StakeDocAssumption DEF IsInjective
<1>3. CASE d \notin all
  <2>1. new = old
    BY <1>1, <1>3 DEF Visited
  <2> QED BY <1>3, <2>1
<1>4. CASE d \in all
  <2>1. d \in new /\ new \ {d} = old
    BY <1>1, <1>2, <1>4 DEF Visited
  <2>2. IsFiniteSet(StakeDoc) /\ new \in SUBSET StakeDoc /\ \A e \in StakeDoc : Stake[e] \in Nat
    BY StakeFacts DEF Visited, Counted
  <2> HIDE DEF new, old, d
  <2>3. Total(Stake, new) = Total(Stake, new \ {d}) + Stake[d]
    BY <2>1, <2>2, TotalFacts
  <2> QED BY <1>4, <2>1, <2>3 DEF new, old, d
<1> QED BY <1>3, <1>4

\* total_votes is the active stake, and present_votes no less than the stake of
\* the keys that signed.
LEMMA TallyFacts ==
    ASSUME NEW docs \in SUBSET StakeDoc, NEW epoch, NEW cp \in [Key -> Signature]
    PROVE  LET w == Tally(docs, epoch, cp)
           IN  /\ w \in Counts
               /\ w.total = Votes(docs, epoch, Key)
               /\ w.present >= Votes(docs, epoch, {k \in Key : cp[k] = "good"})
<1> DEFINE n == Len(DocOrder)
           good == {k \in Key : cp[k] = "good"}
           All(k) == Total(Stake, Visited(k, docs, epoch, Key))
           Signed(k) == Total(Stake, Visited(k, docs, epoch, good))
<1>1. PICK f : Tallies(f, docs, epoch, cp)
  BY TallyExists
<1>2. /\ n \in Nat /\ f[0] = NoVotes /\ f[n] = Tally(docs, epoch, cp)
      /\ \A k \in 0 .. n : f[k] \in Counts
      /\ \A k \in 1 .. n : f[k] = Turn(f[k - 1], DocOrder[k], docs, epoch, cp)
  BY <1>1, StakeDocAssumption DEF Tallies
<1>3. \A k \in 0 .. n : All(k) \in Nat /\ Signed(k) \in Nat
  <2>1. IsFiniteSet(StakeDoc) /\ \A e \in StakeDoc : Stake[e] \in Nat
    BY StakeFacts
  <2>2. \A k, keys : Visited(k, docs, epoch, keys) \in SUBSET StakeDoc
    BY DEF Visited, Counted
  <2> QED BY <2>1, <2>2, TotalFacts
<1> DEFINE Right == {k \in Nat : k <= n => f[k].total = All(k) /\ f[k].present >= Signed(k)}
<1>4. 0 \in Right
  <2>1. Visited(0, docs, epoch, Key) = {} /\ Visited(0, docs, epoch, good) = {}
    BY DEF Visited
  <2>2. Total(Stake, {}) = 0
    BY StakeFacts, TotalFacts
  <2>3. All(0) = 0 /\ Signed(0) = 0
    BY <2>1, <2>2
  <2>4. f[0].total = 0 /\ f[0].present = 0
    BY <1>2 DEF NoVotes
  <2> HIDE DEF All, Signed
  <2> QED BY <2>3, <2>4
<1>5. ASSUME NEW m \in Nat, m \in Right PROVE m + 1 \in Right
  <2> SUFFICES ASSUME m + 1 <= n
               PROVE  f[m + 1].total = All(m + 1) /\ f[m + 1].present >= Signed(m + 1)
    OBVIOUS
  <2> DEFINE k == m + 1
             d == DocOrder[k]
  <2>1. k \in 1 .. n /\ k - 1 = m /\ m \in 0 .. n /\ k \in 0 .. n
    BY <1>2
  <2>2. d \in StakeDoc /\ d.pubkey \in Key /\ Stake[d] \in Nat
    <3>1. d \in StakeDoc
      BY <2>1, StakeDocAssumption
    <3> QED BY <3>1, StakeDocAssumption, StakeFacts
  <2>3. f[m] \in Counts /\ f[k] = Turn(f[m], d, docs, epoch, cp)
    BY <1>2, <2>1
  <2>4. f[m].total = All(m) /\ f[m].present >= Signed(m)
    BY <1>5, <2>1
  <2>5. /\ All(k) = IF d \in Counted(docs, epoch, Key) THEN All(m) + Stake[d] ELSE All(m)
        /\ Signed(k) = IF d \in Counted(docs, epoch, good) THEN Signed(m) + Stake[d] ELSE Signed(m)
    BY <2>1, VisitedGrows
  <2>6. /\ d \in Counted(docs, epoch, Key) <=> d \in docs /\ Active(d, epoch)
        /\ d \in Counted(docs, epoch, good)
             <=> d \in docs /\ Active(d, epoch) /\ cp[d.pubkey] = "good"
    BY <2>2 DEF Counted
  <2>7. /\ f[k] \in Counts /\ f[k].present >= f[m].present
        /\ IF d \in docs /\ Active(d, epoch)
           THEN /\ f[k].total = f[m].total + Stake[d]
                /\ cp[d.pubkey] = "good" => f[k].present >= f[m].present + Stake[d]
           ELSE f[k] = f[m]
    BY <2>2, <2>3, TurnFacts
  <2>8. /\ All(m) \in Nat /\ Signed(m) \in Nat /\ f[m].present \in Nat /\ f[k].present \in Nat
        /\ All(k) \in Nat /\ Signed(k) \in Nat
    BY <1>3, <2>1, <2>3, <2>7 DEF Counts
  <2> HIDE DEF k, d, All, Signed
  <2>9. f[k].total = All(k) /\ f[k].present >= Signed(k)
    BY <2>2, <2>4, <2>5, <2>6, <2>7, <2>8
  <2> QED BY <2>9 DEF k
<1>6. Nat \subseteq Right
  <2> HIDE DEF Right
  <2> QED BY <1>4, <1>5, NumberInduction
<1>7. f[n] \in Counts /\ f[n].total = All(n) /\ f[n].present >= Signed(n)
  BY <1>2, <1>6
<1>8. \A keys : Visited(n, docs, epoch, keys) = Counted(docs, epoch, keys)
  BY StakeDocAssumption DEF Visited, Counted
<1>9. All(n) = Votes(docs, epoch, Key) /\ Signed(n) = Votes(docs, epoch, good)
  BY <1>8, StakeFacts
<1> QED BY <1>2, <1>7, <1>9

\* Signers with more than two thirds of the stake pass the vote count.
LEMMA SameEpochPasses == SameEpoch => EnoughPasses
<1> SUFFICES ASSUME SameEpoch, NEW keys \in GatherQuorum PROVE keys \in PassingSigners
  BY DEF EnoughPasses
<1> DEFINE epoch == Epoch(BaseHeight + 1)
           cp == [k \in Key |-> IF k \in keys THEN "good" ELSE "none"]
           w == Tally(Docs, epoch, cp)
<1>1. /\ keys \in SUBSET Staker /\ keys \subseteq Key /\ Docs \in SUBSET StakeDoc
      /\ Votes(Docs, epoch, keys) > (Votes(Docs, epoch, Key) * 2) \div 3
  BY GatherAssumption DEF SameEpoch, GatherQuorum, Quorums
<1>2. cp \in [Key -> Signature] /\ {k \in Key : cp[k] = "good"} = keys
  BY <1>1 DEF Signature
<1>3. w \in Counts /\ w.total = Votes(Docs, epoch, Key) /\ w.present >= Votes(Docs, epoch, keys)
  <2> HIDE DEF cp, epoch
  <2>1. /\ w \in Counts /\ w.total = Votes(Docs, epoch, Key)
        /\ w.present >= Votes(Docs, epoch, {k \in Key : cp[k] = "good"})
    BY <1>1, <1>2, TallyFacts
  <2> QED BY <1>2, <2>1
<1>4. Votes(Docs, epoch, keys) \in Nat /\ Votes(Docs, epoch, Key) \in Nat
  BY <1>1, VotesGrow
<1>5. Enough(w)
  <2> HIDE DEF w, epoch
  <2> QED BY <1>1, <1>3, <1>4 DEF Enough, Counts
<1> QED BY <1>1, <1>5 DEF PassingSigners

-----------------------------------------------------------------------------
\* A map of signatures, or a stored block with its proof, about block b alone.
Signs(map, b) == map \in [Staker -> {b, None}]

Holds(row, b) == row = None \/ (row # None /\ row.block = b /\ Signs(row.map, b))

\* Everything the stakers know is about block b.
AllAbout(b) ==
    /\ agreed \in {b, None}
    /\ \A n \in Staker :
        /\ decision[n] \in {b, None}
        /\ Signs(sigs[n], b) /\ Holds(stored[n], b)

\* Nothing of any block is known.
Untouched ==
    /\ agreed = None
    /\ \A n \in Staker : decision[n] = None /\ sigs[n] = NoSigs /\ stored[n] = None

\* n's decider runs, or n has the block and does not enter the consensus again.
Keeps(n) ==
    \/ n \in relay
    \/ phase[n] = "done"
    \/ phase[n] = "top" /\ stored[n] # None

\* The voters of the decision that do not crash.
Held == \E voters \in ConsensusQuorum : \A n \in voters \ Crashing : Keeps(n)

Shape ==
    /\ phase \in [Staker -> {"top", "consensus", "gather", "done"}]
    /\ DOMAIN decision = Staker /\ DOMAIN sigs = Staker /\ DOMAIN stored = Staker
    /\ relay \subseteq Staker
    /\ relay = {} <=> agreed = None
    /\ \A n \in relay : phase[n] \in {"consensus", "gather"}
    /\ \A n \in Staker : phase[n] = "gather" => decision[n] # None

GatherInv ==
    /\ Shape
    /\ Untouched \/ (Held /\ \E b \in Candidate : AllAbout(b))

-----------------------------------------------------------------------------
\* Where all is about one block, a gathered quorum passes the vote count.
LEMMA GatheredPasses ==
    ASSUME EnoughPasses, NEW b \in Candidate, NEW n \in Staker,
           Signs(sigs[n], b), decision[n] = b, Gathered(n)
    PROVE  Accepts(sigs[n], decision[n])
<1>1. {k \in Staker : sigs[n][k] = b} = Signers(sigs[n])
  BY GatherAssumption DEF Signs, Signers
<1> QED BY <1>1 DEF Gathered, Accepts, EnoughPasses

\* No quorum is empty.
LEMMA QuorumHasMember ==
    ASSUME QuorumsMeet, NEW q \in ConsensusQuorum
    PROVE  q \subseteq Staker /\ q \ Crashing # {}
BY DEF QuorumsMeet, ConsensusQuorum, Quorums

\* A fresh start.
LEMMA GatherStart == Init => GatherInv
BY DEF Init, GatherInv, Shape, Untouched

\* A step before anything was decided: stakers enter and crash, or an instance
\* decides.
LEMMA UntouchedStep ==
    ASSUME QuorumsMeet, Shape, Untouched, Next
    PROVE  GatherInv'
<1>1. ASSUME NEW n \in Staker, Enter(n) \/ Crash(n) PROVE GatherInv'
  <2>1. Shape'
    BY <1>1 DEF Enter, Crash, Leave, Shape, Untouched
  <2>2. Untouched'
    BY <1>1 DEF Enter, Crash, Leave, Shape, Untouched
  <2> QED BY <2>1, <2>2 DEF GatherInv
<1>2. ASSUME NEW n \in Staker,
             Learn(n) \/ Submit(n) \/ Skip(n) \/ \E m \in Staker \ {n} : Fetch(n, m) \/ Sync(n, m)
      PROVE  FALSE
  BY <1>2 DEF Learn, Submit, Skip, Fetch, Sync, Shape, Untouched
<1>3. ASSUME NEW b \in Candidate, NEW voters \in ConsensusQuorum, Agree(b, voters)
      PROVE  GatherInv'
  <2>1. voters \subseteq Staker /\ voters # {}
    BY QuorumHasMember
  <2>2. b # None
    BY GatherAssumption
  <2>3. Shape'
    BY <1>3, <2>1, <2>2 DEF Agree, Shape
  <2>4. AllAbout(b)'
    BY <1>3 DEF Agree, Untouched, AllAbout, Signs, Holds, NoSigs
  <2>5. Held'
    BY <1>3 DEF Agree, Held, Keeps
  <2> QED BY <2>3, <2>4, <2>5 DEF GatherInv
<1> QED BY <1>1, <1>2, <1>3 DEF Next

\* No second decision: its voters would include one who holds on to the first.
LEMMA NoSecondDecision ==
    ASSUME QuorumsMeet, Shape, Held, NEW b, NEW voters \in ConsensusQuorum
    PROVE  ~Agree(b, voters)
<1> SUFFICES ASSUME Agree(b, voters) PROVE FALSE
  OBVIOUS
<1>1. PICK first \in ConsensusQuorum : \A n \in first \ Crashing : Keeps(n)
  BY DEF Held
<1>2. PICK n \in Staker \ Crashing : n \in first /\ n \in voters
  BY DEF QuorumsMeet
<1>3. n \notin relay /\ phase[n] = "consensus"
  BY <1>2 DEF Agree, Shape
<1> QED BY <1>1, <1>2, <1>3 DEF Keeps

\* It is enough that each staker that does not crash keeps what it holds.
LEMMA HeldStays ==
    ASSUME QuorumsMeet, Held, \A m \in Staker \ Crashing : Keeps(m) => Keeps(m)'
    PROVE  Held'
<1>1. PICK voters \in ConsensusQuorum : \A m \in voters \ Crashing : Keeps(m)
  BY DEF Held
<1>2. \A m \in voters \ Crashing : Keeps(m)'
  BY <1>1, QuorumHasMember
<1> QED BY <1>2 DEF Held, ConsensusQuorum, Quorums

\* Once a block is decided on, every step is about it.
LEMMA DecidedStep ==
    ASSUME QuorumsMeet, EnoughPasses, Shape, Held, NEW b \in Candidate, AllAbout(b), Next
    PROVE  Shape' /\ Held' /\ AllAbout(b)'
<1>0. b # None
  BY GatherAssumption
<1>1. ASSUME NEW n \in Staker, Enter(n) PROVE Shape' /\ Held' /\ AllAbout(b)'
  <2>1. Shape' /\ AllAbout(b)'
    BY <1>1 DEF Enter, Shape, AllAbout
  <2>2. ASSUME NEW m \in Staker, Keeps(m) PROVE Keeps(m)'
    BY <1>1, <2>2 DEF Enter, Shape, Keeps
  <2>3. Held'
    BY <2>2, HeldStays
  <2> QED BY <2>1, <2>3
<1>2. ASSUME NEW n \in Staker, Learn(n) PROVE Shape' /\ Held' /\ AllAbout(b)'
  <2>1. agreed = b
    BY <1>2 DEF Learn, AllAbout
  <2>2. Shape'
    BY <1>0, <1>2, <2>1 DEF Learn, Shape
  <2>3. Signs([NoSigs EXCEPT ![n] = agreed], b)
    BY <2>1 DEF Signs, NoSigs
  <2>4. AllAbout(b)'
    BY <1>2, <2>1, <2>3 DEF Learn, AllAbout, Shape
  <2>5. ASSUME NEW m \in Staker, Keeps(m) PROVE Keeps(m)'
    BY <1>2, <2>5 DEF Learn, Shape, Keeps
  <2> QED BY <2>2, <2>4, <2>5, HeldStays
<1>3. ASSUME NEW n \in Staker, NEW m \in Staker, Fetch(n, m)
      PROVE  Shape' /\ Held' /\ AllAbout(b)'
  <2>1. Signs(GetSigs(m), b) /\ Signs(sigs[n], b)
    BY DEF GetSigs, AllAbout, Holds
  <2>2. Signs([k \in Staker |-> IF GetSigs(m)[k] # None THEN GetSigs(m)[k] ELSE sigs[n][k]], b)
    BY <2>1 DEF Signs
  <2>3. Shape' /\ AllAbout(b)'
    BY <1>3, <2>2 DEF Fetch, Shape, AllAbout
  <2>4. Held'
    BY <1>3 DEF Fetch, Held, Keeps
  <2> QED BY <2>3, <2>4
<1>4. ASSUME NEW n \in Staker, Submit(n) PROVE Shape' /\ Held' /\ AllAbout(b)'
  <2>1. decision[n] = b /\ Signs(sigs[n], b)
    BY <1>4 DEF Submit, Shape, AllAbout
  <2>2. Accepts(sigs[n], decision[n])
    BY <1>4, <2>1, GatheredPasses DEF Submit
  <2> DEFINE row == [block |-> decision[n], map |-> sigs[n]]
  <2>3. row # None /\ Holds(row, b)
    BY <2>1, GatherAssumption DEF Signs, Holds
  <2>4. /\ stored'[n] # None /\ Holds(stored'[n], b) /\ DOMAIN stored' = Staker
        /\ \A m \in Staker \ {n} : stored'[m] = stored[m]
    <3>1. CASE stored[n] = None
      BY <1>4, <2>2, <2>3, <3>1 DEF Submit, Shape
    <3>2. CASE stored[n] # None
      BY <1>4, <3>2 DEF Submit, Shape, AllAbout
    <3> QED BY <3>1, <3>2
  <2>5. Shape'
    BY <1>4, <2>4 DEF Submit, Leave, Shape
  <2>6. AllAbout(b)'
    BY <1>4, <2>4 DEF Submit, Leave, Shape, AllAbout
  <2>7. ASSUME NEW m \in Staker, Keeps(m) PROVE Keeps(m)'
    BY <1>4, <2>4, <2>7 DEF Submit, Leave, Shape, Keeps
  <2> QED BY <2>5, <2>6, <2>7, HeldStays
<1>5. ASSUME NEW n \in Staker, NEW m \in Staker, Sync(n, m)
      PROVE  Shape' /\ Held' /\ AllAbout(b)'
  <2>1. Shape' /\ AllAbout(b)'
    BY <1>5 DEF Sync, Shape, AllAbout
  <2>2. stored' = [stored EXCEPT ![n] = stored[m]] /\ stored[m] # None
    BY <1>5 DEF Sync
  <2>3. \A k \in Staker : stored[k] # None => stored'[k] # None
    BY <2>2 DEF Shape
  <2>4. ASSUME NEW k \in Staker, Keeps(k) PROVE Keeps(k)'
    BY <1>5, <2>3, <2>4 DEF Sync, Keeps
  <2> QED BY <2>1, <2>4, HeldStays
<1>6. ASSUME NEW n \in Staker, Skip(n) \/ Crash(n) PROVE Shape' /\ Held' /\ AllAbout(b)'
  <2>1. Shape'
    BY <1>6 DEF Skip, Crash, Leave, Shape
  <2>2. AllAbout(b)'
    BY <1>6 DEF Skip, Crash, Leave, Shape, AllAbout, Signs, NoSigs
  <2>3. ASSUME NEW m \in Staker \ Crashing, Keeps(m) PROVE Keeps(m)'
    BY <1>6, <2>3 DEF Skip, Crash, Leave, Shape, Keeps
  <2> QED BY <2>1, <2>2, <2>3, HeldStays
<1> QED BY <1>1, <1>2, <1>3, <1>4, <1>5, <1>6, NoSecondDecision DEF Next

\* GatherInv is inductive.
LEMMA GatherStep ==
    ASSUME QuorumsMeet, EnoughPasses
    PROVE  GatherInv /\ [Next]_vars => GatherInv'
<1> SUFFICES ASSUME GatherInv, [Next]_vars PROVE GatherInv'
  OBVIOUS
<1>1. CASE Untouched /\ Next
  BY <1>1, UntouchedStep DEF GatherInv
<1>2. ASSUME Held, NEW b \in Candidate, AllAbout(b), Next PROVE GatherInv'
  BY <1>2, DecidedStep DEF GatherInv
<1>3. CASE UNCHANGED vars
  BY <1>3 DEF vars, GatherInv, Shape, Untouched, Held, Keeps, AllAbout
<1> QED BY <1>1, <1>2, <1>3 DEF GatherInv

-----------------------------------------------------------------------------
\* The invariant, from what the stakes are.
LEMMA GatherAlways == ASSUME CrashesAreFew, SameEpoch PROVE Spec => []GatherInv
<1>1. QuorumsMeet /\ EnoughPasses
  BY FewCrashesMeet, SameEpochPasses
<1>2. GatherInv /\ [Next]_vars => GatherInv'
  BY <1>1, GatherStep
<1> QED BY <1>2, GatherStart, PTL DEF Spec

\* No two stakers store different blocks of a height, however their rounds end
\* and whoever crashes, as long as those that crash have a third of the stake
\* at most and the block opens no epoch.
THEOREM GatherOneBlock ==
    ASSUME CrashesAreFew, SameEpoch
    PROVE  Spec => []OneBlock
<1>1. GatherInv => OneBlock
  BY DEF GatherInv, Untouched, AllAbout, Holds, OneBlock
<1> QED BY <1>1, GatherAlways, PTL

\* What ends the gathering is accepted by apply_block: keys count for the
\* gatherer whatever they signed, but there is only one block to sign, and the
\* votes that are counted in are more than the stake that signed.
THEOREM GatherEnoughIsEnough ==
    ASSUME CrashesAreFew, SameEpoch
    PROVE  Spec => []EnoughIsEnough
<1>1. EnoughPasses
  BY SameEpochPasses
<1>2. GatherInv => EnoughIsEnough
  <2> SUFFICES ASSUME GatherInv, NEW n \in Staker, phase[n] = "gather", Gathered(n)
               PROVE  Accepts(sigs[n], decision[n])
    BY DEF EnoughIsEnough
  <2>1. decision[n] # None
    BY DEF GatherInv, Shape
  <2>2. PICK b \in Candidate : AllAbout(b)
    BY <2>1 DEF GatherInv, Untouched
  <2>3. Signs(sigs[n], b) /\ decision[n] = b
    BY <2>1, <2>2 DEF AllAbout
  <2> QED BY <1>1, <2>3, GatheredPasses
<1> QED BY <1>2, GatherAlways, PTL
=============================================================================
