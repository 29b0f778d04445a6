---------------------------- MODULE StorageProofs ----------------------------
(***************************************************************************)
(* The storage keeps one chain of proven blocks whose stake sets can be    *)
(* rebuilt and whose states are on disk, and its mempool never moves back, *)
(* for any block tree, any number of callers and waiters, whatever calls   *)
(* are dropped and however often the process or the power fails; and the   *)
(* round loop of a staker on top of it leaves that as it is.               *)
(*                                                                         *)
(* The inductive invariant IInv strengthens the properties by what makes   *)
(* each commit safe: a checked call carries a block that extends a stored  *)
(* one, heights have no gaps, so that a free height is the one above all   *)
(* others, and a row of the stakes table belongs to a stored height.       *)
(* PoolFits, PoolWeighs and FollowInv add what holds of the mempool, the   *)
(* last where no call is dropped; RoundInv is CoreInv and what a round     *)
(* knows.  What is about Storage cites no assumption of StakerRound.       *)
(***************************************************************************)
EXTENDS StakerRound, FoldLemmas, SequenceTheorems

\* What a table set satisfies in every reachable state.
Contiguous(d) == \A c \in d.history : \A h \in 1 .. Height[c] : HasHeight(d, h)

HasMax(d) ==
    d.history # {} =>
        \E b \in d.history : \A c \in d.history : Height[c] <= Height[b]

RowsKnown(d) ==
    \A r \in d.stakes : r.doc \in GenesisStakes \/ HasHeight(d, r.height)

StakesMatch(d) == \A b \in d.history : StakeSet(d, b) = StakesAfter[b]

TablesInv(d) ==
    /\ TablesTypeOK(d)
    /\ ChainOfProofs(d)
    /\ Contiguous(d)
    /\ HasMax(d)
    /\ RowsKnown(d)
    /\ StakesMatch(d)

\* A checked block: it extends a stored one, and its proof passed.
Good(d, j) ==
    /\ j \in Job
    /\ j.block \in Sound
    /\ Prev[j.block] \in d.history \cup {Genesis}
    /\ Height[j.block] = Height[Prev[j.block]] + 1
    /\ Enough(Tally(StakesAfter[Prev[j.block]], Epoch(Height[j.block]), j.proof))

\* A stored state, or the genesis.
Known(d, b) == b \in d.history \cup {Genesis}

CallsInv ==
    /\ \A t \in Task :
        /\ Known(db, tip[t])
        /\ pc[t] \in {"flush", "commit"} => Good(db, job[t])
        /\ pc[t] = "commit" => job[t].block \in flushed
    /\ \A j \in detached : Good(db, j) /\ j.block \in flushed

PoolInv ==
    /\ Known(db, mpBase)
    /\ \A t \in Task : pc[t] = "rebase" => Height[mpBase] <= Height[tip[t]]

\* What holds of tables and calls whoever moves the mempool.
CoreInv ==
    /\ TypeOK
    /\ TablesInv(db) /\ TablesInv(disk)
    /\ RootsDurable
    /\ CallsInv

IInv == CoreInv /\ PoolInv

-----------------------------------------------------------------------------
(* Tables.                                                                  *)

\* Epochs do not go back as heights grow.
LEMMA EpochMonotone ==
    ASSUME NEW m \in Nat, NEW n \in Nat, m <= n
    PROVE  Epoch(m) <= Epoch(n)
  BY StakeDocAssumption DEF Epoch

\* The highest block is a stored one, or the genesis, and is above all others.
LEMMA HighestIsMax ==
    ASSUME NEW d, TablesInv(d)
    PROVE  /\ Known(d, Highest(d)) /\ Highest(d) \in Block
           /\ \A c \in d.history \cup {Genesis} : Height[c] <= Height[Highest(d)]
<1>1. d.history \subseteq Block /\ Genesis \in Block /\ Height[Genesis] = 0
      /\ \A b \in Block : Height[b] \in Nat
  BY ChainAssumption DEF TablesInv, TablesTypeOK
<1>2. CASE d.history = {}
  BY <1>1, <1>2 DEF Highest, Known
<1>3. CASE d.history # {}
  <2>1. \E b \in d.history : \A c \in d.history : Height[c] <= Height[b]
    BY <1>3 DEF TablesInv, HasMax
  <2>2. /\ Highest(d) \in d.history
        /\ \A c \in d.history : Height[c] <= Height[Highest(d)]
    BY <1>3, <2>1 DEF Highest
  <2>3. QED
    BY <1>1, <2>2 DEF Known
<1>4. QED
  BY <1>2, <1>3

\* A good block of a free height is above every stored block, right above its
\* parent.
LEMMA FreeHeightIsNext ==
    ASSUME NEW d, TablesInv(d), NEW j, Good(d, j), ~HasHeight(d, Height[j.block])
    PROVE  /\ j.block \in Block /\ Height[j.block] \in Nat \ {0}
           /\ Prev[j.block] \in Block
           /\ \A c \in d.history : Height[c] \in Nat /\ Height[c] < Height[j.block]
<1>1. /\ j.block \in Block /\ d.history \subseteq Block
      /\ \A b \in Block : Height[b] \in Nat /\ Prev[b] \in Block
  BY ChainAssumption DEF TablesInv, TablesTypeOK, Good, Job
<1>2. Height[j.block] = Height[Prev[j.block]] + 1
  BY DEF Good
<1>3. ASSUME NEW c \in d.history, Height[c] >= Height[j.block]
      PROVE  FALSE
  <2>1. Height[j.block] \in 1 .. Height[c]
    BY <1>1, <1>2, <1>3
  <2>2. QED
    BY <2>1 DEF TablesInv, Contiguous
<1>4. QED
  BY <1>1, <1>2, <1>3

\* The stake set rebuilt for the new block is the one of its header.
LEMMA InsertedStakes ==
    ASSUME NEW d, TablesInv(d), NEW j, Good(d, j), ~HasHeight(d, Height[j.block])
    PROVE  StakesMatch(Insert(d, j.block, j.proof))
<1> DEFINE b == j.block
           e == Insert(d, b, j.proof)
           docs == GenesisStakes \cup {r.doc : r \in d.stakes}
<1>1. /\ b \in Block /\ Height[b] \in Nat \ {0} /\ b # Genesis /\ b \in Sound
      /\ d.history \subseteq Block
      /\ \A c \in d.history : Height[c] \in Nat /\ Height[c] < Height[b] /\ c # Genesis
  BY FreeHeightIsNext, ChainAssumption DEF Good, TablesInv, TablesTypeOK
<1>2. /\ e.history = d.history \cup {b}
      /\ e.stakes = d.stakes \cup {[doc |-> doc, height |-> Height[b]] : doc \in Mirrored(b)}
  BY DEF Insert
<1>3. ASSUME NEW c \in d.history
      PROVE  StakeSet(e, c) = StakesAfter[c]
  <2>1. {s \in e.stakes : s.height <= Height[c]} = {s \in d.stakes : s.height <= Height[c]}
    BY <1>1, <1>2
  <2>2. StakeSet(e, c) = StakeSet(d, c)
    BY <2>1 DEF StakeSet
  <2>3. QED
    BY <2>2 DEF TablesInv, StakesMatch
<1>4. StakeSet(e, b) = StakesAfter[b]
  <2>1. \A r \in d.stakes : r.doc \in GenesisStakes \/ (r.height < Height[b] /\ r.height \in Nat)
    BY <1>1 DEF TablesInv, RowsKnown, HasHeight
  <2>2. StakeSet(e, b) = {doc \in docs \cup Mirrored(b) : Unexpired(doc, Epoch(Height[b]))}
    <3> DEFINE rows == {s \in e.stakes : s.height <= Height[b]}
    <3>1. GenesisStakes \cup {r.doc : r \in rows} = docs \cup Mirrored(b)
      <4>1. ASSUME NEW r \in rows PROVE r.doc \in docs \cup Mirrored(b)
        BY <1>2
      <4>2. ASSUME NEW r \in d.stakes PROVE r.doc \in GenesisStakes \cup {s.doc : s \in rows}
        <5>1. CASE r.doc \in GenesisStakes
          BY <5>1
        <5>2. CASE r.height < Height[b] /\ r.height \in Nat
          BY <5>2, <1>1, <1>2
        <5>3. QED
          BY <2>1, <5>1, <5>2
      <4>3. ASSUME NEW doc \in Mirrored(b) PROVE doc \in {s.doc : s \in rows}
        <5> DEFINE r == [doc |-> doc, height |-> Height[b]]
        <5>1. r \in e.stakes /\ r.height <= Height[b] /\ r.doc = doc
          BY <1>1, <1>2
        <5>2. QED
          BY <5>1
      <4>4. QED
        BY <4>1, <4>2, <4>3
    <3>2. QED
      BY <3>1, <1>1 DEF StakeSet
  <2>3. Mirrored(b) = Registered[b] /\ \A doc \in Registered[b] : Unexpired(doc, Epoch(Height[b]))
    BY <1>1, MirrorAssumption, StakesAssumption
  <2>4. StakesAfter[b] = {doc \in StakesAfter[Prev[b]] : Unexpired(doc, Epoch(Height[b]))}
                            \cup Registered[b]
    BY <1>1, StakesAssumption
  <2>5. {doc \in StakesAfter[Prev[b]] : Unexpired(doc, Epoch(Height[b]))}
          = {doc \in docs : Unexpired(doc, Epoch(Height[b]))}
    <3>1. CASE Prev[b] = Genesis
      <4>1. d.history = {}
        BY <1>1, <3>1, ChainAssumption DEF Good, TablesInv, ChainOfProofs
      <4>2. docs = GenesisStakes
        BY <4>1 DEF TablesInv, RowsKnown, HasHeight
      <4>3. QED
        BY <3>1, <4>2, StakesAssumption
    <3>2. CASE Prev[b] \in d.history
      <4> DEFINE p == Prev[b]
      <4>1. Height[p] \in Nat /\ Height[b] = Height[p] + 1 /\ p # Genesis
        BY <1>1, <3>2 DEF Good
      <4>2. GenesisStakes \cup {r.doc : r \in {s \in d.stakes : s.height <= Height[p]}} = docs
        <5>1. \A r \in d.stakes : r.doc \in GenesisStakes \/ r.height <= Height[p]
          BY <2>1, <4>1
        <5>2. QED
          BY <5>1
      <4>3. StakesAfter[p] = {doc \in docs : Unexpired(doc, Epoch(Height[p]))}
        BY <3>2, <4>1, <4>2 DEF TablesInv, StakesMatch, StakeSet
      <4>4. \A doc \in docs : Unexpired(doc, Epoch(Height[b])) => Unexpired(doc, Epoch(Height[p]))
        <5>1. Epoch(Height[p]) <= Epoch(Height[b])
          BY <1>1, <4>1, EpochMonotone
        <5>2. Epoch(Height[p]) \in Int /\ Epoch(Height[b]) \in Int
          BY <1>1, <4>1, StakeDocAssumption DEF Epoch
        <5>3. docs \subseteq StakeDoc
          BY StakesAssumption DEF TablesInv, TablesTypeOK
        <5>4. \A doc \in docs : doc.e_post_end \in Nat
          BY <5>3, StakeDocAssumption
        <5>5. QED
          BY <5>1, <5>2, <5>4 DEF Unexpired
      <4>5. QED
        BY <4>3, <4>4
    <3>3. QED
      BY <3>1, <3>2 DEF Good
  <2>6. QED
    BY <2>2, <2>3, <2>4, <2>5
<1>5. QED
  BY <1>2, <1>3, <1>4 DEF StakesMatch

\* The transaction of apply_block keeps the tables in order.
LEMMA InsertKeepsTables ==
    ASSUME NEW d, TablesInv(d), NEW j, Good(d, j), ~HasHeight(d, Height[j.block])
    PROVE  TablesInv(Insert(d, j.block, j.proof))
<1> DEFINE b == j.block
           e == Insert(d, b, j.proof)
<1>1. /\ b \in Block \ {Genesis} /\ Height[b] \in Nat \ {0} /\ j.proof \in Proof
      /\ d.history \subseteq Block \ {Genesis}
      /\ \A c \in d.history : Height[c] \in Nat /\ Height[c] < Height[b]
  BY FreeHeightIsNext, ChainAssumption DEF Good, Job, TablesInv, TablesTypeOK
<1>2. /\ e.history = d.history \cup {b}
      /\ e.proofs = d.proofs \cup {[height |-> Height[b], proof |-> j.proof]}
      /\ e.stakes = d.stakes \cup {[doc |-> doc, height |-> Height[b]] : doc \in Mirrored(b)}
  BY DEF Insert
<1>3. TablesTypeOK(e)
  <2>1. Mirrored(b) \subseteq StakeDoc
    BY <1>1, StakesAssumption DEF Mirrored
  <2>2. QED
    BY <1>1, <1>2, <2>1 DEF TablesInv, TablesTypeOK
<1>4. ChainOfProofs(e)
  <2>1. ASSUME NEW c \in e.history
        PROVE  /\ c \in Sound
               /\ Prev[c] \in e.history \cup {Genesis}
               /\ Height[c] = Height[Prev[c]] + 1
               /\ \A x \in e.history : Height[x] = Height[c] => x = c
               /\ \E r \in e.proofs : r.height = Height[c]
    <3>1. CASE c \in d.history
      BY <1>1, <1>2, <3>1 DEF TablesInv, ChainOfProofs
    <3>2. CASE c = b
      <4> DEFINE r == [height |-> Height[b], proof |-> j.proof]
      <4>1. r \in e.proofs /\ r.height = Height[c]
        BY <1>2, <3>2
      <4>2. \A x \in e.history : Height[x] = Height[c] => x = c
        BY <1>1, <1>2, <3>2
      <4>3. c \in Sound /\ Prev[c] \in e.history \cup {Genesis} /\ Height[c] = Height[Prev[c]] + 1
        BY <1>2, <3>2 DEF Good
      <4>4. QED
        BY <4>1, <4>2, <4>3
    <3>3. QED
      BY <1>2, <3>1, <3>2
  <2>2. ASSUME NEW r \in e.proofs
        PROVE  \E c \in e.history :
                  /\ Height[c] = r.height
                  /\ Enough(Tally(StakesAfter[Prev[c]], Epoch(Height[c]), r.proof))
    <3>1. CASE r \in d.proofs
      BY <1>2, <3>1 DEF TablesInv, ChainOfProofs
    <3>2. CASE r = [height |-> Height[b], proof |-> j.proof]
      <4>1. r.height = Height[b] /\ r.proof = j.proof
        BY <3>2
      <4>2. QED
        BY <1>2, <4>1 DEF Good
    <3>3. QED
      BY <1>2, <3>1, <3>2
  <2>3. QED
    BY <2>1, <2>2 DEF ChainOfProofs
<1>5. Contiguous(e)
  <2> SUFFICES ASSUME NEW c \in e.history, NEW h \in 1 .. Height[c]
               PROVE  HasHeight(e, h)
    BY DEF Contiguous
  <2>1. CASE c \in d.history
    BY <1>2, <2>1 DEF TablesInv, Contiguous, HasHeight
  <2>2. CASE c = b /\ h = Height[b]
    BY <1>2, <2>2 DEF HasHeight
  <2>3. CASE c = b /\ h # Height[b]
    <3>1. Height[b] = Height[Prev[b]] + 1 /\ Height[Prev[b]] \in Nat
      BY <1>1, ChainAssumption DEF Good
    <3>2. h \in 1 .. Height[Prev[b]]
      BY <1>1, <2>3, <3>1
    <3>3. Prev[b] \in d.history
      BY <3>2, ChainAssumption DEF Good
    <3>4. QED
      BY <1>2, <3>2, <3>3 DEF TablesInv, Contiguous, HasHeight
  <2>4. QED
    BY <1>2, <2>1, <2>2, <2>3
<1>6. HasMax(e)
  BY <1>1, <1>2 DEF HasMax
<1>7. RowsKnown(e)
  <2> SUFFICES ASSUME NEW r \in e.stakes
               PROVE  r.doc \in GenesisStakes \/ HasHeight(e, r.height)
    BY DEF RowsKnown
  <2>1. CASE r \in d.stakes
    BY <1>2, <2>1 DEF TablesInv, RowsKnown, HasHeight
  <2>2. CASE r \in {[doc |-> doc, height |-> Height[b]] : doc \in Mirrored(b)}
    BY <1>2, <2>2 DEF HasHeight
  <2>3. QED
    BY <1>2, <2>1, <2>2
<1>8. QED
  BY <1>3, <1>4, <1>5, <1>6, <1>7, InsertedStakes DEF TablesInv

\* What was good or known stays so when a block is added.
LEMMA InsertKeepsGood ==
    ASSUME NEW d, NEW block, NEW proof
    PROVE  /\ \A j : Good(d, j) => Good(Insert(d, block, proof), j)
           /\ \A b : Known(d, b) => Known(Insert(d, block, proof), b)
  BY DEF Good, Known, Insert

-----------------------------------------------------------------------------
(* The inductive invariant.                                                 *)

\* A fresh start.
LEMMA InitIInv == Init => IInv
<1> SUFFICES ASSUME Init PROVE IInv
  OBVIOUS
<1>1. TablesInv(EmptyDb)
  <2>1. TablesTypeOK(EmptyDb)
    BY StakesAssumption DEF TablesTypeOK, EmptyDb, GenesisRows
  <2>2. RowsKnown(EmptyDb)
    BY DEF RowsKnown, EmptyDb, GenesisRows
  <2>3. QED
    BY <2>1, <2>2 DEF TablesInv, ChainOfProofs, Contiguous, HasMax, StakesMatch, EmptyDb
<1>2. TypeOK
  BY <1>1, ChainAssumption, TxAssumption, StorageAssumption
     DEF Init, MempoolInit, TypeOK, MempoolTypeOK, TablesInv, Critical
<1>3. RootsDurable
  BY DEF Init, RootsDurable, EmptyDb
<1>4. CallsInv /\ PoolInv
  BY DEF Init, MempoolInit, CallsInv, PoolInv, Known
<1>5. QED
  BY <1>1, <1>2, <1>3, <1>4 DEF Init, IInv, CoreInv

\* Every step keeps the types.
LEMMA TypeStep == CoreInv /\ [Next]_vars => TypeOK'
<1> SUFFICES ASSUME CoreInv, [Next]_vars PROVE TypeOK'
  OBVIOUS
<1> USE DEF Critical, vars, mempoolVars, tableVars, callVars, waiterVars
<1>0. TypeOK /\ Highest(db) \in Block /\ Genesis \in Block
  BY HighestIsMax, ChainAssumption DEF CoreInv
<1>1. ASSUME NEW t \in Task, NEW block \in Block \ {Genesis}, NEW proof \in Proof,
             Call(t, block, proof)
      PROVE  TypeOK'
  <2>1. [block |-> block, proof |-> proof] \in Job
    BY DEF Job
  <2>2. QED
    BY <1>0, <1>1, <2>1, StorageAssumption DEF Call, TypeOK, MempoolTypeOK
<1>2. ASSUME NEW t \in Task, AcquireLock(t) PROVE TypeOK'
  BY <1>0, <1>2, StorageAssumption DEF AcquireLock, TypeOK, MempoolTypeOK
<1>3. ASSUME NEW t \in Task, ReadHighest(t) PROVE TypeOK'
  BY <1>0, <1>3 DEF ReadHighest, TypeOK, MempoolTypeOK
<1>4. ASSUME NEW t \in Task, Reject(t) PROVE TypeOK'
  BY <1>0, <1>4, StorageAssumption DEF Reject, Return, TypeOK, MempoolTypeOK
<1>5. ASSUME NEW t \in Task, Execute(t) PROVE TypeOK'
  BY <1>0, <1>5 DEF Execute, TypeOK, MempoolTypeOK
<1>6. ASSUME NEW t \in Task, Flush(t) PROVE TypeOK'
  <2>1. job[t].block \in Block
    BY <1>0, <1>6, StorageAssumption DEF Flush, TypeOK, Job
  <2>2. QED
    BY <1>0, <1>6, <2>1 DEF Flush, TypeOK, MempoolTypeOK
<1>7. ASSUME NEW t \in Task, Commit(t) PROVE TypeOK'
  <2>1. TablesTypeOK(db')
    BY <1>7, InsertKeepsTables DEF Commit, CoreInv, CallsInv, TablesInv
  <2>2. QED
    BY <1>0, <1>7, <2>1 DEF Commit, TypeOK, MempoolTypeOK, TablesTypeOK
<1>8. ASSUME NEW t \in Task, CommitFails(t) PROVE TypeOK'
  BY <1>0, <1>8, StorageAssumption DEF CommitFails, Return, TypeOK, MempoolTypeOK
<1>9. ASSUME NEW t \in Task, ReadNext(t) PROVE TypeOK'
  BY <1>0, <1>9 DEF ReadNext, TypeOK, MempoolTypeOK
<1>10. ASSUME NEW t \in Task, RebasePool(t) PROVE TypeOK'
  <2>1. tip[t] \in Block
    BY <1>0 DEF TypeOK
  <2>2. MempoolTypeOK'
    BY <1>10, <2>1, ChainAssumption, TxAssumption DEF RebasePool, Rebase, MempoolTypeOK
  <2>3. QED
    BY <1>0, <1>10, <2>2 DEF RebasePool, TypeOK
<1>11. ASSUME NEW t \in Task, NotifyAll(t) PROVE TypeOK'
  BY <1>0, <1>11, StorageAssumption DEF NotifyAll, Return, TypeOK, MempoolTypeOK
<1>12. ASSUME NEW t \in Cancellable, Cancel(t) PROVE TypeOK'
  <2>1. t \in Task /\ detached' \subseteq Job
    BY <1>0, <1>12, StorageAssumption DEF Cancel, TypeOK
  <2>2. QED
    BY <1>0, <1>12, <2>1, StorageAssumption DEF Cancel, Return, Awaiting, TypeOK, MempoolTypeOK
<1>13. ASSUME NEW j \in detached, DetachedCommit(j) PROVE TypeOK'
  <2>1. TablesTypeOK(db')
    BY <1>13, InsertKeepsTables DEF DetachedCommit, CoreInv, CallsInv, TablesInv
  <2>2. QED
    BY <1>0, <1>13, <2>1 DEF DetachedCommit, TypeOK, MempoolTypeOK, TablesTypeOK
<1>14. ASSUME NEW w \in Waiter, NEW b \in Block \ {Genesis}, WaitStart(w, Height[b]) PROVE TypeOK'
  BY <1>0, <1>14, ChainAssumption DEF WaitStart, TypeOK, MempoolTypeOK
<1>15. ASSUME NEW w \in Waiter, WaiterStep(w) PROVE TypeOK'
  <2>1. CASE Listen(w)
    BY <1>0, <2>1 DEF Listen, TypeOK, MempoolTypeOK
  <2>2. CASE Query(w)
    <3>1. /\ wpc' \in [Waiter -> {"idle", "listen", "query", "wait"}]
          /\ want' \in [Waiter -> Nat]
          /\ ear' \in [Waiter -> BOOLEAN]
      <4>1. CASE HasHeight(db, want[w])
        <5>1. /\ wpc' = [wpc EXCEPT ![w] = "idle"]
              /\ want' = [want EXCEPT ![w] = 0]
              /\ ear' = [ear EXCEPT ![w] = FALSE]
          BY <2>2, <4>1 DEF Query
        <5>2. QED
          BY <1>0, <5>1 DEF TypeOK
      <4>2. CASE ~HasHeight(db, want[w])
        <5>1. wpc' = [wpc EXCEPT ![w] = "wait"] /\ want' = want /\ ear' = ear
          BY <2>2, <4>2 DEF Query
        <5>2. QED
          BY <1>0, <5>1 DEF TypeOK
      <4>3. QED
        BY <4>1, <4>2
    <3>2. UNCHANGED <<mempoolVars, tableVars, callVars>>
      BY <2>2 DEF Query
    <3>3. QED
      BY <1>0, <3>1, <3>2 DEF TypeOK, MempoolTypeOK
  <2>3. CASE Wake(w)
    BY <1>0, <2>3 DEF Wake, TypeOK, MempoolTypeOK
  <2>4. QED
    BY <1>15, <2>1, <2>2, <2>3 DEF WaiterStep
<1>16. ASSUME NEW tx \in Tx, SendTx(tx) PROVE TypeOK'
  <2>1. MempoolTypeOK'
    BY <1>0, <1>16, TxAssumption DEF SendTx, ApplyTransaction, TypeOK, MempoolTypeOK
  <2>2. QED
    BY <1>0, <1>16, <2>1 DEF SendTx, TypeOK
<1>17. CASE Checkpoint
  BY <1>0, <1>17 DEF Checkpoint, TypeOK, MempoolTypeOK, TablesTypeOK
<1>18. ASSUME NEW d, Restart(d), d = db \/ d = disk PROVE TypeOK'
  <2>1. MempoolTypeOK'
    BY <1>0, <1>18, TxAssumption DEF Restart, FreshMempool, MempoolTypeOK
  <2>2. QED
    BY <1>0, <1>18, <2>1, StorageAssumption DEF Restart, TypeOK, TablesTypeOK
<1>19. CASE UNCHANGED vars
  BY <1>0, <1>19 DEF TypeOK, MempoolTypeOK, TablesTypeOK
<1>20. QED
  BY <1>1, <1>2, <1>3, <1>4, <1>5, <1>6, <1>7, <1>8, <1>9, <1>10, <1>11, <1>12,
     <1>13, <1>14, <1>15, <1>16, <1>17, <1>18, <1>19 DEF Next, Progress, Environment

\* The steps that touch the tables.
LEMMA TableSteps ==
    ASSUME [Next]_vars
    PROVE  \/ UNCHANGED <<db, disk>> /\ flushed \subseteq flushed'
           \/ Checkpoint
           \/ \E t \in Task : Commit(t)
           \/ \E j \in detached : DetachedCommit(j)
           \/ Restart(db) \/ Restart(disk)
<1> USE DEF vars, tableVars
<1>1. ASSUME NEW t \in Task, Progress(t), ~Commit(t)
      PROVE  UNCHANGED <<db, disk>> /\ flushed \subseteq flushed'
  BY <1>1 DEF Progress, ReadHighest, Reject, Execute, Flush, CommitFails,
              ReadNext, RebasePool, NotifyAll
<1>2. ASSUME NEW t \in Task,
             \/ \E block \in Block \ {Genesis}, proof \in Proof : Call(t, block, proof)
             \/ AcquireLock(t)
      PROVE  UNCHANGED <<db, disk, flushed>>
  BY <1>2 DEF Call, AcquireLock
<1>3. ASSUME NEW t \in Cancellable, Cancel(t)
      PROVE  UNCHANGED <<db, disk, flushed>>
  BY <1>3 DEF Cancel
<1>4. ASSUME NEW w \in Waiter, (\E b \in Block \ {Genesis} : WaitStart(w, Height[b])) \/ WaiterStep(w)
      PROVE  UNCHANGED <<db, disk, flushed>>
  BY <1>4 DEF WaitStart, WaiterStep, Listen, Query, Wake
<1>5. ASSUME NEW tx \in Tx, SendTx(tx)
      PROVE  UNCHANGED <<db, disk, flushed>>
  BY <1>5 DEF SendTx
<1>6. CASE UNCHANGED vars
  BY <1>6
<1>7. QED
  BY <1>1, <1>2, <1>3, <1>4, <1>5, <1>6 DEF Next, Environment

\* The tables stay sound, in the process and on disk.
LEMMA TablesStep ==
    CoreInv /\ [Next]_vars => TablesInv(db') /\ TablesInv(disk') /\ RootsDurable'
<1> SUFFICES ASSUME CoreInv, [Next]_vars
             PROVE  TablesInv(db') /\ TablesInv(disk') /\ RootsDurable'
  OBVIOUS
<1>0. TablesInv(db) /\ TablesInv(disk) /\ RootsDurable /\ CallsInv
  BY DEF CoreInv
<1>1. CASE UNCHANGED <<db, disk>> /\ flushed \subseteq flushed'
  BY <1>0, <1>1 DEF RootsDurable
<1>2. CASE Checkpoint
  BY <1>0, <1>2 DEF Checkpoint, RootsDurable
<1>3. ASSUME NEW j, Good(db, j), j.block \in flushed, ~HasHeight(db, Height[j.block]),
             db' = Insert(db, j.block, j.proof), UNCHANGED <<disk, flushed>>
      PROVE  TablesInv(db') /\ TablesInv(disk') /\ RootsDurable'
  <2>1. TablesInv(db')
    BY <1>0, <1>3, InsertKeepsTables
  <2>2. db'.history = db.history \cup {j.block}
    BY <1>3 DEF Insert
  <2>3. QED
    BY <1>0, <1>3, <2>1, <2>2 DEF RootsDurable
<1>4. ASSUME NEW t \in Task, Commit(t)
      PROVE  TablesInv(db') /\ TablesInv(disk') /\ RootsDurable'
  <2>1. Good(db, job[t]) /\ job[t].block \in flushed
    BY <1>0, <1>4 DEF Commit, CallsInv
  <2>2. QED
    BY <1>3, <1>4, <2>1 DEF Commit
<1>5. ASSUME NEW j \in detached, DetachedCommit(j)
      PROVE  TablesInv(db') /\ TablesInv(disk') /\ RootsDurable'
  <2>1. Good(db, j) /\ j.block \in flushed /\ UNCHANGED <<disk, flushed>>
    BY <1>0, <1>5 DEF DetachedCommit, CallsInv
  <2>2. CASE UNCHANGED db
    BY <1>0, <2>1, <2>2 DEF RootsDurable
  <2>3. CASE ~HasHeight(db, Height[j.block]) /\ db' = Insert(db, j.block, j.proof)
    BY <1>3, <2>1, <2>3
  <2>4. QED
    BY <1>5, <2>2, <2>3 DEF DetachedCommit
<1>6. CASE Restart(db) \/ Restart(disk)
  BY <1>0, <1>6 DEF Restart, RootsDurable
<1>7. QED
  BY <1>1, <1>2, <1>4, <1>5, <1>6, TableSteps

\* A call that passes the checks carries a good block: the tally used the
\* stake set rebuilt from the table, which is the one of the parent's header.
LEMMA CheckedIsGood ==
    ASSUME CoreInv, NEW t \in Task, pc[t] = "check", Applies(t)
    PROVE  Good(db, job[t])
<1>1. job[t] \in Job
  BY DEF CoreInv, TypeOK
<1>2. Known(db, tip[t])
  BY DEF CoreInv, CallsInv
<1>3. StakeSet(db, tip[t]) = StakesAfter[tip[t]]
  <2>1. CASE tip[t] = Genesis
    BY <2>1, StakesAssumption DEF StakeSet
  <2>2. CASE tip[t] \in db.history
    BY <2>2 DEF CoreInv, TablesInv, StakesMatch
  <2>3. QED
    BY <1>2, <2>1, <2>2 DEF Known
<1>4. QED
  BY <1>1, <1>2, <1>3 DEF Applies, Good, Known

\* What the running calls checked stays true of the tables.
LEMMA CallsStep == CoreInv /\ [Next]_vars => CallsInv'
<1> SUFFICES ASSUME CoreInv, [Next]_vars PROVE CallsInv'
  OBVIOUS
<1> USE DEF vars, tableVars, callVars
<1>0. CallsInv /\ pc \in [Task -> Critical \cup {"idle", "lock"}]
      /\ job \in [Task -> Job \cup {NoJob}] /\ tip \in [Task -> Block]
      /\ Known(db, Highest(db)) /\ Known(db, Genesis)
  BY HighestIsMax DEF CoreInv, TypeOK, Known
\* A step of task t that leaves the tables alone.
<1>1. ASSUME NEW t \in Task, UNCHANGED db, flushed \subseteq flushed', UNCHANGED detached,
             \A u \in Task \ {t} : /\ pc'[u] = pc[u] /\ job'[u] = job[u] /\ tip'[u] = tip[u],
             Known(db, tip'[t]),
             pc'[t] \in {"flush", "commit"} => Good(db, job'[t]),
             pc'[t] = "commit" => job'[t].block \in flushed'
      PROVE  CallsInv'
  BY <1>0, <1>1 DEF CallsInv
<1>2. ASSUME NEW t \in Task, NEW block \in Block, NEW proof \in Proof, Call(t, block, proof)
      PROVE  CallsInv'
  BY <1>0, <1>2, <1>1 DEF Call, CallsInv
<1>3. ASSUME NEW t \in Task, AcquireLock(t) PROVE CallsInv'
  BY <1>0, <1>3, <1>1 DEF AcquireLock, CallsInv
<1>4. ASSUME NEW t \in Task, ReadHighest(t) \/ ReadNext(t) PROVE CallsInv'
  BY <1>0, <1>4, <1>1 DEF ReadHighest, ReadNext, CallsInv
<1>5. ASSUME NEW t \in Task, Reject(t) \/ CommitFails(t) \/ NotifyAll(t) PROVE CallsInv'
  BY <1>0, <1>5, <1>1 DEF Reject, CommitFails, NotifyAll, Return, CallsInv
<1>6. ASSUME NEW t \in Task, Execute(t) PROVE CallsInv'
  <2>1. Good(db, job[t])
    BY <1>6, CheckedIsGood DEF Execute
  <2>2. QED
    BY <1>0, <1>6, <2>1, <1>1 DEF Execute, CallsInv
<1>7. ASSUME NEW t \in Task, Flush(t) PROVE CallsInv'
  BY <1>0, <1>7, <1>1 DEF Flush, CallsInv
<1>8. ASSUME NEW t \in Task, RebasePool(t) PROVE CallsInv'
  BY <1>0, <1>8, <1>1 DEF RebasePool, CallsInv
\* The steps that add a block: what was good stays good.
<1>9. ASSUME NEW j, db' = Insert(db, j.block, j.proof)
      PROVE  /\ \A i : Good(db, i) => Good(db', i)
             /\ \A b : Known(db, b) => Known(db', b)
  BY <1>9, InsertKeepsGood
<1>10. ASSUME NEW t \in Task, Commit(t) PROVE CallsInv'
  BY <1>0, <1>9, <1>10 DEF Commit, CallsInv
<1>11. ASSUME NEW j \in detached, DetachedCommit(j) PROVE CallsInv'
  <2>1. /\ \A i : Good(db, i) => Good(db', i)
        /\ \A b : Known(db, b) => Known(db', b)
    BY <1>9, <1>11 DEF DetachedCommit
  <2>2. QED
    BY <1>0, <1>11, <2>1 DEF DetachedCommit, CallsInv
<1>12. ASSUME NEW t \in Cancellable, Cancel(t) PROVE CallsInv'
  <2>1. t \in Task
    BY StorageAssumption
  <2>2. \A j \in detached' : Good(db, j) /\ j.block \in flushed
    BY <1>0, <1>12, <2>1 DEF Cancel, CallsInv
  <2>3. QED
    BY <1>0, <1>12, <2>1, <2>2 DEF Cancel, Return, CallsInv
<1>13. ASSUME NEW w \in Waiter, (\E b \in Block \ {Genesis} : WaitStart(w, Height[b])) \/ WaiterStep(w)
       PROVE  UNCHANGED <<db, flushed, callVars>>
  BY <1>13 DEF WaitStart, WaiterStep, Listen, Query, Wake
<1>14. ASSUME NEW tx \in Tx, SendTx(tx)
       PROVE  UNCHANGED <<db, flushed, callVars>>
  BY <1>14 DEF SendTx
<1>15. CASE UNCHANGED <<db, flushed, callVars>>
  BY <1>0, <1>15 DEF CallsInv
<1>16. CASE Checkpoint
  BY <1>15, <1>16 DEF Checkpoint
<1>17. ASSUME NEW d, Restart(d) PROVE CallsInv'
  BY <1>17 DEF Restart, CallsInv, Known
<1>18. CASE UNCHANGED vars
  BY <1>15, <1>18
<1>19. QED
  BY <1>2, <1>3, <1>4, <1>5, <1>6, <1>7, <1>8, <1>10, <1>11, <1>12, <1>13, <1>14,
     <1>15, <1>16, <1>17, <1>18 DEF Next, Progress, Environment

\* The steps that touch the mempool.
LEMMA MempoolSteps ==
    ASSUME [Next]_vars
    PROVE  \/ UNCHANGED mempoolVars
           \/ \E tx \in Tx : SendTx(tx)
           \/ \E t \in Task : RebasePool(t)
           \/ Restart(db) \/ Restart(disk)
<1> USE DEF vars
<1>1. ASSUME NEW t \in Task, Progress(t), ~RebasePool(t)
      PROVE  UNCHANGED mempoolVars
  BY <1>1 DEF Progress, ReadHighest, Reject, Execute, Flush, Commit, CommitFails,
              ReadNext, NotifyAll
<1>2. ASSUME NEW t \in Task,
             \/ \E block \in Block \ {Genesis}, proof \in Proof : Call(t, block, proof)
             \/ AcquireLock(t)
      PROVE  UNCHANGED mempoolVars
  BY <1>2 DEF Call, AcquireLock
<1>3. ASSUME NEW t \in Cancellable, Cancel(t)
      PROVE  UNCHANGED mempoolVars
  BY <1>3 DEF Cancel
<1>4. ASSUME NEW w \in Waiter, (\E b \in Block \ {Genesis} : WaitStart(w, Height[b])) \/ WaiterStep(w)
      PROVE  UNCHANGED mempoolVars
  BY <1>4 DEF WaitStart, WaiterStep, Listen, Query, Wake
<1>5. ASSUME NEW j \in detached, DetachedCommit(j)
      PROVE  UNCHANGED mempoolVars
  BY <1>5 DEF DetachedCommit
<1>6. CASE Checkpoint
  BY <1>6 DEF Checkpoint
<1>7. CASE UNCHANGED vars
  BY <1>7
<1>8. QED
  BY <1>1, <1>2, <1>3, <1>4, <1>5, <1>6, <1>7 DEF Next, Environment

\* Only a rebase or a restart moves its base.
LEMMA BaseSteps ==
    ASSUME [Next]_vars
    PROVE  \/ UNCHANGED mpBase
           \/ \E t \in Task : RebasePool(t)
           \/ Restart(db) \/ Restart(disk)
BY MempoolSteps DEF mempoolVars, SendTx, ApplyTransaction

\* A task about to rebase was there before, or has just read the highest
\* block.
LEMMA AboutToRebase ==
    ASSUME IInv, [Next]_vars, NEW u \in Task, pc'[u] = "rebase"
    PROVE  \/ pc[u] = "rebase" /\ tip'[u] = tip[u]
           \/ tip'[u] = Highest(db) /\ ReadNext(u)
<1> USE DEF vars, callVars
<1>0. pc \in [Task -> Critical \cup {"idle", "lock"}] /\ tip \in [Task -> Block]
  BY DEF IInv, CoreInv, TypeOK
<1>1. ASSUME NEW t \in Task, Progress(t)
      PROVE  \/ pc[u] = "rebase" /\ tip'[u] = tip[u]
             \/ tip'[u] = Highest(db) /\ ReadNext(u)
  <2>1. CASE ReadNext(t)
    BY <1>0, <2>1 DEF ReadNext
  <2>2. CASE ~ReadNext(t)
    BY <1>0, <1>1, <2>2 DEF Progress, ReadHighest, Reject, Execute, Flush, Commit,
       CommitFails, RebasePool, NotifyAll, Return
  <2>3. QED
    BY <2>1, <2>2
<1>2. ASSUME NEW t \in Task,
             \/ \E block \in Block \ {Genesis}, proof \in Proof : Call(t, block, proof)
             \/ AcquireLock(t)
      PROVE  pc[u] = "rebase" /\ tip'[u] = tip[u]
  BY <1>0, <1>2 DEF Call, AcquireLock
<1>3. ASSUME NEW t \in Cancellable, Cancel(t)
      PROVE  pc[u] = "rebase" /\ tip'[u] = tip[u]
  BY <1>0, <1>3, StorageAssumption DEF Cancel, Return
<1>4. ASSUME NEW w \in Waiter, (\E b \in Block \ {Genesis} : WaitStart(w, Height[b])) \/ WaiterStep(w)
      PROVE  UNCHANGED callVars
  BY <1>4 DEF WaitStart, WaiterStep, Listen, Query, Wake
<1>5. ASSUME NEW tx \in Tx, SendTx(tx)
      PROVE  UNCHANGED callVars
  BY <1>5 DEF SendTx
<1>6. ASSUME NEW j \in detached, DetachedCommit(j)
      PROVE  UNCHANGED <<pc, tip>>
  BY <1>6 DEF DetachedCommit
<1>7. CASE Checkpoint
  BY <1>7 DEF Checkpoint
<1>8. ASSUME NEW d, Restart(d) PROVE FALSE
  BY <1>8 DEF Restart
<1>9. CASE UNCHANGED vars
  BY <1>9
<1>10. QED
  BY <1>1, <1>2, <1>3, <1>4, <1>5, <1>6, <1>7, <1>8, <1>9 DEF Next, Environment

\* So does what the mempool is about.
LEMMA PoolStep == IInv /\ [Next]_vars => PoolInv'
<1> SUFFICES ASSUME IInv, [Next]_vars PROVE PoolInv'
  OBVIOUS
<1>0. /\ TypeOK /\ TypeOK' /\ PoolInv /\ TablesInv(db)
      /\ \A t \in Task : Known(db, tip[t])
      /\ \A b \in Block : Height[b] \in Nat
  BY TypeStep, ChainAssumption DEF IInv, CoreInv, CallsInv
<1>1. Known(db', mpBase) \/ Restart(db) \/ Restart(disk)
  <2>1. CASE UNCHANGED <<db, disk>>
    BY <1>0, <2>1 DEF PoolInv, Known
  <2>2. CASE Checkpoint
    BY <1>0, <2>2 DEF Checkpoint, PoolInv, tableVars
  <2>3. ASSUME NEW t \in Task, Commit(t) PROVE Known(db', mpBase)
    BY <1>0, <2>3, InsertKeepsGood DEF Commit, PoolInv
  <2>4. ASSUME NEW j \in detached, DetachedCommit(j) PROVE Known(db', mpBase)
    BY <1>0, <2>4, InsertKeepsGood DEF DetachedCommit, PoolInv
  <2>5. QED
    BY <2>1, <2>2, <2>3, <2>4, TableSteps
<1>2. CASE UNCHANGED mpBase
  <2>1. Known(db', mpBase')
    BY <1>1, <1>2, ChainAssumption DEF Restart, FreshMempool, Known
  <2>2. ASSUME NEW u \in Task, pc'[u] = "rebase"
        PROVE  Height[mpBase'] <= Height[tip'[u]]
    BY <1>0, <1>2, <2>2, AboutToRebase, HighestIsMax DEF PoolInv, Known
  <2>3. QED
    BY <2>1, <2>2 DEF PoolInv
<1>3. ASSUME NEW t \in Task, RebasePool(t) PROVE PoolInv'
  <2>1. mpBase' = tip[t] /\ UNCHANGED db /\ pc'[t] = "notify" /\ tip' = tip
    BY <1>0, <1>3 DEF RebasePool, Rebase, tableVars, TypeOK
  <2>2. \A u \in Task : pc'[u] # "rebase"
    BY <1>0, <2>1 DEF TypeOK, Critical
  <2>3. QED
    BY <1>0, <2>1, <2>2 DEF PoolInv, Known
<1>4. ASSUME NEW d, Restart(d) PROVE PoolInv'
  BY <1>4 DEF Restart, FreshMempool, PoolInv, Known
<1>5. QED
  BY <1>2, <1>3, <1>4, BaseSteps

\* IInv in every reachable state.
LEMMA Invariance == Spec => []IInv
<1>1. IInv /\ [Next]_vars => IInv'
  BY TypeStep, TablesStep, CallsStep, PoolStep DEF IInv, CoreInv
<1>2. QED
  BY <1>1, InitIInv, PTL DEF Spec

-----------------------------------------------------------------------------
(* The mempool.                                                             *)

\* The coins of the pool are those of its base and those its transactions
\* made; the transactions do not compete for coins, all were seen, and none of
\* them is confirmed in the base.
PoolFits ==
    /\ mpTxs \subseteq mpSeen
    /\ mpCoins \subseteq UnspentAfter[mpBase] \cup UNION {Makes[u] : u \in mpTxs}
    /\ \A t \in mpTxs : Spends[t] \cap mpCoins = {}
    /\ \A t \in mpTxs : \A txs \in SUBSET Tx : Confirms(mpBase, txs) => t \notin txs
    /\ PoolMakesABlock

\* An empty pool on any base.
LEMMA EmptyPoolFits ==
    ASSUME mpTxs' = {}, mpCoins' = UnspentAfter[mpBase']
    PROVE  PoolFits'
BY DEF PoolFits, PoolMakesABlock

\* A transaction whose coins are all there can join: it is not a confirmed one,
\* so what it makes is new.
LEMMA ApplyKeepsPool ==
    ASSUME MempoolTypeOK, PoolFits, NEW tx \in Tx, ApplyTransaction(tx)
    PROVE  PoolFits'
<1>0. /\ mpBase \in Block /\ mpTxs \subseteq Tx /\ tx \notin mpTxs /\ mpBase' = mpBase
      /\ mpSeen' = mpSeen \cup {tx}
  BY DEF MempoolTypeOK, PoolFits, ApplyTransaction
<1>1. CASE ~(Spends[tx] \subseteq mpCoins)
  BY <1>0, <1>1 DEF ApplyTransaction, PoolFits, PoolMakesABlock
<1>2. CASE Spends[tx] \subseteq mpCoins
  <2>0. mpCoins' = (mpCoins \ Spends[tx]) \cup Makes[tx] /\ mpTxs' = mpTxs \cup {tx}
    BY <1>2 DEF ApplyTransaction
  <2>1. ASSUME NEW txs \in SUBSET Tx, Confirms(mpBase, txs)
        PROVE  tx \notin txs /\ Makes[tx] \cap UnspentAfter[mpBase] = {}
    <3>1. ASSUME tx \in txs PROVE FALSE
      <4>1. PICK c \in Spends[tx] : /\ c \notin UnspentAfter[mpBase]
                                    /\ \A u \in Tx : c \in Makes[u] => u \in txs
        BY <2>1, <3>1 DEF Confirms
      <4>2. PICK u \in mpTxs : c \in Makes[u]
        BY <1>2, <4>1 DEF PoolFits
      <4>3. u \in txs
        BY <1>0, <4>1, <4>2
      <4>4. QED
        BY <2>1, <4>2, <4>3 DEF PoolFits
    <3>2. QED
      BY <2>1, <3>1 DEF Confirms
  <2>2. Makes[tx] \cap UnspentAfter[mpBase] = {}
    BY <1>0, <2>1, CoinAssumption
  <2>3. \A t \in mpTxs : Makes[tx] \cap Spends[t] = {}
    <3> SUFFICES ASSUME NEW t \in mpTxs, NEW c \in Makes[tx], c \in Spends[t]
                 PROVE  FALSE
      OBVIOUS
    <3>1. c \in UnspentAfter[mpBase] \cup UNION {Makes[u] : u \in mpTxs \ {t}}
      BY DEF PoolFits, PoolMakesABlock
    <3>2. PICK u \in mpTxs : c \in Makes[u]
      BY <2>2, <3>1
    <3>3. QED
      BY <1>0, <3>2, CoinAssumption
  <2>4. Makes[tx] \cap Spends[tx] = {}
    <3> SUFFICES ASSUME NEW c \in Makes[tx], c \in Spends[tx]
                 PROVE  FALSE
      OBVIOUS
    <3>1. PICK u \in mpTxs : c \in Makes[u]
      BY <1>2, <2>2 DEF PoolFits
    <3>2. QED
      BY <1>0, <3>1, CoinAssumption
  <2>5. /\ mpTxs' \subseteq mpSeen'
        /\ mpCoins' \subseteq UnspentAfter[mpBase'] \cup UNION {Makes[u] : u \in mpTxs'}
    BY <1>0, <2>0 DEF PoolFits
  <2>6. \A t \in mpTxs' : Spends[t] \cap mpCoins' = {}
    BY <1>0, <2>0, <2>3, <2>4 DEF PoolFits
  <2>7. \A t \in mpTxs' : \A txs \in SUBSET Tx : Confirms(mpBase, txs) => t \notin txs
    BY <2>0, <2>1 DEF PoolFits
  <2>8. \A t, u \in mpTxs' : t # u => Spends[t] \cap Spends[u] = {}
    BY <1>2, <2>0 DEF PoolFits, PoolMakesABlock
  <2>9. \A t \in mpTxs' : Spends[t] \subseteq
            UnspentAfter[mpBase] \cup UNION {Makes[u] : u \in mpTxs' \ {t}}
    <3> SUFFICES ASSUME NEW t \in mpTxs', NEW c \in Spends[t], c \notin UnspentAfter[mpBase]
                 PROVE  \E u \in mpTxs' \ {t} : c \in Makes[u]
      OBVIOUS
    <3>1. CASE t \in mpTxs
      <4>1. PICK u \in mpTxs \ {t} : c \in Makes[u]
        BY <3>1 DEF PoolFits, PoolMakesABlock
      <4>2. QED
        BY <2>0, <4>1
    <3>2. CASE t = tx
      <4>1. PICK u \in mpTxs : c \in Makes[u]
        BY <1>2, <3>2 DEF PoolFits
      <4>2. QED
        BY <1>0, <2>0, <3>2, <4>1
    <3>3. QED
      BY <2>0, <3>1, <3>2
  <2>10. QED
    BY <1>0, <2>5, <2>6, <2>7, <2>8, <2>9 DEF PoolFits, PoolMakesABlock, Confirms
<1>3. QED
  BY <1>1, <1>2

\* The mempool fits its base whatever is done.
LEMMA PoolFitsStep == IInv /\ PoolFits /\ [Next]_vars => PoolFits'
<1> SUFFICES ASSUME IInv, PoolFits, [Next]_vars PROVE PoolFits'
  OBVIOUS
<1>1. CASE UNCHANGED mempoolVars
  BY <1>1 DEF mempoolVars, PoolFits, PoolMakesABlock, Confirms
<1>2. ASSUME NEW tx \in Tx, SendTx(tx) PROVE PoolFits'
  BY <1>2, ApplyKeepsPool DEF SendTx, IInv, CoreInv, TypeOK
<1>3. ASSUME NEW t \in Task, RebasePool(t) PROVE PoolFits'
  BY <1>3, EmptyPoolFits DEF RebasePool, Rebase
<1>4. ASSUME NEW d, Restart(d) PROVE PoolFits'
  BY <1>4, EmptyPoolFits DEF Restart, FreshMempool
<1>5. QED
  BY <1>1, <1>2, <1>3, <1>4, MempoolSteps

\* What the pool weighs; it is finite because transactions come one by one, and
\* none is counted twice because all in the pool were seen.
PoolWeighs == IsFiniteSet(mpTxs) /\ mpTxs \subseteq mpSeen /\ PoolWeight

\* The weight of transactions is a sum.
LEMMA WeightIsTotal == \A txs : WeightOf(txs) = Total(Weight, txs)
BY DEF WeightOf, Total

\* An empty mempool weighs nothing.
LEMMA EmptyPoolWeighs ==
    ASSUME mpTxs' = {}, mpWeight' = 0
    PROVE  PoolWeighs'
<1>1. IsFiniteSet({}) /\ WeightOf({}) = 0
  BY FS_EmptySet, TotalFacts, WeightIsTotal
<1>2. QED
  BY <1>1 DEF PoolWeighs, PoolWeight

\* A transaction that joins adds its weight, and it joined below the limit.
LEMMA ApplyKeepsWeight ==
    ASSUME MempoolTypeOK, PoolWeighs, NEW tx \in Tx, ApplyTransaction(tx)
    PROVE  PoolWeighs'
<1>1. CASE ~(Spends[tx] \subseteq mpCoins)
  BY <1>1 DEF ApplyTransaction, PoolWeighs, PoolWeight
<1>2. CASE Spends[tx] \subseteq mpCoins
  <2> DEFINE pool == mpTxs \cup {tx}
  <2>1. /\ mpTxs' = pool /\ mpWeight' = mpWeight + Weight[tx] /\ mpWeight < WeightLimit
        /\ mpSeen' = mpSeen \cup {tx} /\ tx \notin mpTxs
    BY <1>2 DEF ApplyTransaction, PoolWeighs
  <2>2. IsFiniteSet(pool)
    BY FS_AddElement DEF PoolWeighs
  <2>3. \A t \in pool : Weight[t] \in Nat
    BY TxAssumption DEF MempoolTypeOK
  <2>4. pool \ {tx} = mpTxs
    BY <2>1
  <2>5. Total(Weight, pool) = Total(Weight, mpTxs) + Weight[tx]
    <3>1. Total(Weight, pool) = Total(Weight, pool \ {tx}) + Weight[tx]
      <4>1. pool \in SUBSET pool /\ tx \in pool
        OBVIOUS
      <4> HIDE DEF pool
      <4>2. QED
        BY <2>2, <2>3, <4>1, TotalFacts
    <3>2. QED
      BY <2>4, <3>1
  <2>6. mpWeight = Total(Weight, mpTxs)
    BY WeightIsTotal DEF PoolWeighs, PoolWeight
  <2> HIDE DEF pool
  <2>7. mpWeight' = WeightOf(mpTxs')
    BY <2>1, <2>5, <2>6, WeightIsTotal
  <2>8. \E t \in mpTxs' : mpWeight' - Weight[t] < WeightLimit
    <3>1. tx \in mpTxs' /\ Weight[tx] \in Nat /\ mpWeight \in Nat
      BY <2>1, TxAssumption DEF MempoolTypeOK, pool
    <3>2. mpWeight' - Weight[tx] = mpWeight
      BY <2>1, <3>1
    <3>3. QED
      BY <2>1, <3>1, <3>2
  <2>9. QED
    BY <2>1, <2>2, <2>7, <2>8 DEF PoolWeighs, PoolWeight, pool
<1>3. QED
  BY <1>1, <1>2

\* The weight counted stays the weight of what is pooled.
LEMMA PoolWeighsStep == IInv /\ PoolWeighs /\ [Next]_vars => PoolWeighs'
<1> SUFFICES ASSUME IInv, PoolWeighs, [Next]_vars PROVE PoolWeighs'
  OBVIOUS
<1>1. CASE UNCHANGED mempoolVars
  BY <1>1 DEF mempoolVars, PoolWeighs, PoolWeight
<1>2. ASSUME NEW tx \in Tx, SendTx(tx) PROVE PoolWeighs'
  BY <1>2, ApplyKeepsWeight DEF SendTx, IInv, CoreInv, TypeOK
<1>3. ASSUME NEW t \in Task, RebasePool(t) PROVE PoolWeighs'
  BY <1>3, EmptyPoolWeighs DEF RebasePool, Rebase
<1>4. ASSUME NEW d, Restart(d) PROVE PoolWeighs'
  BY <1>4, EmptyPoolWeighs DEF Restart, FreshMempool
<1>5. QED
  BY <1>1, <1>2, <1>3, <1>4, MempoolSteps

\* Where the mempool may be behind the tables when no call is dropped: only
\* between a commit and the rebase of the same call.
FollowInv ==
    /\ detached = {}
    /\ \A t \in Task : pc[t] = "rebase" => tip[t] = Highest(db)
    /\ \/ mpHeight = 0
       \/ mpBase = Highest(db)
       \/ \E t \in Task : pc[t] \in {"next", "rebase"}

\* Only a call between its commit and its rebase leaves the mempool behind.
LEMMA FollowStep ==
    ASSUME Cancellable = {}
    PROVE  IInv /\ FollowInv /\ [Next]_vars => FollowInv'
<1> SUFFICES ASSUME IInv, FollowInv, [Next]_vars PROVE FollowInv'
  OBVIOUS
<1> USE DEF FollowInv, mempoolVars, tableVars, callVars
<1>0. /\ pc \in [Task -> Critical \cup {"idle", "lock"}] /\ tip \in [Task -> Block]
      /\ \A t, u \in Task : pc[t] \in Critical /\ pc[u] \in Critical => t = u
  BY DEF IInv, CoreInv, TypeOK
\* Steps of a call before its commit or after its rebase.
<1>1. ASSUME NEW t \in Task, UNCHANGED <<mpHeight, mpBase, db, detached>>,
             pc[t] \notin {"next", "rebase"}, pc'[t] # "rebase",
             \A u \in Task \ {t} : pc'[u] = pc[u] /\ tip'[u] = tip[u]
      PROVE  FollowInv'
  <2>1. Highest(db)' = Highest(db)
    BY <1>1
  <2>2. QED
    BY <1>0, <1>1, <2>1
<1>2. ASSUME NEW t \in Task, NEW block, NEW proof, Call(t, block, proof) PROVE FollowInv'
  BY <1>0, <1>1, <1>2 DEF Call
<1>3. ASSUME NEW t \in Task, AcquireLock(t) PROVE FollowInv'
  BY <1>0, <1>1, <1>3 DEF AcquireLock
<1>4. ASSUME NEW t \in Task, ReadHighest(t) \/ Execute(t) \/ Flush(t) PROVE FollowInv'
  BY <1>0, <1>1, <1>4 DEF ReadHighest, Execute, Flush
<1>5. ASSUME NEW t \in Task, Reject(t) \/ CommitFails(t) \/ NotifyAll(t) PROVE FollowInv'
  BY <1>0, <1>1, <1>5 DEF Reject, CommitFails, NotifyAll, Return
<1>6. ASSUME NEW t \in Task, Commit(t) PROVE FollowInv'
  BY <1>0, <1>6 DEF Commit, Critical
<1>7. ASSUME NEW t \in Task, ReadNext(t) PROVE FollowInv'
  <2>1. Highest(db)' = Highest(db) /\ pc'[t] = "rebase" /\ tip'[t] = Highest(db)
        /\ UNCHANGED detached /\ \A u \in Task \ {t} : pc'[u] = pc[u] /\ tip'[u] = tip[u]
    BY <1>0, <1>7 DEF ReadNext
  <2>2. QED
    BY <2>1
<1>8. ASSUME NEW t \in Task, RebasePool(t) PROVE FollowInv'
  <2>1. Highest(db)' = Highest(db) /\ mpBase' = tip[t] /\ tip[t] = Highest(db)
        /\ UNCHANGED <<detached, tip>> /\ pc' = [pc EXCEPT ![t] = "notify"]
    BY <1>8 DEF RebasePool, Rebase
  <2>2. QED
    BY <1>0, <2>1
<1>9. ASSUME NEW w \in Waiter, (\E b \in Block \ {Genesis} : WaitStart(w, Height[b])) \/ WaiterStep(w)
      PROVE  UNCHANGED <<mpHeight, mpBase, db, pc, tip, detached>>
  BY <1>9 DEF WaitStart, WaiterStep, Listen, Query, Wake
<1>10. ASSUME NEW tx \in Tx, SendTx(tx)
       PROVE  UNCHANGED <<mpHeight, mpBase, db, pc, tip, detached>>
  BY <1>10 DEF SendTx, ApplyTransaction
<1>11. CASE Checkpoint \/ UNCHANGED vars
  BY <1>11 DEF Checkpoint, vars
<1>12. CASE UNCHANGED <<mpHeight, mpBase, db, pc, tip, detached>>
  <2>1. Highest(db)' = Highest(db)
    BY <1>12
  <2>2. QED
    BY <1>12, <2>1
<1>13. ASSUME NEW d, Restart(d) PROVE FollowInv'
  BY <1>13 DEF Restart, FreshMempool
<1>14. QED
  BY <1>2, <1>3, <1>4, <1>5, <1>6, <1>7, <1>8, <1>9, <1>10, <1>11, <1>12, <1>13
     DEF Next, Progress, Environment

-----------------------------------------------------------------------------
(* The theorems.                                                            *)

\* The state of the storage keeps its types, and a task is past the mutex
\* exactly when it holds it.
THEOREM StorageTypeOK == Spec => []TypeOK
<1>1. IInv => TypeOK
  BY DEF IInv, CoreInv
<1>2. QED
  BY <1>1, Invariance, PTL

\* The history, and what a power loss leaves of it, is one chain of blocks with
\* the proofs that passed.
THEOREM StorageHistoryIsChain == Spec => []HistoryIsChain
<1>1. IInv => HistoryIsChain
  BY DEF IInv, CoreInv, TablesInv, HistoryIsChain
<1>2. QED
  BY <1>1, Invariance, PTL

\* The states of stored blocks have their merkle nodes on disk.
THEOREM StorageRootsDurable == Spec => []RootsDurable
<1>1. IInv => RootsDurable
  BY DEF IInv, CoreInv
<1>2. QED
  BY <1>1, Invariance, PTL

\* The assertion of get_state never fails, as long as the stakes table copies
\* what melstf registers (MirrorAssumption).
THEOREM StorageStakesMatchHeader == Spec => []StakesMatchHeader
<1>1. IInv => StakesMatchHeader
  BY DEF IInv, CoreInv, TablesInv, StakesMatch, StakesMatchHeader
<1>2. QED
  BY <1>1, Invariance, PTL

\* The mempool never moves back to an older base unless the process starts
\* over.
THEOREM StorageMempoolNeverRegresses == Spec => MempoolNeverRegresses
<1>1. IInv /\ [Next]_vars => [Height[mpBase'] >= Height[mpBase] \/ mpHeight' = 0]_vars
  <2> SUFFICES ASSUME IInv, [Next]_vars
               PROVE  Height[mpBase'] >= Height[mpBase] \/ mpHeight' = 0
    OBVIOUS
  <2>0. mpBase \in Block /\ \A b \in Block : Height[b] \in Nat
    BY ChainAssumption DEF IInv, CoreInv, TypeOK, MempoolTypeOK
  <2>1. CASE UNCHANGED mpBase
    BY <2>0, <2>1
  <2>2. ASSUME NEW t \in Task, RebasePool(t) PROVE Height[mpBase'] >= Height[mpBase]
    <3>1. mpBase' = tip[t] /\ tip[t] \in Block /\ Height[mpBase] <= Height[tip[t]]
      BY <2>2 DEF RebasePool, Rebase, IInv, CoreInv, PoolInv, TypeOK
    <3>2. QED
      BY <2>0, <3>1
  <2>3. ASSUME NEW d, Restart(d) PROVE mpHeight' = 0
    BY <2>3 DEF Restart, FreshMempool
  <2>4. QED
    BY <2>1, <2>2, <2>3, BaseSteps
<1>2. QED
  BY <1>1, Invariance, PTL DEF Spec, MempoolNeverRegresses

\* For any transactions and any order of them around any rebases, the pool is a
\* block on its base: Mempool::apply_transaction and rebase never let a
\* conflicting or confirmed transaction stay.
THEOREM StoragePoolMakesABlock == Spec => []PoolMakesABlock
<1>1. Init => PoolFits
  BY DEF Init, MempoolInit, PoolFits, PoolMakesABlock
<1>2. PoolFits => PoolMakesABlock
  BY DEF PoolFits
<1>3. QED
  BY <1>1, <1>2, PoolFitsStep, Invariance, PTL DEF Spec

\* next_weight is at all times the weight of the transactions in the pool, for
\* any transactions and weights, and at most the last one overshot the limit.
THEOREM StoragePoolWeight == Spec => []PoolWeight
<1>1. Init => PoolWeighs
  <2>1. IsFiniteSet({}) /\ WeightOf({}) = 0
    BY FS_EmptySet, TotalFacts, WeightIsTotal
  <2>2. QED
    BY <2>1 DEF Init, MempoolInit, PoolWeighs, PoolWeight
<1>2. PoolWeighs => PoolWeight
  BY DEF PoolWeighs
<1>3. QED
  BY <1>1, <1>2, PoolWeighsStep, Invariance, PTL DEF Spec

\* Where no call of apply_block is dropped half way, the mempool builds on the
\* highest block whenever no call is under way: of calls that overlap the one
\* that commits last rebases last.
THEOREM StorageMempoolFollowsTip ==
    ASSUME Cancellable = {}
    PROVE  Spec => []MempoolFollowsTip
<1>1. Init => FollowInv
  BY DEF Init, MempoolInit, FollowInv
<1>2. IInv /\ FollowInv /\ [Next]_vars => FollowInv'
  BY FollowStep
<1>3. IInv /\ FollowInv => MempoolFollowsTip
  BY StorageAssumption DEF IInv, CoreInv, TypeOK, FollowInv, MempoolFollowsTip, Critical
<1>4. QED
  BY <1>1, <1>2, <1>3, Invariance, PTL DEF Spec

-----------------------------------------------------------------------------
(* The storage implements the ledger: under the mapping of Storage, which   *)
(* lists the history in the order of heights, every step of the storage     *)
(* appends one block, syncs, falls back to what was synced, or changes      *)
(* nothing of the chain.  What the mapping needs besides IInv is that the   *)
(* heights are 1 to n without a gap, that there is one proof per height,    *)
(* and that the synced tables are a part of the tables.                     *)

Size(d) == Cardinality(d.history)

\* The history counts: its heights are 1 to its size, each with one proof.
Numbered(d) ==
    /\ IsFiniteSet(d.history)
    /\ \A b \in d.history : Height[b] \in 1 .. Size(d)
    /\ \A h \in 1 .. Size(d) : HasHeight(d, h)
    /\ \A r, s \in d.proofs : r.height = s.height => r = s

DiskIsPart == disk.history \subseteq db.history /\ disk.proofs \subseteq db.proofs

LedgerInv == Numbered(db) /\ Numbered(disk) /\ DiskIsPart

Entry == [block : Block, proof : Proof]

-----------------------------------------------------------------------------
(* The mapping.                                                             *)

\* The n-th entry is the stored block of height n with the proof of height n.
LEMMA EntryAt ==
    ASSUME NEW d, TablesInv(d), Numbered(d), NEW h \in 1 .. Size(d)
    PROVE  /\ Entries(d)[h] \in Entry
           /\ Entries(d)[h].block \in d.history
           /\ Height[Entries(d)[h].block] = h
           /\ \A b \in d.history : Height[b] = h => Entries(d)[h].block = b
           /\ \A r \in d.proofs : r.height = h => Entries(d)[h].proof = r.proof
<1> DEFINE b0 == CHOOSE b \in d.history : Height[b] = h
           r0 == CHOOSE r \in d.proofs : r.height = h
<1>1. b0 \in d.history /\ Height[b0] = h
  BY DEF Numbered, HasHeight
<1>2. r0 \in d.proofs /\ r0.height = h
  BY <1>1 DEF TablesInv, ChainOfProofs
<1>3. Entries(d)[h] = [block |-> b0, proof |-> r0.proof]
  BY DEF Entries, Size
<1>4. b0 \in Block /\ r0.proof \in Proof
  BY <1>1, <1>2 DEF TablesInv, TablesTypeOK
<1>5. \A b \in d.history : Height[b] = h => b0 = b
  BY <1>1 DEF TablesInv, ChainOfProofs
<1>6. \A r \in d.proofs : r.height = h => r0 = r
  BY <1>2 DEF Numbered
<1> HIDE DEF b0, r0
<1>7. QED
  BY <1>1, <1>3, <1>4, <1>5, <1>6 DEF Entry

\* The rows of history and proofs, by height, are a ledger.
LEMMA EntriesIsSeq ==
    ASSUME NEW d, TablesInv(d), Numbered(d)
    PROVE  Entries(d) \in Seq(Entry) /\ Len(Entries(d)) = Size(d) /\ Size(d) \in Nat
<1>1. Size(d) \in Nat
  BY FS_CardinalityType DEF Numbered, Size
<1>2. \A h \in 1 .. Size(d) : Entries(d)[h] \in Entry
  BY EntryAt
<1>3. DOMAIN Entries(d) = 1 .. Size(d)
  BY DEF Entries, Size
<1>4. Entries(d) = [h \in 1 .. Size(d) |-> Entries(d)[h]]
  BY <1>3 DEF Entries, Size
<1>5. Entries(d) \in [1 .. Size(d) -> Entry]
  BY <1>2, <1>4
<1>6. QED
  BY <1>1, <1>5, SeqDef

\* A good block of a free height is one above the others, on the tip.
LEMMA GoodIsNext ==
    ASSUME NEW d, TablesInv(d), Numbered(d), NEW j, Good(d, j),
           ~HasHeight(d, Height[j.block])
    PROVE  /\ Height[j.block] = Size(d) + 1
           /\ Prev[j.block] = L!Tip(Entries(d))
<1> DEFINE b == j.block
           p == Prev[b]
           n == Size(d)
<1>1. /\ b \in Block /\ Height[b] \in Nat \ {0} /\ p \in Block
      /\ \A c \in d.history : Height[c] \in Nat /\ Height[c] < Height[b]
  BY FreeHeightIsNext
<1>2. n \in Nat /\ Entries(d) \in Seq(Entry) /\ Len(Entries(d)) = n
  BY EntriesIsSeq
<1>3. p \in d.history \cup {Genesis} /\ Height[b] = Height[p] + 1 /\ Height[p] \in Nat
  BY <1>1, ChainAssumption DEF Good
<1>4. CASE n = 0
  <2>1. d.history = {} /\ p = Genesis
    BY <1>2, <1>3, <1>4 DEF Numbered
  <2>2. Entries(d) = <<>>
    BY <1>2, <1>4, EmptySeq
  <2>3. QED
    BY <1>3, <1>4, <2>1, <2>2, ChainAssumption DEF L!Tip
<1>5. CASE n # 0
  <2>1. n \in 1 .. n
    BY <1>2, <1>5
  <2>2. PICK c \in d.history : Height[c] = n
    BY <2>1 DEF Numbered, HasHeight
  <2>3. n < Height[b]
    BY <1>1, <2>2
  <2>4. Height[p] = n /\ p \in d.history
    <3>1. Height[p] >= n
      BY <1>2, <1>3, <2>3
    <3>2. p # Genesis
      BY <1>2, <1>5, <3>1, ChainAssumption
    <3>3. p \in d.history /\ Height[p] <= n
      BY <1>2, <1>3, <3>2 DEF Numbered
    <3>4. QED
      BY <1>2, <1>3, <3>1, <3>3
  <2>5. Entries(d) # <<>>
    BY <1>2, <1>5, EmptySeq
  <2>6. Entries(d)[n].block = p
    BY <2>1, <2>4, EntryAt
  <2>7. QED
    BY <1>2, <1>3, <2>4, <2>5, <2>6 DEF L!Tip
<1>6. QED
  BY <1>4, <1>5

\* A commit of the next block numbers the rows on.
LEMMA InsertNumbers ==
    ASSUME NEW d, TablesInv(d), Numbered(d), NEW j, Good(d, j),
           ~HasHeight(d, Height[j.block])
    PROVE  /\ Numbered(Insert(d, j.block, j.proof))
           /\ Size(Insert(d, j.block, j.proof)) = Size(d) + 1
<1> DEFINE b == j.block
           e == Insert(d, b, j.proof)
           n == Size(d)
           row == [height |-> Height[b], proof |-> j.proof]
<1>1. /\ e.history = d.history \cup {b}
      /\ e.proofs = d.proofs \cup {row}
  BY DEF Insert
<1>2. n \in Nat /\ Height[b] = n + 1
  BY EntriesIsSeq, GoodIsNext
<1>3. b \notin d.history
  BY DEF HasHeight
<1>4. IsFiniteSet(e.history) /\ Size(e) = n + 1
  <2>1. IsFiniteSet(d.history)
    BY DEF Numbered
  <2>2. /\ IsFiniteSet(d.history \cup {b})
        /\ Cardinality(d.history \cup {b}) = Cardinality(d.history) + 1
    BY <1>3, <2>1, FS_AddElement
  <2>3. QED
    BY <1>1, <2>2 DEF Size
<1>5. \A c \in e.history : Height[c] \in 1 .. n + 1
  BY <1>1, <1>2 DEF Numbered
<1>6. ASSUME NEW h \in 1 .. n + 1 PROVE HasHeight(e, h)
  <2>1. CASE h = n + 1
    BY <1>1, <1>2, <2>1 DEF HasHeight
  <2>2. CASE h \in 1 .. n
    BY <1>1, <2>2 DEF Numbered, HasHeight
  <2>3. QED
    BY <1>2, <2>1, <2>2
<1>7. \A r \in d.proofs : r.height # row.height
  BY DEF TablesInv, ChainOfProofs, HasHeight
<1>8. \A r, s \in e.proofs : r.height = s.height => r = s
  BY <1>1, <1>7 DEF Numbered
<1>9. QED
  BY <1>4, <1>5, <1>6, <1>8 DEF Numbered

\* The transaction of apply_block appends one entry.
LEMMA InsertAppends ==
    ASSUME NEW d, TablesInv(d), Numbered(d), NEW j, Good(d, j),
           ~HasHeight(d, Height[j.block])
    PROVE  Entries(Insert(d, j.block, j.proof))
             = Append(Entries(d), [block |-> j.block, proof |-> j.proof])
<1> DEFINE b == j.block
           e == Insert(d, b, j.proof)
           n == Size(d)
           entry == [block |-> b, proof |-> j.proof]
           row == [height |-> Height[b], proof |-> j.proof]
<1>1. TablesInv(e) /\ Numbered(e) /\ Size(e) = n + 1 /\ n \in Nat /\ Height[b] = n + 1
  BY InsertKeepsTables, InsertNumbers, EntriesIsSeq, GoodIsNext
<1>2. /\ Entries(d) \in Seq(Entry) /\ Len(Entries(d)) = n
      /\ Entries(e) \in Seq(Entry) /\ Len(Entries(e)) = n + 1
  <2>1. Entries(e) \in Seq(Entry) /\ Len(Entries(e)) = Size(e)
    BY <1>1, EntriesIsSeq
  <2>2. QED
    BY <1>1, <2>1, EntriesIsSeq
<1>3. entry \in Entry
  BY DEF Entry, Good, Job
<1>4. /\ Append(Entries(d), entry) \in Seq(Entry)
      /\ Len(Append(Entries(d), entry)) = n + 1
      /\ \A i \in 1 .. n : Append(Entries(d), entry)[i] = Entries(d)[i]
      /\ Append(Entries(d), entry)[n + 1] = entry
  BY <1>2, <1>3, AppendProperties
<1>5. e.history = d.history \cup {b} /\ e.proofs = d.proofs \cup {row}
  BY DEF Insert
<1>6. ASSUME NEW i \in 1 .. n + 1
      PROVE  Entries(e)[i] = Append(Entries(d), entry)[i]
  <2>1. Entries(e)[i] \in Entry
    BY <1>1, EntryAt
  <2>2. CASE i = n + 1
    <3>1. Entries(e)[i].block = b
      BY <1>1, <1>5, <2>2, EntryAt
    <3>2. row \in e.proofs /\ row.height = i /\ row.proof = j.proof
      BY <1>1, <1>5, <2>2
    <3>3. Entries(e)[i].proof = j.proof
      BY <1>1, <3>2, EntryAt
    <3>4. QED
      <4> HIDE DEF e
      <4>1. Entries(e)[i] = entry
        BY <2>1, <3>1, <3>3 DEF Entry
      <4>2. QED
        BY <1>4, <2>2, <4>1
  <2>3. CASE i \in 1 .. n
    <3>1. /\ Entries(d)[i] \in Entry
          /\ Entries(d)[i].block \in e.history /\ Height[Entries(d)[i].block] = i
      BY <1>5, <2>3, EntryAt
    <3>2. Entries(e)[i].block = Entries(d)[i].block
      BY <1>1, <3>1, EntryAt
    <3>3. PICK r \in d.proofs : r.height = i
      BY <2>3 DEF Numbered, HasHeight, TablesInv, ChainOfProofs
    <3>4. Entries(d)[i].proof = r.proof
      BY <2>3, <3>3, EntryAt
    <3>5. r \in e.proofs
      BY <1>5
    <3>6. Entries(e)[i].proof = r.proof
      BY <1>1, <3>3, <3>5, EntryAt
    <3>7. Append(Entries(d), entry)[i] = Entries(d)[i]
      BY <1>4, <2>3
    <3>8. QED
      <4> HIDE DEF e, entry
      <4>1. Entries(e)[i] = Entries(d)[i]
        BY <2>1, <3>1, <3>2, <3>4, <3>6 DEF Entry
      <4>2. QED
        BY <3>7, <4>1
  <2>4. n \in Nat => i = n + 1 \/ i \in 1 .. n
    <3> HIDE DEF n
    <3>1. QED
      OBVIOUS
  <2>5. QED
    BY <1>1, <2>2, <2>3, <2>4
<1>7. QED
  BY <1>2, <1>4, <1>6, SeqEqual

\* The synced tables are a prefix.
LEMMA DiskIsPrefix ==
    ASSUME TablesInv(db), TablesInv(disk), LedgerInv
    PROVE  /\ Entries(disk) = SubSeq(Entries(db), 1, Size(disk))
           /\ Size(disk) <= Size(db)
<1> DEFINE m == Size(disk)
           prefix == SubSeq(Entries(db), 1, m)
<1>1. /\ Entries(db) \in Seq(Entry) /\ Len(Entries(db)) = Size(db) /\ Size(db) \in Nat
      /\ Entries(disk) \in Seq(Entry) /\ Len(Entries(disk)) = m /\ m \in Nat
  BY EntriesIsSeq DEF LedgerInv
<1>2. m <= Size(db)
  BY FS_Subset DEF LedgerInv, Numbered, DiskIsPart, Size
<1>3. \A i \in 1 .. m : Entries(db)[i] \in Entry
  BY <1>1, <1>2, EntryAt DEF LedgerInv
<1>4. /\ prefix \in Seq(Entry) /\ Len(prefix) = m
      /\ \A i \in 1 .. m : prefix[i] = Entries(db)[i]
  <2>1. /\ prefix \in Seq(Entry)
        /\ Len(prefix) = IF 1 <= m THEN m - 1 + 1 ELSE 0
        /\ \A i \in 1 .. m - 1 + 1 : prefix[i] = Entries(db)[1 + i - 1]
    BY <1>1, <1>3, SubSeqProperties
  <2>2. QED
    BY <1>1, <2>1
<1>5. ASSUME NEW i \in 1 .. m PROVE Entries(disk)[i] = Entries(db)[i]
  <2>1. /\ Entries(disk)[i] \in Entry
        /\ Entries(disk)[i].block \in disk.history
        /\ Height[Entries(disk)[i].block] = i
    BY EntryAt DEF LedgerInv
  <2>2. i \in 1 .. Size(db) /\ Entries(db)[i] \in Entry
    BY <1>1, <1>2, <1>3
  <2>3. Entries(db)[i].block = Entries(disk)[i].block
    BY <2>1, <2>2, EntryAt DEF LedgerInv, DiskIsPart
  <2>4. PICK r \in disk.proofs : r.height = i
    BY DEF LedgerInv, Numbered, HasHeight, TablesInv, ChainOfProofs
  <2>5. Entries(disk)[i].proof = r.proof
    BY <2>4, EntryAt DEF LedgerInv
  <2>6. Entries(db)[i].proof = r.proof
    BY <2>2, <2>4, EntryAt DEF LedgerInv, DiskIsPart
  <2>7. QED
    BY <2>1, <2>2, <2>3, <2>5, <2>6 DEF Entry
<1>6. QED
  BY <1>1, <1>2, <1>4, <1>5, SeqEqual

-----------------------------------------------------------------------------
(* The invariant and the steps.                                             *)

\* Empty tables are the empty ledger.
LEMMA InitLedger == Init => LedgerInv /\ L!LedgerInit
<1> SUFFICES ASSUME Init PROVE LedgerInv /\ L!LedgerInit
  OBVIOUS
<1>1. db = EmptyDb /\ disk = EmptyDb /\ EmptyDb.history = {} /\ EmptyDb.proofs = {}
  BY DEF Init, EmptyDb
<1>2. IsFiniteSet({}) /\ Size(EmptyDb) = 0
  BY <1>1, FS_EmptySet DEF Size
<1>3. Numbered(EmptyDb)
  BY <1>1, <1>2 DEF Numbered
<1>4. LedgerInv
  BY <1>1, <1>3 DEF LedgerInv, DiskIsPart
<1>5. TablesInv(db)
  BY InitIInv DEF IInv, CoreInv
<1>6. Entries(db) = <<>>
  BY <1>1, <1>2, <1>4, <1>5, EntriesIsSeq, EmptySeq DEF LedgerInv
<1>7. QED
  BY <1>1, <1>2, <1>4, <1>6 DEF L!LedgerInit, Size

\* A good block inserted where its height was free is an append.
LEMMA InsertStep ==
    ASSUME CoreInv, LedgerInv, NEW j, Good(db, j), ~HasHeight(db, Height[j.block]),
           db' = Insert(db, j.block, j.proof), UNCHANGED disk
    PROVE  LedgerInv' /\ L!LedgerNext
<1>1. TablesInv(db) /\ Numbered(db) /\ Numbered(disk) /\ DiskIsPart
  BY DEF CoreInv, LedgerInv
<1>2. LedgerInv'
  <2>1. Numbered(db')
    BY <1>1, InsertNumbers
  <2>2. db.history \subseteq db'.history /\ db.proofs \subseteq db'.proofs
    BY DEF Insert
  <2>3. QED
    BY <1>1, <2>1, <2>2 DEF LedgerInv, DiskIsPart, Numbered, Size, HasHeight
<1>3. Entries(db)' = Append(Entries(db), [block |-> j.block, proof |-> j.proof])
  BY <1>1, InsertAppends
<1>4. Extends(j.block, j.proof, L!Tip(Entries(db)))
  BY <1>1, GoodIsNext DEF Good, Extends
<1>5. L!Append1(j.block, j.proof)
  BY <1>3, <1>4 DEF L!Append1
<1>6. QED
  BY <1>2, <1>5 DEF L!LedgerNext, Good, Job

\* No change of the tables is none of the ledger.
LEMMA LedgerRests ==
    ASSUME LedgerInv, UNCHANGED <<db, disk>>
    PROVE  LedgerInv' /\ UNCHANGED L!ledgerVars
  BY DEF LedgerInv, DiskIsPart, Numbered, Size, HasHeight, L!ledgerVars, Entries

\* Every step of the storage is a step of the ledger, or none.
LEMMA LedgerStep ==
    CoreInv /\ LedgerInv /\ [Next]_vars => LedgerInv' /\ [L!LedgerNext]_(L!ledgerVars)
<1> SUFFICES ASSUME CoreInv, LedgerInv, [Next]_vars
             PROVE  LedgerInv' /\ [L!LedgerNext]_(L!ledgerVars)
  OBVIOUS
<1>0. TablesInv(db) /\ TablesInv(disk) /\ CallsInv
  BY DEF CoreInv
<1>1. CASE UNCHANGED <<db, disk>>
  BY <1>1, LedgerRests
<1>2. CASE Checkpoint
  <2>1. db' = db /\ disk' = db
    BY <1>2 DEF Checkpoint
  <2>2. LedgerInv'
    BY <2>1 DEF LedgerInv, DiskIsPart, Numbered, Size, HasHeight
  <2>3. Entries(db)' = Entries(db) /\ Cardinality(disk.history)' = Len(Entries(db))
    BY <1>0, <2>1, EntriesIsSeq DEF LedgerInv, Size, Entries
  <2>4. QED
    BY <2>2, <2>3 DEF L!LedgerNext, L!Sync
<1>3. ASSUME NEW t \in Task, Commit(t) PROVE LedgerInv' /\ L!LedgerNext
  BY <1>0, <1>3, InsertStep DEF Commit, CallsInv
<1>4. ASSUME NEW j \in detached, DetachedCommit(j)
      PROVE  LedgerInv' /\ [L!LedgerNext]_(L!ledgerVars)
  <2>1. Good(db, j) /\ UNCHANGED disk
    BY <1>0, <1>4 DEF DetachedCommit, CallsInv
  <2>2. CASE UNCHANGED db
    BY <1>1, <2>1, <2>2
  <2>3. CASE ~HasHeight(db, Height[j.block]) /\ db' = Insert(db, j.block, j.proof)
    BY <2>1, <2>3, InsertStep
  <2>4. QED
    BY <1>4, <2>2, <2>3 DEF DetachedCommit
<1>5. CASE Restart(db)
  BY <1>1, <1>5 DEF Restart
<1>6. CASE Restart(disk)
  <2>1. db' = disk /\ disk' = disk
    BY <1>6 DEF Restart
  <2>2. LedgerInv'
    BY <2>1 DEF LedgerInv, DiskIsPart, Numbered, Size, HasHeight
  <2>3. Entries(db)' = Entries(disk) /\ Cardinality(disk.history)' = Size(disk)
    BY <2>1 DEF Entries, Size
  <2>4. Entries(db)' = SubSeq(Entries(db), 1, Cardinality(disk.history))
    BY <1>0, <2>3, DiskIsPrefix DEF Size
  <2>5. QED
    BY <2>2, <2>3, <2>4 DEF L!LedgerNext, L!PowerLoss, Size
<1>7. QED
  BY <1>1, <1>2, <1>3, <1>4, <1>5, <1>6, TableSteps

\* The storage implements the ledger: apply_block's transactions, also those
\* that outlive their call, append one proven block to one chain, and a
\* restart keeps the chain or falls back to the prefix that was synced.
THEOREM StorageImplementsLedger == Spec => ImplementsLedger
<1>1. Init => LedgerInv /\ L!LedgerInit
  BY InitLedger
<1>2. IInv /\ LedgerInv /\ [Next]_vars => LedgerInv' /\ [L!LedgerNext]_(L!ledgerVars)
  BY LedgerStep DEF IInv
<1>3. QED
  BY <1>1, <1>2, Invariance, PTL DEF Spec, ImplementsLedger, L!LedgerSpec

-----------------------------------------------------------------------------
(***************************************************************************)
(* A staker beside block sync, for any block tree, any other callers of    *)
(* apply_block and any number of restarts: the storage stays the chain it  *)
(* is, the proposal extends the base of the consensus instance, and a call *)
(* of apply_block belongs to the round that made it.                       *)
(*                                                                         *)
(* What the storage's own invariant says of tables and calls (CoreInv)     *)
(* survives the staker's steps too.  The proposal is made when the height  *)
(* of the mempool fits; that its base is then the base of the round needs  *)
(* that both are stored blocks and that stored heights do not repeat.      *)
(***************************************************************************)

\* The mempool builds on a stored block, at its height.
PoolKnown ==
    /\ Known(db, mpBase)
    /\ mpHeight = 0 \/ mpHeight = Height[mpBase] + 1

\* Where the loop stands, and what its call of apply_block is about.
LoopInv ==
    /\ Known(db, base) /\ sigs \subseteq Key
    /\ decide # "idle" => phase = "race"
    /\ decide = "consensus" => decision = base
    /\ decide \in {"gather", "apply"} => decision \in Sound /\ Prev[decision] = base
    /\ pc[Me] # "idle" => decide = "apply" /\ job[Me].block = decision

RoundInv == CoreInv /\ PoolKnown /\ LoopInv

-----------------------------------------------------------------------------
(* Tables and calls.                                                        *)

\* No action of the storage breaks CoreInv.
LEMMA CoreStep == CoreInv /\ [Next]_vars => CoreInv'
BY TypeStep, TablesStep, CallsStep DEF CoreInv

WaiterTypeOK ==
    /\ wpc \in [Waiter -> {"idle", "listen", "query", "wait"}]
    /\ want \in [Waiter -> Nat]
    /\ ear \in [Waiter -> BOOLEAN]

\* A step of the loop that touches neither tables nor calls.
LEMMA CoreUndisturbed ==
    ASSUME CoreInv, UNCHANGED <<tableVars, callVars>>, MempoolTypeOK', WaiterTypeOK'
    PROVE  CoreInv'
<1> USE DEF tableVars, callVars
<1>1. TypeOK'
  BY DEF CoreInv, TypeOK, TablesTypeOK, WaiterTypeOK
<1>2. TablesInv(db') /\ TablesInv(disk') /\ RootsDurable'
  BY DEF CoreInv, RootsDurable
<1>3. CallsInv'
  BY DEF CoreInv, CallsInv
<1>4. QED
  BY <1>1, <1>2, <1>3 DEF CoreInv

\* A step that drops the staker's call where it awaits something.
LEMMA CoreDropped ==
    ASSUME CoreInv, pc[Me] \in Awaiting, Return(Me),
           UNCHANGED detached \/ (pc[Me] = "commit" /\ detached' = detached \cup {job[Me]}),
           UNCHANGED <<mempoolVars, tableVars>>, WaiterTypeOK'
    PROVE  CoreInv'
<1> USE DEF tableVars, mempoolVars
<1>1. /\ Me \in Task /\ TypeOK /\ CallsInv
      /\ pc[Me] = "commit" => Good(db, job[Me]) /\ job[Me].block \in flushed
  BY RoundAssumption, StorageAssumption DEF CoreInv, CallsInv
<1>2. TypeOK'
  <2>1. detached' \subseteq Job
    BY <1>1, StorageAssumption DEF TypeOK
  <2>2. /\ pc' \in [Task -> Critical \cup {"idle", "lock"}]
        /\ job' \in [Task -> Job \cup {NoJob}] /\ tip' \in [Task -> Block]
        /\ lock' \in Task \cup {Free}
    BY <1>1, ChainAssumption DEF TypeOK, Return
  <2>3. \A t \in Task : /\ pc'[t] \in Critical <=> lock' = t
                        /\ pc'[t] = "idle" <=> job'[t] = NoJob
    BY <1>1, StorageAssumption DEF TypeOK, Return, Awaiting, Critical
  <2>4. QED
    BY <1>1, <2>1, <2>2, <2>3 DEF TypeOK, MempoolTypeOK, TablesTypeOK, WaiterTypeOK
<1>3. TablesInv(db') /\ TablesInv(disk') /\ RootsDurable'
  BY DEF CoreInv, RootsDurable
<1>4. CallsInv'
  <2>1. \A j \in detached' : Good(db, j) /\ j.block \in flushed
    BY <1>1 DEF CallsInv
  <2>2. QED
    BY <1>1, <2>1 DEF TypeOK, Return, CallsInv, Known
<1>5. QED
  BY <1>2, <1>3, <1>4 DEF CoreInv

-----------------------------------------------------------------------------
(* The steps of the storage the staker has no part in.                      *)

\* What the storage does meanwhile is a step of its own.
LEMMA StorageStepIsNext == StorageStep => [Next]_vars
BY RoundAssumption DEF StorageStep, Next, Environment

\* They move the staker's call on or end it, and never begin one.
LEMMA CallOfMe ==
    ASSUME CoreInv, StorageStep, pc'[Me] # "idle"
    PROVE  pc[Me] # "idle" /\ job'[Me] = job[Me]
<1>1. /\ Me \in Task /\ pc \in [Task -> Critical \cup {"idle", "lock"}]
      /\ job \in [Task -> Job \cup {NoJob}] /\ tip \in [Task -> Block]
  BY RoundAssumption, StorageAssumption DEF CoreInv, TypeOK
<1> USE DEF callVars
<1>2. ASSUME NEW t \in Task \ {Me}, NEW block, NEW proof, Call(t, block, proof)
      PROVE  pc'[Me] = pc[Me] /\ job'[Me] = job[Me]
  BY <1>1, <1>2 DEF Call
<1>3. ASSUME NEW t \in Task, AcquireLock(t)
      PROVE  pc[Me] # "idle" /\ job'[Me] = job[Me]
  BY <1>1, <1>3 DEF AcquireLock
<1>4. ASSUME NEW t \in Task, Progress(t)
      PROVE  pc[Me] # "idle" /\ job'[Me] = job[Me]
  BY <1>1, <1>4 DEF Progress, ReadHighest, Reject, Execute, Flush, Commit, CommitFails,
                    ReadNext, RebasePool, NotifyAll, Return
<1>5. CASE WaiterStep(Round)
  BY <1>5 DEF WaiterStep, Listen, Query, Wake
<1>6. ASSUME NEW j \in detached, DetachedCommit(j)
      PROVE  UNCHANGED <<pc, job>>
  BY <1>6 DEF DetachedCommit
<1>7. ASSUME NEW tx \in Tx, SendTx(tx) PROVE UNCHANGED <<pc, job>>
  BY <1>7 DEF SendTx
<1>8. CASE Checkpoint
  BY <1>8 DEF Checkpoint
<1>9. QED
  BY <1>2, <1>3, <1>4, <1>5, <1>6, <1>7, <1>8 DEF StorageStep

\* They store blocks and never take one back.
LEMMA StoredStays ==
    ASSUME CoreInv, StorageStep, NEW b, Known(db, b)
    PROVE  Known(db', b)
<1> USE DEF tableVars
<1>1. ASSUME NEW t \in Task, NEW block, NEW proof, Call(t, block, proof)
      PROVE  UNCHANGED db
  BY <1>1 DEF Call
<1>2. ASSUME NEW t \in Task, AcquireLock(t) PROVE UNCHANGED db
  BY <1>2 DEF AcquireLock
<1>3. ASSUME NEW t \in Task, Progress(t), ~Commit(t) PROVE UNCHANGED db
  BY <1>3 DEF Progress, ReadHighest, Reject, Execute, Flush, CommitFails,
              ReadNext, RebasePool, NotifyAll
<1>4. ASSUME NEW t \in Task, Commit(t) PROVE Known(db', b)
  BY <1>4, InsertKeepsGood DEF Commit
<1>5. ASSUME NEW j \in detached, DetachedCommit(j) PROVE Known(db', b)
  BY <1>5, InsertKeepsGood DEF DetachedCommit
<1>6. CASE WaiterStep(Round)
  BY <1>6 DEF WaiterStep, Listen, Query, Wake
<1>7. ASSUME NEW tx \in Tx, SendTx(tx) PROVE UNCHANGED db
  BY <1>7 DEF SendTx
<1>8. CASE Checkpoint
  BY <1>8 DEF Checkpoint
<1>9. QED
  BY <1>1, <1>2, <1>3, <1>4, <1>5, <1>6, <1>7, <1>8 DEF StorageStep

\* They leave the mempool on a stored block.
LEMMA PoolStaysKnown ==
    ASSUME RoundInv, StorageStep
    PROVE  PoolKnown'
<1>1. CASE UNCHANGED mempoolVars
  BY <1>1, StoredStays DEF RoundInv, PoolKnown, mempoolVars
<1>2. ASSUME NEW tx \in Tx, SendTx(tx) PROVE PoolKnown'
  BY <1>2, StoredStays DEF RoundInv, PoolKnown, SendTx, ApplyTransaction
<1>3. ASSUME NEW t \in Task, RebasePool(t) PROVE PoolKnown'
  <2>1. Known(db, tip[t])
    BY DEF RoundInv, CoreInv, CallsInv
  <2>2. mpBase' = tip[t] /\ mpHeight' = Height[tip[t]] + 1 /\ Known(db', tip[t])
    BY <1>3, <2>1, StoredStays DEF RebasePool, Rebase, RoundInv
  <2>3. QED
    BY <2>2 DEF PoolKnown
<1>4. ASSUME NEW d, Restart(d) PROVE PoolKnown'
  BY <1>4, ChainAssumption DEF Restart, FreshMempool, PoolKnown, Known
<1>5. QED
  BY <1>1, <1>2, <1>3, <1>4, StorageStepIsNext, MempoolSteps

\* Steps of the storage alone keep what the staker relies on.
LEMMA StorageStepKeeps == RoundInv /\ StorageStep => RoundInv'
<1> SUFFICES ASSUME RoundInv, StorageStep PROVE RoundInv'
  OBVIOUS
<1>1. [Next]_vars /\ UNCHANGED roundVars
  BY StorageStepIsNext DEF StorageStep
<1>2. CoreInv' /\ PoolKnown'
  BY <1>1, CoreStep, PoolStaysKnown DEF RoundInv
<1>3. LoopInv'
  BY <1>1, StoredStays, CallOfMe DEF RoundInv, LoopInv, roundVars
<1>4. QED
  BY <1>2, <1>3 DEF RoundInv

-----------------------------------------------------------------------------
(* The steps of the loop.                                                   *)

\* The types of the waiter when a round ends.
LEMMA EndOfRound ==
    ASSUME CoreInv, EndRound
    PROVE  /\ WaiterTypeOK' /\ base' = Genesis /\ decide' = "idle" /\ phase' = "top"
           /\ sigs' = {}
BY DEF CoreInv, TypeOK, EndRound, WaiterTypeOK

\* A step that leaves tables, calls and mempool alone.
LEMMA QuietStep ==
    ASSUME RoundInv, UNCHANGED <<tableVars, callVars, mempoolVars>>, WaiterTypeOK'
    PROVE  CoreInv' /\ PoolKnown'
<1>1. MempoolTypeOK'
  BY DEF RoundInv, CoreInv, TypeOK, MempoolTypeOK, mempoolVars
<1>2. CoreInv'
  BY <1>1, CoreUndisturbed DEF RoundInv
<1>3. PoolKnown'
  BY DEF RoundInv, PoolKnown, mempoolVars, tableVars, Known
<1>4. QED
  BY <1>2, <1>3

\* A mempool of the height after the base builds on the base: both are stored,
\* and stored heights do not repeat.
LEMMA ProposalOnBase ==
    ASSUME RoundInv, mpHeight = NextHeight
    PROVE  mpBase = base
<1>1. /\ Known(db, mpBase) /\ Known(db, base)
      /\ \A b \in db.history : b \in Block /\ Height[b] \in Nat
      /\ \A b \in db.history : Height[b] = Height[Prev[b]] + 1 /\ Height[Prev[b]] \in Nat
      /\ Genesis \in Block /\ Height[Genesis] = 0
  BY ChainAssumption DEF RoundInv, PoolKnown, LoopInv, CoreInv, TablesInv, TablesTypeOK,
                         ChainOfProofs
<1>2. Height[mpBase] \in Nat /\ Height[base] \in Nat
  BY <1>1 DEF Known
<1>3. Height[mpBase] = Height[base]
  BY <1>2 DEF RoundInv, PoolKnown, NextHeight
<1>4. \A b, c \in db.history : Height[b] = Height[c] => b = c
  BY DEF RoundInv, CoreInv, TablesInv, ChainOfProofs
<1>5. \A b \in db.history : Height[b] # Height[Genesis]
  BY <1>1
<1>6. QED
  BY <1>1, <1>3, <1>4, <1>5 DEF Known

\* So do the steps of the round loop.
LEMMA LoopSteps == RoundInv /\ RoundStep => RoundInv'
<1> SUFFICES ASSUME RoundInv, RoundStep PROVE RoundInv'
  OBVIOUS
<1>0. /\ CoreInv /\ PoolKnown /\ LoopInv /\ WaiterTypeOK /\ MempoolTypeOK
      /\ Known(db, Genesis) /\ Known(db, Highest(db)) /\ Me \in Task /\ Round \in Waiter
  BY HighestIsMax, RoundAssumption, StorageAssumption
     DEF RoundInv, CoreInv, TypeOK, WaiterTypeOK, Known
<1>1. CASE ReadBase
  <2>1. CoreInv' /\ PoolKnown'
    BY <1>0, <1>1, QuietStep DEF ReadBase, vars, waiterVars, WaiterTypeOK
  <2>2. LoopInv'
    BY <1>0, <1>1 DEF ReadBase, vars, tableVars, callVars, LoopInv, Known
  <2>3. QED
    BY <2>1, <2>2 DEF RoundInv
<1>2. CASE BeginRace
  <2>1. NextHeight \in Nat
    BY <1>0, ChainAssumption DEF LoopInv, NextHeight, Known, CoreInv, TablesInv, TablesTypeOK
  <2>2. WaiterTypeOK' /\ UNCHANGED <<tableVars, callVars, mempoolVars>>
    BY <1>0, <1>2, <2>1 DEF BeginRace, WaitStart, WaiterTypeOK
  <2>3. LoopInv'
    BY <1>0, <1>2, <2>2 DEF BeginRace, tableVars, callVars, LoopInv, Known
  <2>4. QED
    BY <2>2, <2>3, QuietStep DEF RoundInv
<1>3. CASE CheckPool
  <2>1. CoreInv' /\ PoolKnown'
    BY <1>0, <1>3, QuietStep DEF CheckPool, vars, waiterVars, WaiterTypeOK
  <2>2. LoopInv'
    BY <1>0, <1>3, ProposalOnBase DEF CheckPool, vars, tableVars, callVars, LoopInv, Known
  <2>3. QED
    BY <2>1, <2>2 DEF RoundInv
<1>4. CASE RebaseStale
  <2>1. /\ Rebase(base) /\ EndRound /\ UNCHANGED <<tableVars, callVars>> /\ pc[Me] = "idle"
    BY <1>0, <1>4 DEF RebaseStale, LoopInv
  <2>2. MempoolTypeOK' /\ PoolKnown'
    <3>1. base \in Block
      BY <1>0, ChainAssumption DEF LoopInv, Known, CoreInv, TablesInv, TablesTypeOK
    <3>2. QED
      BY <1>0, <2>1, <3>1, ChainAssumption, TxAssumption
         DEF Rebase, MempoolTypeOK, PoolKnown, LoopInv, Known, tableVars
  <2>3. CoreInv'
    BY <1>0, <2>1, <2>2, EndOfRound, CoreUndisturbed
  <2>4. LoopInv'
    BY <1>0, <2>1, EndOfRound DEF tableVars, callVars, LoopInv, Known
  <2>5. QED
    BY <2>2, <2>3, <2>4 DEF RoundInv
<1>5. CASE Submit
  <2>1. /\ Call(Me, decision, Cproof) /\ decide = "gather" /\ decide' = "apply"
        /\ UNCHANGED <<phase, base, decision, sigs>>
    BY <1>5 DEF Submit
  <2>2. decision \in Block \ {Genesis} /\ Cproof \in Proof
    BY <1>0, <2>1, ChainAssumption, SignersAssumption DEF LoopInv, Cproof
  <2>3. [Next]_vars /\ UNCHANGED <<tableVars, mempoolVars>>
    BY <1>0, <2>1, <2>2 DEF Next, Call
  <2>4. CoreInv' /\ PoolKnown'
    BY <1>0, <2>3, CoreStep DEF PoolKnown, Known, tableVars, mempoolVars
  <2>5. job'[Me].block = decision
    BY <1>0, <2>1 DEF Call, CoreInv, TypeOK
  <2>6. LoopInv'
    BY <1>0, <2>1, <2>3, <2>5 DEF LoopInv, Known, tableVars
  <2>7. QED
    BY <2>4, <2>6 DEF RoundInv
<1>6. CASE Submitted
  <2>1. /\ EndRound /\ pc[Me] = "idle" /\ UNCHANGED <<mempoolVars, tableVars, callVars>>
    BY <1>6 DEF Submitted
  <2>2. CoreInv' /\ PoolKnown'
    BY <1>0, <2>1, EndOfRound, QuietStep
  <2>3. LoopInv'
    BY <1>0, <2>1, EndOfRound DEF tableVars, callVars, LoopInv, Known
  <2>4. QED
    BY <2>2, <2>3 DEF RoundInv
<1>7. CASE SkipRound
  <2>1. EndRound /\ UNCHANGED <<mempoolVars, tableVars>>
    BY <1>7 DEF SkipRound
  <2>2. CASE pc[Me] = "idle" /\ UNCHANGED callVars
    <3>1. CoreInv' /\ PoolKnown'
      BY <1>0, <2>1, <2>2, EndOfRound, QuietStep
    <3>2. LoopInv'
      BY <1>0, <2>1, <2>2, EndOfRound DEF tableVars, callVars, LoopInv, Known
    <3>3. QED
      BY <3>1, <3>2 DEF RoundInv
  <2>3. CASE /\ pc[Me] \in Awaiting /\ Return(Me)
             /\ UNCHANGED detached \/ (pc[Me] = "commit" /\ detached' = detached \cup {job[Me]})
    <3>1. CoreInv'
      BY <1>0, <2>1, <2>3, EndOfRound, CoreDropped
    <3>2. PoolKnown'
      BY <1>0, <2>1 DEF PoolKnown, Known, tableVars, mempoolVars
    <3>3. pc'[Me] = "idle"
      BY <1>0, <2>3 DEF Return, CoreInv, TypeOK
    <3>4. LoopInv'
      BY <1>0, <2>1, <3>3, EndOfRound DEF tableVars, LoopInv, Known
    <3>5. QED
      BY <3>1, <3>2, <3>4 DEF RoundInv
  <2>4. QED
    BY <1>7, <2>2, <2>3 DEF SkipRound
<1>8. QED
  BY <1>1, <1>2, <1>3, <1>4, <1>5, <1>6, <1>7 DEF RoundStep

\* Consensus decides, signatures come in.
LEMMA AnswersKeep ==
    RoundInv /\ ((\E b \in Block : Decide(b)) \/ \E keys \in SUBSET Key : Gather(keys))
        => RoundInv'
<1> SUFFICES ASSUME RoundInv,
                    (\E b \in Block : Decide(b)) \/ \E keys \in SUBSET Key : Gather(keys)
             PROVE  RoundInv'
  OBVIOUS
<1>1. UNCHANGED vars
  BY DEF Decide, Gather
<1>2. CoreInv' /\ PoolKnown'
  BY <1>1, CoreStep DEF RoundInv, PoolKnown, Known, vars, tableVars, mempoolVars
<1>3. ASSUME NEW b \in Block, Decide(b) PROVE LoopInv'
  <2>1. pc[Me] = "idle"
    BY <1>3 DEF RoundInv, LoopInv, Decide
  <2>2. QED
    BY <1>1, <1>3, <2>1, RoundAssumption
       DEF RoundInv, LoopInv, Known, Decide, vars, tableVars, callVars
<1>4. ASSUME NEW keys \in SUBSET Key, Gather(keys) PROVE LoopInv'
  BY <1>1, <1>4 DEF RoundInv, LoopInv, Known, Gather, vars, tableVars, callVars
<1>5. QED
  BY <1>2, <1>3, <1>4 DEF RoundInv

\* So do restarts, with the tables of the process or of the disk.
LEMMA RebootKeeps ==
    ASSUME RoundInv, Reboot(db) \/ Reboot(disk)
    PROVE  RoundInv'
<1>1. Restart(db) \/ Restart(disk)
  BY DEF Reboot
<1>2. CoreInv'
  BY <1>1, CoreStep DEF Next, Environment, RoundInv
<1>3. PoolKnown'
  BY <1>1, ChainAssumption DEF Restart, FreshMempool, PoolKnown, Known
<1>4. pc'[Me] = "idle"
  BY <1>1, RoundAssumption, StorageAssumption DEF Restart
<1>5. LoopInv'
  BY <1>4 DEF Reboot, LoopInv, Known
<1>6. QED
  BY <1>2, <1>3, <1>5 DEF RoundInv

\* RoundInv in every reachable state.
LEMMA RoundInvariance == RoundSpec => []RoundInv
<1>1. RoundInit => RoundInv
  <2> SUFFICES ASSUME RoundInit PROVE RoundInv
    OBVIOUS
  <2>1. IInv
    BY InitIInv DEF RoundInit
  <2>2. PoolKnown /\ LoopInv
    BY RoundAssumption, StorageAssumption, ChainAssumption
       DEF RoundInit, Init, MempoolInit, PoolKnown, LoopInv, Known
  <2>3. QED
    BY <2>1, <2>2 DEF IInv, RoundInv
<1>2. RoundInv /\ [RoundNext]_allVars => RoundInv'
  <2> SUFFICES ASSUME RoundInv, [RoundNext]_allVars PROVE RoundInv'
    OBVIOUS
  <2>1. CASE UNCHANGED allVars
    <3>1. UNCHANGED <<vars, roundVars>>
      BY <2>1 DEF allVars
    <3>2. CoreInv' /\ PoolKnown'
      BY <3>1, CoreStep DEF RoundInv, PoolKnown, Known, vars, tableVars, mempoolVars
    <3>3. LoopInv'
      BY <3>1 DEF RoundInv, LoopInv, Known, vars, tableVars, callVars, roundVars
    <3>4. QED
      BY <3>2, <3>3 DEF RoundInv
  <2>2. QED
    BY <2>1, LoopSteps, AnswersKeep, StorageStepKeeps, RebootKeeps DEF RoundNext
<1>3. QED
  BY <1>1, <1>2, PTL DEF RoundSpec

-----------------------------------------------------------------------------
(* The theorems.                                                            *)

\* What the staker proposes extends the base of its consensus instance, for any
\* block tree and whoever moves the mempool (staker.rs:134-158).
THEOREM RoundProposalExtendsBase == RoundSpec => []ProposalExtendsBase
<1>1. RoundInv => ProposalExtendsBase
  BY DEF RoundInv, LoopInv, ProposalExtendsBase
<1>2. QED
  BY <1>1, RoundInvariance, PTL

\* A dropped round leaves no call of apply_block behind (staker.rs:253).
THEOREM RoundCallBelongs == RoundSpec => []CallBelongsToRound
<1>1. RoundInv => CallBelongsToRound
  BY DEF RoundInv, LoopInv, CallBelongsToRound
<1>2. QED
  BY <1>1, RoundInvariance, PTL

\* The storage stays a chain of proven blocks with a staker on top, who moves
\* the mempool and drops calls and waiters on his own terms.
THEOREM RoundKeepsChain == RoundSpec => [](HistoryIsChain /\ RootsDurable /\ StakesMatchHeader)
<1>1. RoundInv => HistoryIsChain /\ RootsDurable /\ StakesMatchHeader
  BY DEF RoundInv, CoreInv, TablesInv, StakesMatch, HistoryIsChain, StakesMatchHeader
<1>2. QED
  BY <1>1, RoundInvariance, PTL

\* A step of the loop is a step of the storage, or leaves its tables alone.
LEMMA RoundStepOnTables ==
    ASSUME RoundNext
    PROVE  [Next]_vars \/ UNCHANGED <<db, disk>>
<1>1. CASE ReadBase \/ CheckPool \/ RebaseStale \/ Submitted \/ SkipRound
  BY <1>1 DEF ReadBase, CheckPool, RebaseStale, Submitted, SkipRound, vars, tableVars
<1>2. CASE BeginRace
  BY <1>2 DEF BeginRace, WaitStart, tableVars
<1>3. CASE Submit
  BY <1>3 DEF Submit, Call, tableVars
<1>4. CASE (\E b \in Block : Decide(b)) \/ \E keys \in SUBSET Key : Gather(keys)
  BY <1>4 DEF Decide, Gather
<1>5. CASE StorageStep
  BY <1>5, StorageStepIsNext
<1>6. CASE Reboot(db) \/ Reboot(disk)
  BY <1>6 DEF Reboot, Next, Environment
<1>7. QED
  BY <1>1, <1>2, <1>3, <1>4, <1>5, <1>6 DEF RoundNext, RoundStep

\* With the staker on top too the storage implements the ledger: what rounds
\* propose, decide, submit and abandon only ever appends to the one chain.
THEOREM RoundImplementsLedger == RoundSpec => ImplementsLedger
<1>1. RoundInit => LedgerInv /\ L!LedgerInit
  BY InitLedger DEF RoundInit
<1>2. RoundInv /\ LedgerInv /\ [RoundNext]_allVars
        => LedgerInv' /\ [L!LedgerNext]_(L!ledgerVars)
  <2> SUFFICES ASSUME RoundInv, LedgerInv, [RoundNext]_allVars
               PROVE  LedgerInv' /\ [L!LedgerNext]_(L!ledgerVars)
    OBVIOUS
  <2>1. [Next]_vars \/ UNCHANGED <<db, disk>>
    BY RoundStepOnTables DEF allVars
  <2>2. QED
    BY <2>1, LedgerStep, LedgerRests DEF RoundInv
<1>3. QED
  BY <1>1, <1>2, RoundInvariance, PTL DEF RoundSpec, ImplementsLedger, L!LedgerSpec
=============================================================================
