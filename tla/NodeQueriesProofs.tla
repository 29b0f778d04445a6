------------------------- MODULE NodeQueriesProofs -------------------------
(***************************************************************************)
(* What the queries answer is right for any blocks, any number of handlers *)
(* and any bound of the caches.                                            *)
(*                                                                         *)
(* A handler that has read a block goes on to read its proof; in between   *)
(* the chain may grow, and only the process's end takes blocks back, which *)
(* ends the handler and empties the caches with it.  So the invariant says *)
(* of a handler what it says of a cache entry: the block it holds is the   *)
(* stored one of the height it asked for.  A coin query's numbers are      *)
(* ordered by the times they were read.                                    *)
(***************************************************************************)
EXTENDS NodeQueries, TLAPS

Row == [block : Block, proof : Proof]

QueriesTypeOK ==
    /\ chain \in Seq(Row)
    /\ durable \in 0 .. Len(chain)
    /\ indexed \in Nat /\ next \in Nat /\ last \in Nat
    /\ pc \in [Query -> {"idle", "block", "proof", "goal", "wait"}]
    /\ req \in [Query -> Nat] /\ since \in [Query -> Nat] /\ goal \in [Query -> Nat]
    /\ got \in [Query -> Block \cup {Genesis}]
    /\ reply \in [Query -> Answer \cup {NoReply, Refused}]

\* The cached entries have the heights of stored blocks.
CacheInv ==
    \A e \in cache : /\ e.height \in 0 .. Len(chain)
                     /\ Entry(e.height) = [block |-> e.block, proof |-> e.proof]

\* A handler about to read the proof holds the stored block of its height.
HoldsBlock ==
    \A q \in Query :
        /\ pc[q] = "block" => req[q] >= 1
        /\ pc[q] = "proof" => req[q] <= Len(chain) /\ got[q] = Entry(req[q]).block

\* Heights read later are not lower.
ReadInOrder ==
    \A q \in Query :
        /\ pc[q] \in {"goal", "wait"} => req[q] <= since[q] /\ since[q] <= Len(chain)
        /\ pc[q] = "wait" => since[q] <= goal[q]

\* The self test stays below the height it read.
TestInv == last <= Len(chain)

QueriesInv ==
    /\ QueriesTypeOK /\ CacheInv /\ HoldsBlock /\ ReadInOrder /\ TestInv
    /\ CoinsComplete /\ SelfTestServed

-----------------------------------------------------------------------------
\* A block added leaves the rows below it as they are.
LEMMA RowsStay ==
    ASSUME chain \in Seq(Row), NEW block \in Block, NEW proof \in Proof,
           Append1(block, proof)
    PROVE  /\ chain' \in Seq(Row) /\ Len(chain') = Len(chain) + 1
           /\ durable' = durable
           /\ \A h \in 0 .. Len(chain) : Entry(h)' = Entry(h)
<1> DEFINE row == [block |-> block, proof |-> proof]
<1>1. row \in Row
  BY DEF Row
<1>2. chain' = Append(chain, row) /\ durable' = durable
  BY DEF Append1
<1> HIDE DEF row
<1>3. chain' \in Seq(Row) /\ Len(chain') = Len(chain) + 1
  BY <1>1, <1>2
<1>4. ASSUME NEW h \in 0 .. Len(chain) PROVE Entry(h)' = Entry(h)
  <2>1. CASE h = 0
    BY <2>1 DEF Entry
  <2>2. CASE h # 0
    <3>1. chain'[h] = chain[h]
      BY <1>1, <1>2, <2>2
    <3>2. QED
      BY <2>2, <3>1 DEF Entry
  <2>3. QED
    BY <2>1, <2>2
<1>5. QED
  BY <1>2, <1>3, <1>4

\* The rows of a height that is there.
LEMMA RowThere ==
    ASSUME chain \in Seq(Row), NEW h \in 1 .. Len(chain)
    PROVE  chain[h] \in Row /\ Entry(h) = chain[h]
BY DEF Entry

\* What a handler leaves behind when it returns.
LEMMA Returned ==
    ASSUME QueriesTypeOK, NEW q \in Query, NEW r \in Answer \cup {NoReply, Refused},
           Return(q, r)
    PROVE  /\ pc' \in [Query -> {"idle", "block", "proof", "goal", "wait"}]
           /\ req' \in [Query -> Nat] /\ since' \in [Query -> Nat]
           /\ goal' \in [Query -> Nat]
           /\ got' \in [Query -> Block \cup {Genesis}]
           /\ reply' \in [Query -> Answer \cup {NoReply, Refused}]
           /\ pc'[q] = "idle" /\ reply'[q] = r
           /\ \A p \in Query \ {q} :
                 /\ pc'[p] = pc[p] /\ req'[p] = req[p] /\ since'[p] = since[p]
                 /\ goal'[p] = goal[p] /\ got'[p] = got[p] /\ reply'[p] = reply[p]
BY DEF QueriesTypeOK, Return

\* A fresh start.
LEMMA QueriesInitInv == Init => QueriesInv
<1> SUFFICES ASSUME Init PROVE QueriesInv
  OBVIOUS
<1> USE DEF Init, LedgerInit, Idle, Zero, NoneRead, NoReplies
<1>1. QueriesTypeOK
  BY DEF QueriesTypeOK
<1>2. CacheInv /\ HoldsBlock /\ ReadInOrder /\ TestInv
  BY DEF CacheInv, HoldsBlock, ReadInOrder, TestInv
<1>3. CoinsComplete /\ SelfTestServed
  BY QueryAssumption DEF CoinsComplete, SelfTestServed
<1>4. QED
  BY <1>1, <1>2, <1>3 DEF QueriesInv

-----------------------------------------------------------------------------
(* One lemma per action, or per group of actions that disturb the same.     *)

Handlers == QueriesTypeOK /\ HoldsBlock /\ ReadInOrder /\ CoinsComplete /\ SelfTestServed

\* A handler that returns with a fitting answer leaves all handlers in order.
LEMMA ReturnStep ==
    ASSUME QueriesInv, NEW q \in Query, NEW r \in Answer \cup {NoReply, Refused},
           Return(q, r), UNCHANGED <<chain, durable, indexed, last>>, next' \in Nat,
           r \in Answer => r.upto >= r.height /\ r.upto >= r.since,
           q = Tester => r # Refused
    PROVE  Handlers'
<1> USE DEF QueriesInv
<1>1. /\ pc'[q] = "idle" /\ reply'[q] = r
      /\ \A p \in Query \ {q} :
            /\ pc'[p] = pc[p] /\ req'[p] = req[p] /\ since'[p] = since[p]
            /\ goal'[p] = goal[p] /\ got'[p] = got[p] /\ reply'[p] = reply[p]
  BY Returned
<1>2. QueriesTypeOK'
  BY Returned DEF QueriesTypeOK
<1>3. HoldsBlock' /\ ReadInOrder'
  BY <1>1 DEF HoldsBlock, ReadInOrder, Entry
<1>4. CoinsComplete' /\ SelfTestServed'
  BY <1>1, QueryAssumption DEF CoinsComplete, SelfTestServed
<1>5. QED
  BY <1>2, <1>3, <1>4 DEF Handlers

\* The same for a handler that goes from one step to another.
LEMMA AskBlockStep ==
    ASSUME QueriesInv, NEW q \in Query, NEW h \in Heights, AskBlock(q, h)
    PROVE  QueriesInv'
<1> USE DEF QueriesInv
<1>1. h \in Nat /\ h >= 1
  BY DEF Heights, QueriesTypeOK
<1>2. /\ pc' = [pc EXCEPT ![q] = "block"] /\ req' = [req EXCEPT ![q] = h]
      /\ UNCHANGED <<chain, durable, cache, trusted, indexed, next, last,
                     since, got, goal, reply>>
  BY DEF AskBlock, ledgerVars, indexVars, testVars
<1>3. QueriesTypeOK'
  BY <1>1, <1>2 DEF QueriesTypeOK
<1>4. HoldsBlock' /\ ReadInOrder'
  BY <1>1, <1>2 DEF QueriesTypeOK, HoldsBlock, ReadInOrder, Entry
<1>5. CacheInv' /\ TestInv' /\ CoinsComplete' /\ SelfTestServed'
  BY <1>2 DEF CacheInv, TestInv, CoinsComplete, SelfTestServed, Entry
<1>6. QED
  BY <1>3, <1>4, <1>5

\* get_summary takes the tip and goes on to its proof.
LEMMA AskSummaryStep ==
    ASSUME QueriesInv, NEW q \in Query, AskSummary(q)
    PROVE  QueriesInv'
<1> USE DEF QueriesInv
<1>1. /\ pc' = [pc EXCEPT ![q] = "proof"] /\ req' = [req EXCEPT ![q] = Len(chain)]
      /\ got' = [got EXCEPT ![q] = Tip(chain)]
      /\ UNCHANGED <<chain, durable, cache, trusted, indexed, next, last,
                     since, goal, reply>>
  BY DEF AskSummary, ledgerVars, indexVars, testVars
<1>2. /\ Len(chain) \in Nat /\ Tip(chain) \in Block \cup {Genesis}
      /\ Tip(chain) = Entry(Len(chain)).block
  <2>1. CASE chain = <<>>
    BY <2>1 DEF Tip, Entry
  <2>2. CASE chain # <<>>
    <3>1. chain \in Seq(Row) /\ Len(chain) \in 1 .. Len(chain)
      BY <2>2 DEF QueriesTypeOK
    <3>2. QED
      BY <2>2, <3>1, RowThere DEF Tip, Row
  <2>3. QED
    BY <2>1, <2>2 DEF QueriesTypeOK
<1>3. QueriesTypeOK'
  BY <1>1, <1>2 DEF QueriesTypeOK
<1>4. HoldsBlock' /\ ReadInOrder'
  BY <1>1, <1>2 DEF QueriesTypeOK, HoldsBlock, ReadInOrder, Entry
<1>5. CacheInv' /\ TestInv' /\ CoinsComplete' /\ SelfTestServed'
  BY <1>1 DEF CacheInv, TestInv, CoinsComplete, SelfTestServed, Entry
<1>6. QED
  BY <1>3, <1>4, <1>5

\* get_block reads the block, or finds none.
LEMMA ReadBlockStep ==
    ASSUME QueriesInv, NEW q \in Query, ReadBlock(q)
    PROVE  QueriesInv'
<1> USE DEF QueriesInv
<1>1. pc[q] = "block" /\ UNCHANGED <<chain, durable, cache, trusted, indexed, next, last>>
  BY DEF ReadBlock, ledgerVars, indexVars, testVars
<1>2. CacheInv' /\ TestInv'
  BY <1>1 DEF CacheInv, TestInv, Entry
<1>3. CASE req[q] > Len(chain)
  <2>1. Return(q, NoReply)
    BY <1>3 DEF ReadBlock
  <2>2. NoReply \in Answer => NoReply.upto >= NoReply.height /\ NoReply.upto >= NoReply.since
    BY QueryAssumption
  <2>3. Handlers'
    BY <1>1, <2>1, <2>2, ReturnStep, QueryAssumption DEF QueriesTypeOK
  <2>4. QED
    BY <1>2, <2>3 DEF Handlers
<1>4. CASE ~(req[q] > Len(chain))
  <2>1. /\ pc' = [pc EXCEPT ![q] = "proof"]
        /\ got' = [got EXCEPT ![q] = chain[req[q]].block]
        /\ UNCHANGED <<req, since, goal, reply>>
    BY <1>4 DEF ReadBlock
  <2>2. req[q] \in 1 .. Len(chain)
    BY <1>1, <1>4 DEF QueriesTypeOK, HoldsBlock
  <2>3. chain[req[q]].block \in Block /\ Entry(req[q]) = chain[req[q]]
    BY <2>2, RowThere DEF QueriesTypeOK, Row
  <2>4. QueriesTypeOK'
    BY <1>1, <2>1, <2>3 DEF QueriesTypeOK
  <2>5. HoldsBlock' /\ ReadInOrder'
    BY <1>1, <2>1, <2>2, <2>3 DEF QueriesTypeOK, HoldsBlock, ReadInOrder, Entry
  <2>6. CoinsComplete' /\ SelfTestServed'
    BY <2>1 DEF CoinsComplete, SelfTestServed
  <2>7. QED
    BY <1>2, <2>4, <2>5, <2>6
<1>5. QED
  BY <1>3, <1>4

\* The proof of the block joins it, and the cache keeps the pair.
LEMMA ReadProofStep ==
    ASSUME QueriesInv, NEW q \in Query, ReadProof(q)
    PROVE  QueriesInv'
<1> USE DEF QueriesInv
<1> DEFINE new == [height |-> req[q], block |-> got[q], proof |-> Entry(req[q]).proof]
<1>1. /\ pc[q] = "proof" /\ cache' = cache \cup {new} /\ Return(q, NoReply)
      /\ UNCHANGED <<chain, durable, indexed, next, last>>
  BY DEF ReadProof, ledgerVars, indexVars, testVars
<1>2. Handlers'
  BY <1>1, ReturnStep, QueryAssumption DEF QueriesTypeOK
<1>3. req[q] \in 0 .. Len(chain) /\ got[q] = Entry(req[q]).block
  BY <1>1 DEF QueriesTypeOK, HoldsBlock
<1>4. Entry(req[q]) = [block |-> got[q], proof |-> Entry(req[q]).proof]
  <2>1. CASE req[q] = 0
    BY <1>3, <2>1 DEF Entry
  <2>2. CASE req[q] # 0
    <3>1. chain \in Seq(Row) /\ req[q] \in 1 .. Len(chain)
      BY <1>3, <2>2 DEF QueriesTypeOK
    <3>2. QED
      BY <1>3, <3>1, RowThere DEF Row
  <2>3. QED
    BY <2>1, <2>2
<1>5. CacheInv'
  <2> SUFFICES ASSUME NEW e \in cache'
               PROVE  /\ e.height \in 0 .. Len(chain)
                      /\ Entry(e.height) = [block |-> e.block, proof |-> e.proof]
    BY <1>1 DEF CacheInv, Entry
  <2>1. CASE e \in cache
    BY <2>1 DEF CacheInv
  <2>2. CASE e = new
    BY <1>3, <1>4, <2>2
  <2>3. QED
    BY <1>1, <2>1, <2>2
<1>6. TestInv'
  BY <1>1 DEF TestInv
<1>7. QED
  BY <1>2, <1>5, <1>6 DEF Handlers

\* A coin query that comes in, from a client or from the self test; the test
\* only asks for heights it found in the storage.
LEMMA AskCoinsStep ==
    ASSUME QueriesInv, NEW q \in Query, NEW h \in Nat, AskCoins(q, h),
           q = Tester => h <= last, next' \in Nat, last' = last
    PROVE  QueriesInv'
<1> USE DEF QueriesInv
<1>1. pc[q] = "idle" /\ UNCHANGED <<chain, durable, cache, trusted, indexed>>
  BY DEF AskCoins, ledgerVars, indexVars
<1>2. CacheInv' /\ TestInv'
  BY <1>1 DEF CacheInv, TestInv, Entry
<1>3. CASE h > Len(chain)
  <2>1. Return(q, Refused)
    BY <1>3 DEF AskCoins
  <2>2. q # Tester
    BY <1>3 DEF TestInv, QueriesTypeOK
  <2>3. Refused \notin Answer
    BY QueryAssumption
  <2>4. Handlers'
    BY <1>1, <2>1, <2>2, <2>3, ReturnStep
  <2>5. QED
    BY <1>2, <2>4 DEF Handlers
<1>4. CASE ~(h > Len(chain))
  <2>1. /\ pc' = [pc EXCEPT ![q] = "goal"] /\ req' = [req EXCEPT ![q] = h]
        /\ since' = [since EXCEPT ![q] = Len(chain)]
        /\ reply' = [reply EXCEPT ![q] = NoReply]
        /\ UNCHANGED <<got, goal>>
    BY <1>4 DEF AskCoins
  <2>2. Len(chain) \in Nat /\ h <= Len(chain)
    BY <1>4 DEF QueriesTypeOK
  <2>3. QueriesTypeOK'
    BY <1>1, <2>1, <2>2 DEF QueriesTypeOK
  <2>4. HoldsBlock' /\ ReadInOrder'
    BY <1>1, <2>1, <2>2 DEF QueriesTypeOK, HoldsBlock, ReadInOrder, Entry
  <2>5. CoinsComplete' /\ SelfTestServed'
    BY <2>1, QueryAssumption DEF QueriesTypeOK, CoinsComplete, SelfTestServed
  <2>6. QED
    BY <1>2, <2>3, <2>4, <2>5
<1>5. QED
  BY <1>3, <1>4

\* The indexer is waited for up to the height of the tip as it is now.
LEMMA ReadGoalStep ==
    ASSUME QueriesInv, NEW q \in Query, ReadGoal(q)
    PROVE  QueriesInv'
<1> USE DEF QueriesInv
<1>1. /\ pc[q] = "goal" /\ goal' = [goal EXCEPT ![q] = Len(chain)]
      /\ pc' = [pc EXCEPT ![q] = "wait"]
      /\ UNCHANGED <<chain, durable, cache, trusted, indexed, next, last,
                     req, since, got, reply>>
  BY DEF ReadGoal, ledgerVars, indexVars, testVars
<1>2. QueriesTypeOK'
  BY <1>1 DEF QueriesTypeOK
<1>3. HoldsBlock' /\ ReadInOrder'
  BY <1>1 DEF QueriesTypeOK, HoldsBlock, ReadInOrder, Entry
<1>4. CacheInv' /\ TestInv' /\ CoinsComplete' /\ SelfTestServed'
  BY <1>1 DEF CacheInv, TestInv, CoinsComplete, SelfTestServed, Entry
<1>5. QED
  BY <1>2, <1>3, <1>4

\* The index has come past the goal, the goal was not below what was stored
\* when the query came in, and that not below the height asked for.
LEMMA AnswerCoinsStep ==
    ASSUME QueriesInv, NEW q \in Query, AnswerCoins(q)
    PROVE  QueriesInv'
<1> USE DEF QueriesInv
<1> DEFINE r == [height |-> req[q], since |-> since[q], upto |-> indexed]
<1>1. /\ pc[q] = "wait" /\ indexed >= goal[q] /\ Return(q, r)
      /\ UNCHANGED <<chain, durable, cache, trusted, indexed, next, last>>
  BY DEF AnswerCoins, Reached, ledgerVars, indexVars, testVars
<1>2. r \in Answer
  BY DEF QueriesTypeOK, Answer
<1>3. r.upto >= r.height /\ r.upto >= r.since
  BY <1>1 DEF QueriesTypeOK, ReadInOrder
<1>4. r # Refused
  BY <1>2, QueryAssumption
<1> HIDE DEF r
<1>5. Handlers'
  BY <1>1, <1>2, <1>3, <1>4, ReturnStep DEF QueriesTypeOK
<1>6. CacheInv' /\ TestInv'
  BY <1>1 DEF CacheInv, TestInv, Entry
<1>7. QED
  BY <1>5, <1>6 DEF Handlers

\* The storage gets a block or syncs: rows stay where they were.
LEMMA StorageStepKeeps ==
    ASSUME QueriesInv, StorageStep
    PROVE  QueriesInv'
<1> USE DEF QueriesInv
<1>1. UNCHANGED <<cache, trusted, indexed, next, last, pc, req, since, got, goal, reply>>
  BY DEF StorageStep, indexVars, testVars, callVars
<1>2. /\ chain' \in Seq(Row) /\ Len(chain') \in Nat /\ Len(chain') >= Len(chain)
      /\ durable' \in 0 .. Len(chain')
      /\ \A h \in 0 .. Len(chain) : Entry(h)' = Entry(h)
  <2>1. ASSUME NEW block \in Block, NEW proof \in Proof, Append1(block, proof)
        PROVE  /\ chain' \in Seq(Row) /\ Len(chain') \in Nat /\ Len(chain') >= Len(chain)
               /\ durable' \in 0 .. Len(chain')
               /\ \A h \in 0 .. Len(chain) : Entry(h)' = Entry(h)
    BY <2>1, RowsStay DEF QueriesTypeOK
  <2>2. CASE Sync
    BY <2>2 DEF Sync, QueriesTypeOK, Entry
  <2>3. QED
    BY <2>1, <2>2 DEF StorageStep
<1>3. QueriesTypeOK'
  BY <1>1, <1>2 DEF QueriesTypeOK
<1>4. CacheInv'
  <2> SUFFICES ASSUME NEW e \in cache
               PROVE  /\ e.height \in 0 .. Len(chain')
                      /\ Entry(e.height)' = [block |-> e.block, proof |-> e.proof]
    BY <1>1 DEF CacheInv
  <2>1. e.height \in 0 .. Len(chain)
    BY DEF CacheInv
  <2>2. Entry(e.height)' = Entry(e.height)
    BY <1>2, <2>1
  <2>3. QED
    BY <1>2, <2>1, <2>2 DEF CacheInv, QueriesTypeOK
<1>5. HoldsBlock'
  <2> SUFFICES ASSUME NEW q \in Query
               PROVE  /\ pc[q] = "block" => req[q] >= 1
                      /\ pc[q] = "proof" => /\ req[q] <= Len(chain')
                                            /\ got[q] = Entry(req[q])'.block
    BY <1>1 DEF HoldsBlock
  <2>1. CASE pc[q] = "proof"
    <3>1. req[q] \in 0 .. Len(chain) /\ got[q] = Entry(req[q]).block
      BY <2>1 DEF QueriesTypeOK, HoldsBlock
    <3>2. QED
      BY <1>1, <1>2, <2>1, <3>1 DEF QueriesTypeOK
  <2>2. CASE pc[q] # "proof"
    BY <2>2 DEF HoldsBlock
  <2>3. QED
    BY <2>1, <2>2
<1>6. ReadInOrder' /\ TestInv' /\ CoinsComplete' /\ SelfTestServed'
  BY <1>1, <1>2 DEF QueriesTypeOK, ReadInOrder, TestInv, CoinsComplete, SelfTestServed
<1>7. QED
  BY <1>3, <1>4, <1>5, <1>6

\* The process ends: whatever blocks a power loss takes back, no cache and no
\* handler remembers them.
LEMMA RestartKeeps ==
    ASSUME QueriesInv, Restart
    PROVE  QueriesInv'
<1> USE DEF QueriesInv
<1>1. /\ cache' = {} /\ next' = 1 /\ last' = 0 /\ indexed' = indexed
      /\ pc' = Idle /\ req' = Zero /\ since' = Zero
      /\ got' = NoneRead /\ goal' = Zero /\ reply' = NoReplies
  BY DEF Restart
<1>2. chain' \in Seq(Row) /\ durable' \in 0 .. Len(chain')
  <2>1. chain \in Seq(Row) /\ durable \in 0 .. Len(chain)
    BY DEF QueriesTypeOK
  <2>2. CASE PowerLoss
    <3>1. chain' = SubSeq(chain, 1, durable) /\ durable' = durable
      BY <2>2 DEF PowerLoss
    <3>2. chain' \in Seq(Row) /\ Len(chain') = durable
      BY <2>1, <3>1
    <3>3. QED
      BY <2>1, <3>1, <3>2
  <2>3. CASE UNCHANGED ledgerVars
    BY <2>1, <2>3 DEF ledgerVars
  <2>4. QED
    BY <2>2, <2>3 DEF Restart
<1>3. QueriesTypeOK'
  BY <1>1, <1>2 DEF QueriesTypeOK, Idle, Zero, NoneRead, NoReplies
<1>4. CacheInv' /\ HoldsBlock' /\ ReadInOrder' /\ TestInv'
  BY <1>1, <1>2 DEF CacheInv, HoldsBlock, ReadInOrder, TestInv, Idle
<1>5. CoinsComplete' /\ SelfTestServed'
  BY <1>1, QueryAssumption DEF CoinsComplete, SelfTestServed, NoReplies
<1>6. QED
  BY <1>3, <1>4, <1>5

\* The index, the caches and the begin of a pass of the self test.
LEMMA BackgroundKeeps ==
    ASSUME QueriesInv,
           (\E e \in cache : Evict(e)) \/ Trust \/ Follow \/ BeginTest \/ UNCHANGED vars
    PROVE  QueriesInv'
<1> USE DEF QueriesInv
<1>1. /\ UNCHANGED <<chain, durable, pc, req, since, got, goal, reply>>
      /\ cache' \subseteq cache
      /\ indexed' \in Nat /\ next' \in Nat /\ last' \in Nat /\ last' <= Len(chain)
  BY QueryAssumption DEF QueriesTypeOK, TestInv, Evict, Trust, Follow, BeginTest, vars,
                         ledgerVars, indexVars, testVars, callVars
<1>2. QueriesTypeOK' /\ TestInv'
  BY <1>1 DEF QueriesTypeOK, TestInv
<1>3. CacheInv' /\ HoldsBlock' /\ ReadInOrder'
  BY <1>1 DEF CacheInv, HoldsBlock, ReadInOrder, Entry
<1>4. CoinsComplete' /\ SelfTestServed'
  BY <1>1 DEF CoinsComplete, SelfTestServed
<1>5. QED
  BY <1>2, <1>3, <1>4

\* No action breaks QueriesInv.
LEMMA QueriesStep == QueriesInv /\ [Next]_vars => QueriesInv'
<1> SUFFICES ASSUME QueriesInv, [Next]_vars PROVE QueriesInv'
  OBVIOUS
<1>1. ASSUME NEW q \in Query \ {Tester}, NEW h \in Heights, AskBlock(q, h)
      PROVE  QueriesInv'
  BY <1>1, AskBlockStep
<1>2. ASSUME NEW q \in Query \ {Tester}, AskSummary(q) PROVE QueriesInv'
  BY <1>2, AskSummaryStep
<1>3. ASSUME NEW q \in Query \ {Tester}, NEW h \in Heights \cup {0},
             AskCoins(q, h), UNCHANGED testVars
      PROVE  QueriesInv'
  <2>1. h \in Nat /\ next' \in Nat /\ last' = last
    BY <1>3 DEF Heights, QueriesInv, QueriesTypeOK, testVars
  <2>2. QED
    BY <1>3, <2>1, AskCoinsStep
<1>4. ASSUME NEW q \in Query, Handle(q) PROVE QueriesInv'
  BY <1>4, ReadBlockStep, ReadProofStep, ReadGoalStep, AnswerCoinsStep DEF Handle
<1>5. CASE TestBlock
  <2>1. /\ next \in Nat /\ next <= last /\ AskCoins(Tester, next)
        /\ next' \in Nat /\ last' = last
    BY <1>5 DEF TestBlock, QueriesInv, QueriesTypeOK
  <2>2. QED
    BY <2>1, AskCoinsStep, QueryAssumption
<1>6. CASE StorageStep
  BY <1>6, StorageStepKeeps
<1>7. CASE Restart
  BY <1>7, RestartKeeps
<1>8. CASE (\E e \in cache : Evict(e)) \/ Trust \/ Follow \/ BeginTest \/ UNCHANGED vars
  BY <1>8, BackgroundKeeps
<1>9. QED
  BY <1>1, <1>2, <1>3, <1>4, <1>5, <1>6, <1>7, <1>8 DEF Next

\* QueriesInv in every reachable state.
LEMMA QueriesInvariant == Spec => []QueriesInv
BY QueriesInitInv, QueriesStep, PTL DEF Spec

\* For any blocks and any number of handlers, what the caches of get_summary,
\* get_abbr_block and get_coin_tree hold is what the tables hold.
THEOREM CachesAlwaysMatch == Spec => []CachesMatch
<1>1. QueriesInv => CachesMatch
  <2> SUFFICES ASSUME QueriesInv, NEW e \in cache
               PROVE  /\ e.height <= Len(chain)
                      /\ Entry(e.height) = [block |-> e.block, proof |-> e.proof]
    BY DEF CachesMatch
  <2>1. e.height \in 0 .. Len(chain)
    BY DEF QueriesInv, CacheInv
  <2>2. e.height <= Len(chain)
    BY <2>1 DEF QueriesInv, QueriesTypeOK
  <2>3. Entry(e.height) = [block |-> e.block, proof |-> e.proof]
    BY DEF QueriesInv, CacheInv
  <2>4. QED
    BY <2>2, <2>3
<1>2. QED
  BY <1>1, QueriesInvariant, PTL

\* For any number of queries, get_coin_changes answers from an index that
\* covers the height asked for and every block stored before.
THEOREM CoinsAlwaysComplete == Spec => []CoinsComplete
<1>1. QueriesInv => CoinsComplete
  BY DEF QueriesInv
<1>2. QED
  BY <1>1, QueriesInvariant, PTL

\* The self test of main.rs never meets an unwrap of None, whatever height it
\* starts from.
THEOREM SelfTestAlwaysServed == Spec => []SelfTestServed
<1>1. QueriesInv => SelfTestServed
  BY DEF QueriesInv
<1>2. QED
  BY <1>1, QueriesInvariant, PTL
=============================================================================
