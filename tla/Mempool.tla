------------------------------ MODULE Mempool ------------------------------
(***************************************************************************)
(* The mempool: an unsealed state on top of a base block, the hashes of    *)
(* the transactions seen since the last rebase and the weight accepted.    *)
(* A transaction is reduced to the coins it spends and makes, which is     *)
(* what decides whether two of them fit in one block.                      *)
(***************************************************************************)
EXTENDS Chain

CONSTANTS
    Tx,            \* transactions
    Coin,          \* coin ids
    Spends,        \* Tx -> SUBSET Coin
    Makes,         \* Tx -> SUBSET Coin
    Weight,        \* Tx -> Nat, Transaction::weight
    WeightLimit,   \* WEIGHT_LIMIT
    UnspentAfter   \* Block -> SUBSET Coin, the coins of the state

ASSUME TxAssumption ==
    /\ \A t \in Tx : /\ Spends[t] \subseteq Coin /\ Makes[t] \subseteq Coin
                     /\ Weight[t] \in Nat
    /\ WeightLimit \in Nat
    /\ \A b \in Block : UnspentAfter[b] \subseteq Coin

\* Among the transactions are all that block b and the ones below it confirm:
\* each of these spent a coin that is gone, and stays gone.
Confirms(b, txs) ==
    /\ \A t \in Tx : Makes[t] \cap UnspentAfter[b] # {} => t \in txs
    /\ \A t \in txs : \E c \in Spends[t] :
          /\ c \notin UnspentAfter[b]
          /\ \A u \in Tx : c \in Makes[u] => u \in txs

\* Coins are named after the transaction that makes them (CoinID), and melstf
\* confirms no transaction twice.
ASSUME CoinAssumption ==
    /\ \A t, u \in Tx : t # u => Makes[t] \cap Makes[u] = {}
    /\ \A b \in Block : \E txs \in SUBSET Tx : Confirms(b, txs)

VARIABLES
    mpBase,     \* the block the provisional state builds on
    mpHeight,   \* its height
    mpCoins,    \* its unspent coins
    mpTxs,      \* its transactions
    mpSeen,     \* txx_in_state
    mpWeight    \* next_weight

mempoolVars == <<mpBase, mpHeight, mpCoins, mpTxs, mpSeen, mpWeight>>

MempoolTypeOK ==
    /\ mpBase \in Block
    /\ mpHeight \in Nat
    /\ mpCoins \subseteq Coin
    /\ mpTxs \subseteq Tx /\ mpSeen \subseteq Tx
    /\ mpWeight \in Nat

\* Mempool::new(genesis.realize(..)): the genesis state itself, unsealed, so
\* the height is 0 where a rebase on genesis gives 1.
FreshMempool ==
    /\ mpBase' = Genesis /\ mpHeight' = 0
    /\ mpCoins' = UnspentAfter[Genesis]
    /\ mpTxs' = {} /\ mpSeen' = {} /\ mpWeight' = 0

MempoolInit ==
    /\ mpBase = Genesis /\ mpHeight = 0
    /\ mpCoins = UnspentAfter[Genesis]
    /\ mpTxs = {} /\ mpSeen = {} /\ mpWeight = 0

\* Mutated form of ApplyTransaction: the weight is added before the state takes
\* the transaction.
ApplyTransactionWeighFirst(tx) ==
    /\ mpWeight < WeightLimit /\ tx \notin mpSeen
    /\ mpSeen' = mpSeen \cup {tx}
    /\ mpWeight' = mpWeight + Weight[tx]
    /\ IF Spends[tx] \subseteq mpCoins
       THEN /\ mpCoins' = (mpCoins \ Spends[tx]) \cup Makes[tx]
            /\ mpTxs' = mpTxs \cup {tx}
       ELSE UNCHANGED <<mpCoins, mpTxs>>
    /\ UNCHANGED <<mpBase, mpHeight>>

\* Mempool::apply_transaction.  The hash is recorded before the state gets to
\* refuse the transaction, and it stays recorded when it does.  The two calls
\* that change nothing (mempool full, duplicate) are no steps.
ApplyTransaction(tx) ==
    /\ mpWeight < WeightLimit /\ tx \notin mpSeen
    /\ mpSeen' = mpSeen \cup {tx}
    /\ IF Spends[tx] \subseteq mpCoins
       THEN /\ mpCoins' = (mpCoins \ Spends[tx]) \cup Makes[tx]
            /\ mpTxs' = mpTxs \cup {tx}
            /\ mpWeight' = mpWeight + Weight[tx]
       ELSE UNCHANGED <<mpCoins, mpTxs, mpWeight>>
    /\ UNCHANGED <<mpBase, mpHeight>>

\* Mutated form of Rebase: the transactions of the pool are kept.
RebaseKeepTxs(b) ==
    /\ mpBase' = b /\ mpHeight' = Height[b] + 1
    /\ mpCoins' = UnspentAfter[b]
    /\ mpSeen' = {} /\ mpWeight' = 0
    /\ UNCHANGED mpTxs

\* Mempool::rebase: whatever the pool held is thrown away.
Rebase(b) ==
    /\ mpBase' = b /\ mpHeight' = Height[b] + 1
    /\ mpCoins' = UnspentAfter[b]
    /\ mpTxs' = {} /\ mpSeen' = {} /\ mpWeight' = 0

-----------------------------------------------------------------------------
\* The pool's transactions make a block on top of its base: no coin is spent
\* twice, and every coin spent comes from the base or from a transaction of
\* the pool.  A transaction of before a rebase, or one already confirmed in
\* the base, would break it.
PoolMakesABlock ==
    /\ \A t, u \in mpTxs : t # u => Spends[t] \cap Spends[u] = {}
    /\ \A t \in mpTxs : Spends[t] \subseteq
            UnspentAfter[mpBase] \cup UNION {Makes[u] : u \in mpTxs \ {t}}

\* The weight of some transactions together.
WeightOf(txs) == FoldSet(LAMBDA t, sum : sum + Weight[t], 0, txs)

\* next_weight is the weight of the transactions in the pool, the refused
\* ones left out, and only the last one accepted may overshoot the limit.
PoolWeight ==
    /\ mpWeight = WeightOf(mpTxs)
    /\ mpTxs # {} => \E t \in mpTxs : mpWeight - Weight[t] < WeightLimit
=============================================================================
