------------------------------ MODULE TxGossip ------------------------------
(***************************************************************************)
(* send_tx and the broadcast of transactions between nodes: a table of     *)
(* what was seen in the last ten seconds, looked up and filled under two   *)
(* locks, the mempool's own set of hashes, and a call to each of up to     *)
(* sixteen neighbours for what the mempool took.  Calls come from clients  *)
(* too, who repeat them at will.                                           *)
(*                                                                         *)
(* Blocks are the sets of transactions they confirm; a node that applies   *)
(* one rebases its mempool, which throws the transactions in it away.  Of  *)
(* two handlers of a node only the first lock can be told apart: nobody    *)
(* sees the table between put and apply_transaction differently.           *)
(***************************************************************************)
EXTENDS Naturals, Sequences

CONSTANTS
    Node, Client,
    Routes,      \* Node -> SUBSET Node, swarm.routes(), the first sixteen
    Entry,       \* the nodes the clients call
    Tx,          \* transactions clients send
    Elsewhere,   \* transactions only the makers of blocks know
    Needs,       \* Tx -> the transactions that make the coins it spends
    MaxBlocks,   \* bound: blocks, the one all nodes start from included
    MaxLost      \* bound: calls between nodes that fail or time out

ASSUME GossipAssumption ==
    /\ Client \notin Node /\ Entry \subseteq Node
    /\ Routes \in [Node -> SUBSET Node] /\ Needs \in [Tx -> SUBSET (Tx \cup Elsewhere)]
    /\ MaxBlocks \in Nat /\ MaxLost \in Nat

\* A caller's send_tx to a node.
Call == [from : Node \cup {Client}, to : Node, tx : Tx]

VARIABLES
    blocks,   \* the chain: a sequence of sets of transactions
    height,   \* per node: how much of it was applied
    pool,     \* per node: the transactions of the mempool
    seen,     \* per node: txx_in_state
    recent,   \* per node: the entries of the last ten seconds
    calls,    \* calls on their way
    past,     \* calls whose handler is past the look-up of the recent table
    lost

vars == <<blocks, height, pool, seen, recent, calls, past, lost>>

Confirmed(n) == UNION {blocks[h] : h \in 1 .. height[n]}

\* apply_tx: the coins it spends are there.
Applies(n, tx) ==
    /\ tx \notin pool[n] \cup Confirmed(n)
    /\ Needs[tx] \subseteq pool[n] \cup Confirmed(n)

-----------------------------------------------------------------------------
Submit(n, tx) ==
    LET c == [from |-> Client, to |-> n, tx |-> tx]
    IN  /\ c \notin calls \cup past
        /\ calls' = calls \cup {c}
        /\ UNCHANGED <<blocks, height, pool, seen, recent, past, lost>>

\* Lines 189-193: refused if recently seen.
Peek(c) ==
    /\ c \in calls
    /\ calls' = calls \ {c}
    /\ past' = IF c.tx \in recent[c.to] THEN past ELSE past \cup {c}
    /\ UNCHANGED <<blocks, height, pool, seen, recent, lost>>

\* The transaction is recorded, and the mempool records its hash before its
\* state may refuse it (mempool.rs:38).
Judge(c) ==
    /\ c \in past
    /\ past' = past \ {c}
    /\ recent' = [recent EXCEPT ![c.to] = @ \cup {c.tx}]
    /\ seen' = [seen EXCEPT ![c.to] = @ \cup {c.tx}]
    /\ UNCHANGED <<blocks, height, lost>>

Accepted(c) == c.tx \notin seen[c.to] /\ Applies(c.to, c.tx)

Insert(c) == pool' = [pool EXCEPT ![c.to] = @ \cup {c.tx}]

Broadcast(c) ==
    calls' = calls \cup {[from |-> c.to, to |-> m, tx |-> c.tx] : m \in Routes[c.to]}

\* Mutated form of Handle: passed on whatever the mempool says.
HandleEcho(c) ==
    /\ Judge(c) /\ Broadcast(c)
    /\ IF Accepted(c) THEN Insert(c) ELSE UNCHANGED pool

\* Mutated form of Handle: only what clients send is passed on.
HandleNoRelay(c) ==
    /\ Judge(c)
    /\ IF Accepted(c) THEN Insert(c) ELSE UNCHANGED pool
    /\ IF Accepted(c) /\ c.from = Client THEN Broadcast(c) ELSE UNCHANGED calls

\* Lines 194-228: what the mempool takes is passed on.
Handle(c) ==
    /\ Judge(c)
    /\ IF Accepted(c) THEN Insert(c) /\ Broadcast(c) ELSE UNCHANGED <<pool, calls>>

\* The neighbour cannot be reached.
Lose(c) ==
    /\ c \in calls /\ c.from \in Node /\ lost < MaxLost
    /\ calls' = calls \ {c} /\ lost' = lost + 1
    /\ UNCHANGED <<blocks, height, pool, seen, recent, past>>

\* Ten seconds have passed, or the table of 1000 entries needed the place.
Forget(n, tx) ==
    /\ tx \in recent[n]
    /\ recent' = [recent EXCEPT ![n] = @ \ {tx}]
    /\ UNCHANGED <<blocks, height, pool, seen, calls, past, lost>>

\* The stakers agree on a proposal: the pool of one of them, or that of a
\* staker who knows other transactions too.
MakeBlock(n, others) ==
    /\ Len(blocks) < MaxBlocks /\ height[n] = Len(blocks)
    /\ blocks' = Append(blocks, pool[n] \cup others)
    /\ UNCHANGED <<height, pool, seen, recent, calls, past, lost>>

\* Mutated form of ApplyBlock: the rebase keeps txx_in_state.
ApplyBlockKeepSeen(n) ==
    /\ height[n] < Len(blocks)
    /\ height' = [height EXCEPT ![n] = @ + 1]
    /\ pool' = [pool EXCEPT ![n] = {}]
    /\ UNCHANGED <<blocks, seen, recent, calls, past, lost>>

\* A node stores the next block and rebases its mempool.
ApplyBlock(n) ==
    /\ height[n] < Len(blocks)
    /\ height' = [height EXCEPT ![n] = @ + 1]
    /\ pool' = [pool EXCEPT ![n] = {}]
    /\ seen' = [seen EXCEPT ![n] = {}]
    /\ UNCHANGED <<blocks, recent, calls, past, lost>>

-----------------------------------------------------------------------------
Init ==
    /\ \E old \in SUBSET Elsewhere : blocks = <<old>>
    /\ height = [n \in Node |-> 1]
    /\ pool = [n \in Node |-> {}] /\ seen = [n \in Node |-> {}]
    /\ recent = [n \in Node |-> {}]
    /\ calls = {} /\ past = {} /\ lost = 0

Next ==
    \/ \E n \in Entry, tx \in Tx : Submit(n, tx)
    \/ \E c \in calls : Peek(c) \/ Lose(c)
    \/ \E c \in past : Handle(c)
    \/ \E n \in Node : \/ \E tx \in Tx : Forget(n, tx)
                       \/ \E others \in SUBSET Elsewhere : MakeBlock(n, others)
                       \/ ApplyBlock(n)

Spec == Init /\ [][Next]_vars

\* Handlers run, time passes, clients repeat their calls, blocks spread.
Fairness ==
    /\ \A c \in Call : WF_vars(Peek(c)) /\ WF_vars(Handle(c))
    /\ \A n \in Entry, tx \in Tx : WF_vars(Submit(n, tx))
    /\ \A n \in Node : /\ WF_vars(ApplyBlock(n))
                       /\ \A tx \in Tx : WF_vars(Forget(n, tx))

FairSpec == Spec /\ Fairness

-----------------------------------------------------------------------------
\* Gossip dies out, however often clients repeat themselves and although the
\* recently-seen table forgets and lets two copies pass at once: transactions
\* "are only gossipped further if Mempool accepts them" (README.md:183).
GossipEnds == <>[](\A c \in calls \cup past : c.from = Client)

\* As long as no block comes in between, a transaction one node takes is
\* taken by all, although a call may fail: each node that takes it passes it
\* on to all its neighbours.
ReachesAll ==
    \A tx \in Tx :
        (\E n \in Node : tx \in pool[n]) ~>
            Len(blocks) > 1 \/ \A m \in Node : tx \in pool[m]

\* A client that goes on sending a transaction that came before its parent
\* gets it in, once a block has confirmed the parent: neither the table nor
\* the mempool's set refuses it for ever.
RepeatedGetsIn ==
    \A n \in Entry, tx \in Tx :
        Needs[tx] \subseteq Confirmed(n) ~> tx \in pool[n] \cup Confirmed(n)
=============================================================================
