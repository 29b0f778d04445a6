---------------------------- MODULE NodeQueries ----------------------------
(***************************************************************************)
(* The queries of node.rs over the storage, of which only the Ledger is    *)
(* seen: blocks and proofs served through caches keyed by height, coins    *)
(* served from an index that follows the storage over the node's own RPC,  *)
(* and the self test of main.rs, which asks for the coins of every block.  *)
(*                                                                         *)
(* abbr_block_cache, summary and coin_smts hold what was computed from the *)
(* block (and proof) of a height: one set stands for the three.  The index *)
(* (melblkidx, external) is the height it has reached; it has a file of    *)
(* its own, so it survives the process.                                    *)
(***************************************************************************)
EXTENDS Ledger

CONSTANTS
    Query,         \* handlers of queries
    Tester,        \* the one the self test's client talks to
    FirstTested,   \* the height the self test starts from, 10
    NoProof,       \* the proof of the genesis in a summary: empty
    NoReply, Refused

\* How a coin query was answered.
Answer == [height : Nat, since : Nat, upto : Nat]

ASSUME QueryAssumption ==
    /\ Tester \in Query /\ FirstTested \in Nat \ {0}
    /\ Refused # NoReply /\ {Refused, NoReply} \cap Answer = {}

VARIABLES
    cache,      \* entries [height, block, proof]
    trusted,    \* the height indexer_loop has told the index to trust
    indexed,    \* Indexer::max_height
    pc,         \* per query: "idle" | "block" | "proof" | "goal" | "wait"
    req, since, \* per query: the height asked for, the chain's length then
    got, goal,  \* per query: the block read, the height to wait for
    reply,      \* per query: how the last coin query ended
    next, last  \* the self test: the height at hand, last_height

indexVars == <<trusted, indexed>>
testVars  == <<next, last>>
callVars  == <<pc, req, since, got, goal, reply>>
vars == <<ledgerVars, cache, indexVars, testVars, callVars>>

\* What the tables have for a height; no row for the genesis, so no proof.
Entry(h) == IF h = 0 THEN [block |-> Genesis, proof |-> NoProof] ELSE chain[h]

Cached(h) == \E e \in cache : e.height = h

-----------------------------------------------------------------------------
\* A handler returns: its variables go out of scope.
Return(q, r) ==
    /\ pc' = [pc EXCEPT ![q] = "idle"]
    /\ req' = [req EXCEPT ![q] = 0] /\ since' = [since EXCEPT ![q] = 0]
    /\ got' = [got EXCEPT ![q] = Genesis] /\ goal' = [goal EXCEPT ![q] = 0]
    /\ reply' = [reply EXCEPT ![q] = r]

\* get_abbr_block, get_coin_tree: a miss in the cache; a hit is no step.
AskBlock(q, h) ==
    /\ pc[q] = "idle" /\ ~Cached(h)
    /\ pc' = [pc EXCEPT ![q] = "block"]
    /\ req' = [req EXCEPT ![q] = h]
    /\ UNCHANGED <<ledgerVars, cache, indexVars, testVars, since, got, goal, reply>>

\* storage.get_block: a block that is not there yet is not remembered.
ReadBlock(q) ==
    /\ pc[q] = "block"
    /\ IF req[q] > Len(chain) THEN Return(q, NoReply)
       ELSE /\ pc' = [pc EXCEPT ![q] = "proof"]
            /\ got' = [got EXCEPT ![q] = chain[req[q]].block]
            /\ UNCHANGED <<req, since, goal, reply>>
    /\ UNCHANGED <<ledgerVars, cache, indexVars, testVars>>

\* get_summary: highest_state, and a miss in the cache.
AskSummary(q) ==
    /\ pc[q] = "idle" /\ ~Cached(Len(chain))
    /\ pc' = [pc EXCEPT ![q] = "proof"]
    /\ req' = [req EXCEPT ![q] = Len(chain)]
    /\ got' = [got EXCEPT ![q] = Tip(chain)]
    /\ UNCHANGED <<ledgerVars, cache, indexVars, testVars, since, goal, reply>>

\* Mutated form of ReadProof: the proof is looked up at the current height.
ReadProofOfTip(q) ==
    /\ pc[q] = "proof"
    /\ cache' = cache \cup {[height |-> req[q], block |-> got[q],
                             proof |-> Entry(Len(chain)).proof]}
    /\ Return(q, NoReply)
    /\ UNCHANGED <<ledgerVars, indexVars, testVars>>

\* storage.get_consensus of the height read before, by now perhaps not the
\* highest; the answer is cached.
ReadProof(q) ==
    /\ pc[q] = "proof"
    /\ cache' = cache \cup {[height |-> req[q], block |-> got[q],
                             proof |-> Entry(req[q]).proof]}
    /\ Return(q, NoReply)
    /\ UNCHANGED <<ledgerVars, indexVars, testVars>>

\* The caches are bounded.
Evict(e) ==
    /\ e \in cache
    /\ cache' = cache \ {e}
    /\ UNCHANGED <<ledgerVars, indexVars, testVars, callVars>>

\* get_coin_changes of height h looks for the block first; get_some_coins and
\* get_coin_spend (h = 0 here) do not.
AskCoins(q, h) ==
    /\ pc[q] = "idle"
    /\ IF h > Len(chain) THEN Return(q, Refused)
       ELSE /\ pc' = [pc EXCEPT ![q] = "goal"]
            /\ req' = [req EXCEPT ![q] = h]
            /\ since' = [since EXCEPT ![q] = Len(chain)]
            /\ reply' = [reply EXCEPT ![q] = NoReply]
            /\ UNCHANGED <<got, goal>>
    /\ UNCHANGED <<ledgerVars, cache, indexVars>>

\* Mutated form of ReadGoal: the height the index is told to trust.
ReadGoalTrusted(q) ==
    /\ pc[q] = "goal"
    /\ goal' = [goal EXCEPT ![q] = trusted]
    /\ pc' = [pc EXCEPT ![q] = "wait"]
    /\ UNCHANGED <<ledgerVars, cache, indexVars, testVars, req, since, got, reply>>

\* get_indexer: highest_height, read once.
ReadGoal(q) ==
    /\ pc[q] = "goal"
    /\ goal' = [goal EXCEPT ![q] = Len(chain)]
    /\ pc' = [pc EXCEPT ![q] = "wait"]
    /\ UNCHANGED <<ledgerVars, cache, indexVars, testVars, req, since, got, reply>>

\* What get_indexer waits for.
Reached(q) == indexed >= goal[q]

\* The lists of changes, coins or spends are read from the index.
AnswerCoins(q) ==
    /\ pc[q] = "wait" /\ Reached(q)
    /\ Return(q, [height |-> req[q], since |-> since[q], upto |-> indexed])
    /\ UNCHANGED <<ledgerVars, cache, indexVars, testVars>>

-----------------------------------------------------------------------------
\* Mutated form of Trust: the checkpoint is given once.
TrustOnce ==
    /\ trusted = 0 /\ trusted' = Len(chain)
    /\ UNCHANGED <<ledgerVars, cache, indexed, testVars, callVars>>

\* indexer_loop, every second.
Trust ==
    /\ trusted # Len(chain) /\ trusted' = Len(chain)
    /\ UNCHANGED <<ledgerVars, cache, indexed, testVars, callVars>>

\* The index asks this node for its next block.
Follow ==
    /\ indexed < trusted /\ indexed < Len(chain)
    /\ indexed' = indexed + 1
    /\ UNCHANGED <<ledgerVars, cache, trusted, testVars, callVars>>

\* A pass of the self test (main.rs:80-84), if the block below the first one
\* to test is there; otherwise the test ends, in silence.
BeginTest ==
    /\ next > last /\ pc[Tester] = "idle" /\ Len(chain) >= FirstTested - 1
    /\ next' = FirstTested /\ last' = Len(chain)
    /\ UNCHANGED <<ledgerVars, cache, indexVars, callVars>>

\* Mutated form of TestBlock: one height too far.
TestBlockBeyond ==
    /\ next <= last + 1 /\ last > 0
    /\ AskCoins(Tester, next)
    /\ next' = next + 1 /\ UNCHANGED last

TestBlock ==
    /\ next <= last
    /\ AskCoins(Tester, next)
    /\ next' = next + 1 /\ UNCHANGED last

-----------------------------------------------------------------------------
Idle == [q \in Query |-> "idle"]
Zero == [q \in Query |-> 0]
NoneRead == [q \in Query |-> Genesis]
NoReplies == [q \in Query |-> NoReply]

Init ==
    /\ LedgerInit
    /\ cache = {} /\ trusted = 0 /\ indexed = 0 /\ next = 1 /\ last = 0
    /\ pc = Idle /\ req = Zero /\ since = Zero
    /\ got = NoneRead /\ goal = Zero /\ reply = NoReplies

\* The process ends, by a power loss or without one.
Restart ==
    /\ PowerLoss \/ UNCHANGED ledgerVars
    /\ cache' = {} /\ trusted' = 0 /\ next' = 1 /\ last' = 0 /\ UNCHANGED indexed
    /\ pc' = Idle /\ req' = Zero /\ since' = Zero
    /\ got' = NoneRead /\ goal' = Zero /\ reply' = NoReplies

\* The storage gets a block, or syncs.
StorageStep ==
    /\ \/ \E block \in Block, proof \in Proof : Append1(block, proof)
       \/ Sync
    /\ UNCHANGED <<cache, indexVars, testVars, callVars>>

Handle(q) == ReadBlock(q) \/ ReadProof(q) \/ ReadGoal(q) \/ AnswerCoins(q)

Heights == 1 .. Len(chain) + 1

Next ==
    \/ \E q \in Query \ {Tester} :
        \/ \E h \in Heights : AskBlock(q, h)
        \/ AskSummary(q)
        \/ \E h \in Heights \cup {0} : AskCoins(q, h) /\ UNCHANGED testVars
    \/ \E q \in Query : Handle(q)
    \/ \E e \in cache : Evict(e)
    \/ Trust \/ Follow \/ BeginTest \/ TestBlock
    \/ StorageStep \/ Restart

Spec == Init /\ [][Next]_vars

\* Handlers run, the loop of the index and its requests go on.
Fairness == /\ \A q \in Query : WF_vars(Handle(q))
            /\ WF_vars(Trust) /\ WF_vars(Follow)

FairSpec == Spec /\ Fairness

-----------------------------------------------------------------------------
\* Every cached answer is the stored block of its height with that block's
\* proof, although block and proof are read at different times while the
\* chain grows, and power losses put other blocks at the same height.
CachesMatch ==
    \A e \in cache : /\ e.height <= Len(chain)
                     /\ Entry(e.height) = [block |-> e.block, proof |-> e.proof]

\* A coin query is answered from an index that covers the height asked for and
\* every block stored when it came in: the "indexer test" of main.rs:111 finds
\* the coin its block made.
CoinsComplete ==
    \A q \in Query : reply[q] \notin {NoReply, Refused} =>
        reply[q].upto >= reply[q].height /\ reply[q].upto >= reply[q].since

\* main.rs:107, unwrap: the self test is never told that a block it has just
\* replayed is unknown.
SelfTestServed == reply[Tester] # Refused

\* get_indexer's loop ends, though the storage grows while it waits.
QueriesAnswered == \A q \in Query : pc[q] # "idle" ~> pc[q] = "idle"
=============================================================================
