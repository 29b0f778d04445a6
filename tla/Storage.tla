------------------------------ MODULE Storage ------------------------------
(***************************************************************************)
(* storage.rs: the tables, the forest, the mempool and the new-block       *)
(* notification, under the callers of apply_block.                         *)
(*                                                                         *)
(* Each call of apply_block runs through the await points of the function  *)
(* (pc), under the async mutex.  highest_state() is one step although it   *)
(* makes three queries: rows are never updated and the rows of one height  *)
(* appear in one transaction, so the later queries return what they would  *)
(* have returned at the time of the first.  For the same reason old_cache, *)
(* which only holds blocks read from the table, is left out.               *)
(*                                                                         *)
(* A caller may drop the future it awaits (the staker races apply_block    *)
(* against the arrival of the same block).  The mutex guard is released at *)
(* once, but a transaction already handed to the blocking thread pool runs *)
(* on: it is then in detached.                                             *)
(***************************************************************************)
EXTENDS Mempool

CONSTANTS
    Proof,         \* the consensus proofs that may come with a block
    Task,          \* the callers of apply_block
    Cancellable,   \* the callers that may drop a call half way
    Waiter,        \* the callers of get_state_or_wait
    Free,          \* the value of lock when nobody holds it
    NoJob          \* the value of job when there is no call

\* The arguments of a call.
Job == [block : Block \ {Genesis}, proof : Proof]

ASSUME StorageAssumption ==
    /\ Cancellable \subseteq Task
    /\ Free \notin Task
    /\ NoJob \notin Job

VARIABLES
    db,          \* what a query sees: the three tables
    disk,        \* the tables as of the last sync, what a power loss leaves
    flushed,     \* blocks whose state's merkle nodes are on disk (merkle.db)
    lock,        \* Storage::lock
    pc, job,     \* per task: where its call stands, and the call's arguments
    tip,         \* per task: the last result of highest_state()
    detached,    \* transactions that outlived the call that started them
    wpc, want,   \* per waiter: where its call stands, the height it asks for
    ear          \* per waiter: its listener was notified

callVars   == <<lock, pc, job, tip, detached>>
tableVars  == <<db, disk, flushed>>
waiterVars == <<wpc, want, ear>>
vars == <<mempoolVars, tableVars, callVars, waiterVars>>

-----------------------------------------------------------------------------
\* Tables.

\* The genesis rows open() makes sure of.
GenesisRows == {[doc |-> d, height |-> 0] : d \in GenesisStakes}

EmptyDb == [history |-> {}, proofs |-> {}, stakes |-> GenesisRows]

HasHeight(d, h) == \E b \in d.history : Height[b] = h

\* highest_state: the block of max(height), or the genesis.
Highest(d) ==
    IF d.history = {} THEN Genesis
    ELSE CHOOSE b \in d.history : \A c \in d.history : Height[c] <= Height[b]

\* Mutated form of StakeSet: rows of later blocks are not filtered out.
StakeSetAllRows(d, b) ==
    LET docs == GenesisStakes \cup {r.doc : r \in d.stakes}
    IN  IF b = Genesis THEN GenesisStakes
        ELSE {doc \in docs : Unexpired(doc, Epoch(Height[b]))}

\* get_stakeset at the height of block b; the genesis state carries its own.
StakeSet(d, b) ==
    LET docs == GenesisStakes
                  \cup {r.doc : r \in {s \in d.stakes : s.height <= Height[b]}}
    IN  IF b = Genesis THEN GenesisStakes
        ELSE {doc \in docs : Unexpired(doc, Epoch(Height[b]))}

\* The rows the transaction of apply_block inserts.
Insert(d, block, proof) ==
    [history |-> d.history \cup {block},
     proofs  |-> d.proofs \cup {[height |-> Height[block], proof |-> proof]},
     stakes  |-> d.stakes \cup
                    {[doc |-> doc, height |-> Height[block]] : doc \in Mirrored(block)}]

-----------------------------------------------------------------------------
\* Calls of apply_block.

\* The points of the call at which the task holds the mutex, and the ones at
\* which it awaits something (where the future can be dropped).
Critical == {"tip", "check", "flush", "commit", "next", "rebase", "notify"}
Awaiting == {"lock", "tip", "commit", "next"}

Call(t, block, proof) ==
    /\ pc[t] = "idle"
    /\ pc' = [pc EXCEPT ![t] = "lock"]
    /\ job' = [job EXCEPT ![t] = [block |-> block, proof |-> proof]]
    /\ UNCHANGED <<mempoolVars, tableVars, waiterVars, lock, tip, detached>>

\* Mutated form of AcquireLock: calls do not exclude each other.
AcquireLockShared(t) ==
    /\ pc[t] = "lock"
    /\ pc' = [pc EXCEPT ![t] = "tip"]
    /\ UNCHANGED <<mempoolVars, tableVars, waiterVars, lock, job, tip, detached>>

AcquireLock(t) ==
    /\ pc[t] = "lock" /\ lock = Free
    /\ lock' = t
    /\ pc' = [pc EXCEPT ![t] = "tip"]
    /\ UNCHANGED <<mempoolVars, tableVars, waiterVars, job, tip, detached>>

ReadHighest(t) ==
    /\ pc[t] = "tip"
    /\ tip' = [tip EXCEPT ![t] = Highest(db)]
    /\ pc' = [pc EXCEPT ![t] = "check"]
    /\ UNCHANGED <<mempoolVars, tableVars, waiterVars, lock, job, detached>>

\* Mutated form of Applies: the votes are not compared with the threshold.
AppliesUnsigned(t) ==
    LET block == job[t].block
    IN  /\ Height[block] = Height[tip[t]] + 1
        /\ block \in Sound /\ Prev[block] = tip[t]

\* The height, the consensus proof and the state transition function.
Applies(t) ==
    LET block == job[t].block
    IN  /\ Height[block] = Height[tip[t]] + 1
        /\ Enough(Tally(StakeSet(db, tip[t]), Epoch(Height[block]), job[t].proof))
        /\ block \in Sound /\ Prev[block] = tip[t]

\* The call is over, or its future dropped: its variables go out of scope and
\* the guard, if it has one, releases the mutex.
Return(t) ==
    /\ pc' = [pc EXCEPT ![t] = "idle"]
    /\ job' = [job EXCEPT ![t] = NoJob]
    /\ tip' = [tip EXCEPT ![t] = Genesis]
    /\ lock' = IF lock = t THEN Free ELSE lock

Reject(t) ==
    /\ pc[t] = "check" /\ ~Applies(t)
    /\ Return(t)
    /\ UNCHANGED <<mempoolVars, tableVars, waiterVars, detached>>

\* Mutated form of Execute: the forest is not flushed.
ExecuteUnflushed(t) ==
    /\ pc[t] = "check" /\ Applies(t)
    /\ pc' = [pc EXCEPT ![t] = "commit"]
    /\ UNCHANGED <<mempoolVars, tableVars, waiterVars, lock, job, tip, detached>>

\* highest_state.apply_block(&blk): the new state's nodes go to the forest.
Execute(t) ==
    /\ pc[t] = "check" /\ Applies(t)
    /\ pc' = [pc EXCEPT ![t] = "flush"]
    /\ UNCHANGED <<mempoolVars, tableVars, waiterVars, lock, job, tip, detached>>

Flush(t) ==
    /\ pc[t] = "flush"
    /\ flushed' = flushed \cup {job[t].block}
    /\ pc' = [pc EXCEPT ![t] = "commit"]
    /\ UNCHANGED <<mempoolVars, db, disk, waiterVars, lock, job, tip, detached>>

\* Mutated form of Commit: an insert that replaces nothing and never conflicts,
\* as without the primary key on height.
CommitAnyHeight(t) ==
    /\ pc[t] = "commit"
    /\ db' = Insert(db, job[t].block, job[t].proof)
    /\ pc' = [pc EXCEPT ![t] = "next"]
    /\ UNCHANGED <<mempoolVars, disk, flushed, waiterVars, lock, job, tip, detached>>

\* The sqlite transaction; the height is the table's primary key.
Commit(t) ==
    /\ pc[t] = "commit" /\ ~HasHeight(db, Height[job[t].block])
    /\ db' = Insert(db, job[t].block, job[t].proof)
    /\ pc' = [pc EXCEPT ![t] = "next"]
    /\ UNCHANGED <<mempoolVars, disk, flushed, waiterVars, lock, job, tip, detached>>

\* Mutated form of CommitFails: the early return keeps the mutex.
CommitFailsLocked(t) ==
    /\ pc[t] = "commit"
    /\ pc' = [pc EXCEPT ![t] = "idle"]
    /\ job' = [job EXCEPT ![t] = NoJob]
    /\ tip' = [tip EXCEPT ![t] = Genesis]
    /\ UNCHANGED <<mempoolVars, tableVars, waiterVars, lock, detached>>

\* A key conflict, or any other error of sqlite: rolled back, and returned.
CommitFails(t) ==
    /\ pc[t] = "commit"
    /\ Return(t)
    /\ UNCHANGED <<mempoolVars, tableVars, waiterVars, detached>>

ReadNext(t) ==
    /\ pc[t] = "next"
    /\ tip' = [tip EXCEPT ![t] = Highest(db)]
    /\ pc' = [pc EXCEPT ![t] = "rebase"]
    /\ UNCHANGED <<mempoolVars, tableVars, waiterVars, lock, job, detached>>

RebasePool(t) ==
    /\ pc[t] = "rebase"
    /\ Rebase(tip[t])
    /\ pc' = [pc EXCEPT ![t] = "notify"]
    /\ UNCHANGED <<tableVars, waiterVars, lock, job, tip, detached>>

\* notify(usize::MAX) reaches the listeners of now; then the guard goes.
NotifyAll(t) ==
    /\ pc[t] = "notify"
    /\ ear' = [w \in Waiter |-> ear[w] \/ wpc[w] \in {"query", "wait"}]
    /\ Return(t)
    /\ UNCHANGED <<mempoolVars, tableVars, wpc, want, detached>>

\* The caller drops the future.
Cancel(t) ==
    /\ pc[t] \in Awaiting
    /\ Return(t)
    /\ \/ UNCHANGED detached
       \/ pc[t] = "commit" /\ detached' = detached \cup {job[t]}
    /\ UNCHANGED <<mempoolVars, tableVars, waiterVars>>

DetachedCommit(j) ==
    /\ detached' = detached \ {j}
    /\ \/ /\ ~HasHeight(db, Height[j.block])
          /\ db' = Insert(db, j.block, j.proof)
       \/ UNCHANGED db
    /\ UNCHANGED <<mempoolVars, disk, flushed, waiterVars, lock, pc, job, tip>>

-----------------------------------------------------------------------------
\* Calls of get_state_or_wait, and of the mempool.

WaitStart(w, h) ==
    /\ wpc[w] = "idle"
    /\ want' = [want EXCEPT ![w] = h]
    /\ wpc' = [wpc EXCEPT ![w] = "listen"]
    /\ UNCHANGED <<mempoolVars, tableVars, callVars, ear>>

\* Mutated form of Listen: the listener is made when there is nothing to
\* return, after the query instead of before it.
ListenLate(w) ==
    \/ /\ wpc[w] = "listen"
       /\ wpc' = [wpc EXCEPT ![w] = IF HasHeight(db, want[w]) THEN "idle" ELSE "late"]
       /\ UNCHANGED <<mempoolVars, tableVars, callVars, want, ear>>
    \/ /\ wpc[w] = "late"
       /\ ear' = [ear EXCEPT ![w] = FALSE]
       /\ wpc' = [wpc EXCEPT ![w] = "wait"]
       /\ UNCHANGED <<mempoolVars, tableVars, callVars, want>>

Listen(w) ==
    /\ wpc[w] = "listen"
    /\ ear' = [ear EXCEPT ![w] = FALSE]
    /\ wpc' = [wpc EXCEPT ![w] = "query"]
    /\ UNCHANGED <<mempoolVars, tableVars, callVars, want>>

\* get_state finds the block and the call returns, or it awaits the listener.
Query(w) ==
    /\ wpc[w] = "query"
    /\ IF HasHeight(db, want[w])
       THEN /\ wpc' = [wpc EXCEPT ![w] = "idle"]
            /\ want' = [want EXCEPT ![w] = 0]
            /\ ear' = [ear EXCEPT ![w] = FALSE]
       ELSE /\ wpc' = [wpc EXCEPT ![w] = "wait"]
            /\ UNCHANGED <<want, ear>>
    /\ UNCHANGED <<mempoolVars, tableVars, callVars>>

Wake(w) ==
    /\ wpc[w] = "wait" /\ ear[w]
    /\ wpc' = [wpc EXCEPT ![w] = "listen"]
    /\ UNCHANGED <<mempoolVars, tableVars, callVars, want, ear>>

SendTx(tx) ==
    /\ ApplyTransaction(tx)
    /\ UNCHANGED <<tableVars, callVars, waiterVars>>

-----------------------------------------------------------------------------
\* The disk.

\* A checkpoint of the write-ahead log syncs what was committed.
Checkpoint ==
    /\ disk # db
    /\ disk' = db
    /\ UNCHANGED <<mempoolVars, db, flushed, callVars, waiterVars>>

\* The process ends, or the power goes, and open() starts over with what is
\* left of the tables: a fresh mempool on the genesis, nobody calling.
Restart(tables) ==
    /\ db' = tables
    /\ FreshMempool
    /\ lock' = Free
    /\ pc' = [t \in Task |-> "idle"]
    /\ job' = [t \in Task |-> NoJob]
    /\ tip' = [t \in Task |-> Genesis]
    /\ detached' = {}
    /\ wpc' = [w \in Waiter |-> "idle"]
    /\ want' = [w \in Waiter |-> 0]
    /\ ear' = [w \in Waiter |-> FALSE]
    /\ UNCHANGED <<disk, flushed>>

-----------------------------------------------------------------------------
Init ==
    /\ MempoolInit
    /\ db = EmptyDb /\ disk = EmptyDb /\ flushed = {}
    /\ lock = Free
    /\ pc = [t \in Task |-> "idle"]
    /\ job = [t \in Task |-> NoJob]
    /\ tip = [t \in Task |-> Genesis]
    /\ detached = {}
    /\ wpc = [w \in Waiter |-> "idle"]
    /\ want = [w \in Waiter |-> 0] /\ ear = [w \in Waiter |-> FALSE]

\* The steps of a call, those of the caller left out.
Progress(t) ==
    \/ ReadHighest(t) \/ Reject(t) \/ Execute(t) \/ Flush(t)
    \/ Commit(t) \/ CommitFails(t)
    \/ ReadNext(t) \/ RebasePool(t) \/ NotifyAll(t)

WaiterStep(w) == Listen(w) \/ Query(w) \/ Wake(w)

Environment ==
    \/ \E j \in detached : DetachedCommit(j)
    \/ \E tx \in Tx : SendTx(tx)
    \/ Checkpoint
    \/ Restart(db) \/ Restart(disk)

Next ==
    \/ \E t \in Task :
        \/ \E block \in Block \ {Genesis}, proof \in Proof : Call(t, block, proof)
        \/ AcquireLock(t)
        \/ Progress(t)
    \/ \E t \in Cancellable : Cancel(t)
    \/ \E w \in Waiter :
        \/ \E b \in Block \ {Genesis} : WaitStart(w, Height[b])
        \/ WaiterStep(w)
    \/ Environment

Spec == Init /\ [][Next]_vars

\* Tasks run on a thread pool, so each step happens once it stays possible;
\* the mutex of async-lock does not starve its waiters.  Nothing makes callers
\* call, the log reach the disk or the process restart.
Fairness ==
    /\ \A t \in Task : SF_vars(AcquireLock(t)) /\ WF_vars(Progress(t))
    /\ \A w \in Waiter : WF_vars(WaiterStep(w))

FairSpec == Spec /\ Fairness

-----------------------------------------------------------------------------
TablesTypeOK(d) ==
    /\ d.history \subseteq Block \ {Genesis}
    /\ d.proofs \subseteq [height : Nat, proof : Proof]
    /\ d.stakes \subseteq [doc : StakeDoc, height : Nat]

\* Types, and the mutual exclusion the pc stands for: a task is past the
\* acquisition of the mutex exactly when it is the holder.
TypeOK ==
    /\ MempoolTypeOK
    /\ TablesTypeOK(db) /\ TablesTypeOK(disk)
    /\ flushed \subseteq Block
    /\ lock \in Task \cup {Free}
    /\ pc \in [Task -> Critical \cup {"idle", "lock"}]
    /\ job \in [Task -> Job \cup {NoJob}]
    /\ tip \in [Task -> Block]
    /\ detached \subseteq Job
    /\ wpc \in [Waiter -> {"idle", "listen", "query", "wait"}]
    /\ want \in [Waiter -> Nat]
    /\ ear \in [Waiter -> BOOLEAN]
    /\ \A t \in Task : /\ pc[t] \in Critical <=> lock = t
                       /\ pc[t] = "idle" <=> job[t] = NoJob

\* The history is one chain from the genesis: a block is stored above its
\* parent, heights do not repeat, the state transition function took it, and
\* the proof stored for its height passed against the stakes the parent's
\* header commits to.  Calls that race, calls dropped half way whose
\* transaction runs on, failed transactions and power losses must not leave
\* anything else behind.
ChainOfProofs(d) ==
    /\ \A b \in d.history :
        /\ b \in Sound
        /\ Prev[b] \in d.history \cup {Genesis}
        /\ Height[b] = Height[Prev[b]] + 1
        /\ \A c \in d.history : Height[c] = Height[b] => c = b
        /\ \E r \in d.proofs : r.height = Height[b]
    /\ \A r \in d.proofs :
        \E b \in d.history :
            /\ Height[b] = r.height
            /\ Enough(Tally(StakesAfter[Prev[b]], Epoch(Height[b]), r.proof))

HistoryIsChain == ChainOfProofs(db) /\ ChainOfProofs(disk)

\* "sqlite points to merkle" (storage.rs:304): the state of every stored block
\* has its nodes on disk, so a restart after a power loss finds them.
RootsDurable == db.history \cup disk.history \subseteq flushed

\* The assertion of get_state (storage.rs:229): the stake set rebuilt from the
\* stakes table for a stored block is the one its header commits to, also for
\* blocks that are not the highest any more and after stakes expired.
StakesMatchHeader ==
    \A d \in {db, disk} : \A b \in d.history : StakeSet(d, b) = StakesAfter[b]

\* When no call of apply_block is under way, the mempool builds on the highest
\* block, unless it is still the one open() made.  Holds when no call is
\* dropped half way.
MempoolFollowsTip == lock = Free /\ mpHeight # 0 => mpBase = Highest(db)

\* The mempool never moves back to an older base, unless the process starts
\* over: of two calls of apply_block the one that commits last rebases last.
MempoolNeverRegresses ==
    [][Height[mpBase'] >= Height[mpBase] \/ mpHeight' = 0]_vars

\* A caller that waits for a height that is in the history gets it: a block
\* stored between its query and its await does not leave it asleep.
WaiterWakes ==
    \A w \in Waiter :
        (wpc[w] # "idle" /\ HasHeight(db, want[w])) ~> wpc[w] = "idle"

\* Every call of apply_block returns: no early return leaves the mutex held.
CallsReturn == \A t \in Task : pc[t] # "idle" ~> pc[t] = "idle"

\* A sound block extends its parent with a proof that passes against the
\* parent's stakes.
Extends(block, proof, parent) ==
    /\ block \in Sound /\ Prev[block] = parent
    /\ Height[block] = Height[parent] + 1
    /\ Enough(Tally(StakesAfter[parent], Epoch(Height[block]), proof))

\* The storage implements the ledger.  The chain is the history in the order
\* of heights with the proofs of the same heights; what a power loss leaves
\* is the synced part of it.
Entries(d) ==
    [h \in 1 .. Cardinality(d.history) |->
        [block |-> CHOOSE b \in d.history : Height[b] = h,
         proof |-> (CHOOSE r \in d.proofs : r.height = h).proof]]

L == INSTANCE Ledger WITH chain   <- Entries(db),
                          durable <- Cardinality(disk.history)

ImplementsLedger == L!LedgerSpec
=============================================================================
