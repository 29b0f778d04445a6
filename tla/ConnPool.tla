------------------------------ MODULE ConnPool ------------------------------
(***************************************************************************)
(* The pool of sqlite connections every query of storage.rs goes through:  *)
(* a connection is received from a channel, moved into a closure for the   *)
(* blocking thread pool, and sent back by a guard the closure makes first. *)
(* Queries run under autoretry; the transaction of apply_block does not.   *)
(*                                                                         *)
(* A caller may drop the future of its query: skip_round and decide_round  *)
(* drop each other's, a timed-out RPC drops its handler's.  A closure that *)
(* has started runs on; one that has not is dropped, and the connection,   *)
(* which has no guard yet, with it.                                        *)
(***************************************************************************)
EXTENDS Naturals, FiniteSets

CONSTANTS
    Conn,         \* the connections open() makes
    Caller,       \* tasks that make queries
    Once,         \* those whose query is not retried (apply_block's transaction)
    NoConn,
    MaxErrors,    \* bound: queries sqlite fails
    MaxDrops      \* bound: futures dropped

ASSUME PoolAssumption ==
    /\ IsFiniteSet(Conn) /\ NoConn \notin Conn /\ Once \subseteq Caller
    /\ MaxErrors \in Nat /\ MaxDrops \in Nat

VARIABLES
    pool,      \* connections in the channel
    at,        \* per caller: "idle" | "recv" | "queued" | "running" | "pause"
    conn,      \* per caller: the connection its closure holds
    orphans,   \* connections of running closures whose caller is gone
    errors, drops

vars == <<pool, at, conn, orphans, errors, drops>>

\* A query begins; autoretry calls its closure.
Begin(q) ==
    /\ at[q] = "idle"
    /\ at' = [at EXCEPT ![q] = "recv"]
    /\ UNCHANGED <<pool, conn, orphans, errors, drops>>

\* recv_pool.recv() returns a connection, which goes into the closure.
Receive(q, c) ==
    /\ at[q] = "recv" /\ c \in pool
    /\ pool' = pool \ {c}
    /\ at' = [at EXCEPT ![q] = "queued"]
    /\ conn' = [conn EXCEPT ![q] = c]
    /\ UNCHANGED <<orphans, errors, drops>>

\* A thread of the blocking pool starts the closure, which makes its guard.
Run(q) ==
    /\ at[q] = "queued"
    /\ at' = [at EXCEPT ![q] = "running"]
    /\ UNCHANGED <<pool, conn, orphans, errors, drops>>

\* The guard sends the connection back.
GiveBack(q) ==
    /\ pool' = pool \cup {conn[q]}
    /\ conn' = [conn EXCEPT ![q] = NoConn]

Succeed(q) ==
    /\ at[q] = "running"
    /\ GiveBack(q)
    /\ at' = [at EXCEPT ![q] = "idle"]
    /\ UNCHANGED <<orphans, errors, drops>>

\* Mutated form of Fail: a `?` before the guard exists.
FailUnguarded(q) ==
    /\ at[q] = "running" /\ errors < MaxErrors
    /\ conn' = [conn EXCEPT ![q] = NoConn]
    /\ at' = [at EXCEPT ![q] = IF q \in Once THEN "idle" ELSE "pause"]
    /\ errors' = errors + 1
    /\ UNCHANGED <<pool, orphans, drops>>

\* The closure returns an error: the guard works all the same, autoretry waits.
Fail(q) ==
    /\ at[q] = "running" /\ errors < MaxErrors
    /\ GiveBack(q)
    /\ at' = [at EXCEPT ![q] = IF q \in Once THEN "idle" ELSE "pause"]
    /\ errors' = errors + 1
    /\ UNCHANGED <<orphans, drops>>

\* Mutated form of Again: the pause has no end.
AgainNever(q) == at[q] = "pause" /\ UNCHANGED vars

Again(q) ==
    /\ at[q] = "pause"
    /\ at' = [at EXCEPT ![q] = "recv"]
    /\ UNCHANGED <<pool, conn, orphans, errors, drops>>

\* Mutated form of Drop: the caller's end gives the connection back although
\* the closure may still use it.
DropGivesBack(q) ==
    /\ at[q] # "idle" /\ drops < MaxDrops
    /\ at' = [at EXCEPT ![q] = "idle"]
    /\ conn' = [conn EXCEPT ![q] = NoConn]
    /\ orphans' = IF at[q] = "running" THEN orphans \cup {conn[q]} ELSE orphans
    /\ pool' = IF conn[q] = NoConn THEN pool ELSE pool \cup {conn[q]}
    /\ drops' = drops + 1
    /\ UNCHANGED errors

\* The future is dropped.
Drop(q) ==
    /\ at[q] # "idle" /\ drops < MaxDrops
    /\ at' = [at EXCEPT ![q] = "idle"]
    /\ conn' = [conn EXCEPT ![q] = NoConn]
    /\ orphans' = IF at[q] = "running" THEN orphans \cup {conn[q]} ELSE orphans
    /\ drops' = drops + 1
    /\ UNCHANGED <<pool, errors>>

\* A closure without caller ends.
OrphanEnds(c) ==
    /\ c \in orphans
    /\ orphans' = orphans \ {c}
    /\ pool' = pool \cup {c}
    /\ UNCHANGED <<at, conn, errors, drops>>

Init ==
    /\ pool = Conn
    /\ at = [q \in Caller |-> "idle"]
    /\ conn = [q \in Caller |-> NoConn]
    /\ orphans = {} /\ errors = 0 /\ drops = 0

GetConn(q) == \E c \in Conn : Receive(q, c)

Next ==
    \/ \E q \in Caller :
        \/ Begin(q) \/ GetConn(q) \/ Run(q) \/ Succeed(q) \/ Fail(q)
        \/ Again(q) \/ Drop(q)
    \/ \E c \in Conn : OrphanEnds(c)

Spec == Init /\ [][Next]_vars

\* Closures run and end, timers fire, and the channel serves its receivers in
\* turn.
Fairness ==
    /\ \A q \in Caller : /\ SF_vars(GetConn(q))
                         /\ WF_vars(Run(q)) /\ WF_vars(Succeed(q) \/ Fail(q))
                         /\ WF_vars(Again(q))
    /\ \A c \in Conn : WF_vars(OrphanEnds(c))

FairSpec == Spec /\ Fairness

-----------------------------------------------------------------------------
\* A connection is in one place: a query never runs on a connection another
\* one holds, or that is in the pool for the next one, however futures are
\* dropped around running closures.
Exclusive ==
    /\ \A q \in Caller : conn[q] # NoConn =>
        /\ conn[q] \notin pool \cup orphans
        /\ \A r \in Caller \ {q} : conn[r] # conn[q]
    /\ pool \cap orphans = {}

\* Failing queries lose no connection: what the pool lost, dropped futures
\* lost.
OnlyDropsLose ==
    (orphans = {} /\ \A q \in Caller : conn[q] = NoConn)
        => Cardinality(pool) + drops >= Cardinality(Conn)

\* autoretry.rs:5: a query is retried "until it works": it returns, whoever
\* else waits for a connection.  Holds as long as fewer futures are dropped
\* than there are connections.
QueriesReturn == \A q \in Caller : at[q] # "idle" ~> at[q] = "idle"
=============================================================================
