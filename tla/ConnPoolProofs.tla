--------------------------- MODULE ConnPoolProofs ---------------------------
(***************************************************************************)
(* The connections of the pool are never shared and only lost by dropped   *)
(* futures, for any number of connections and queries.  The invariant      *)
(* accounts for every connection: it is in the channel, in one closure,    *)
(* with a closure that outlived its caller, or lost, and what is lost is   *)
(* at most one connection per dropped future.                              *)
(***************************************************************************)
EXTENDS ConnPool, FiniteSetTheorems, TLAPS

Held == {c \in Conn : \E q \in Caller : conn[q] = c}

\* Connections that are nowhere any more.
Lost == Conn \ (pool \cup orphans \cup Held)

PoolTypes ==
    /\ pool \subseteq Conn /\ orphans \subseteq Conn
    /\ conn \in [Caller -> Conn \cup {NoConn}]
    /\ at \in [Caller -> {"idle", "recv", "queued", "running", "pause"}]
    /\ \A q \in Caller : conn[q] # NoConn <=> at[q] \in {"queued", "running"}
    /\ drops \in Nat

LossBounded == Cardinality(Lost) <= drops

PoolInv == PoolTypes /\ Exclusive /\ LossBounded

\* A fresh start.
LEMMA InitPoolInv == Init => PoolInv
<1> SUFFICES ASSUME Init PROVE PoolInv
  OBVIOUS
<1>1. PoolTypes /\ Exclusive
  BY PoolAssumption DEF Init, PoolTypes, Exclusive
<1>2. Lost = {}
  BY DEF Init, Lost
<1>3. LossBounded
  BY <1>2, FS_EmptySet DEF Init, LossBounded
<1>4. QED
  BY <1>1, <1>3 DEF PoolInv

\* Who holds what, after each step.
LEMMA TypesStep == PoolInv /\ [Next]_vars => PoolTypes' /\ Exclusive'
<1> SUFFICES ASSUME PoolInv, [Next]_vars PROVE PoolTypes' /\ Exclusive'
  OBVIOUS
<1> USE DEF PoolInv, PoolTypes, Exclusive
<1>1. ASSUME NEW q \in Caller, Begin(q) \/ Run(q) \/ Again(q) PROVE PoolTypes' /\ Exclusive'
  BY <1>1 DEF Begin, Run, Again
<1>2. ASSUME NEW q \in Caller, NEW c \in Conn, Receive(q, c) PROVE PoolTypes' /\ Exclusive'
  BY <1>2, PoolAssumption DEF Receive
<1>3. ASSUME NEW q \in Caller, Succeed(q) \/ Fail(q) PROVE PoolTypes' /\ Exclusive'
  BY <1>3, PoolAssumption DEF Succeed, Fail, GiveBack
<1>4. ASSUME NEW q \in Caller, Drop(q) PROVE PoolTypes' /\ Exclusive'
  BY <1>4, PoolAssumption DEF Drop
<1>5. ASSUME NEW c \in Conn, OrphanEnds(c) PROVE PoolTypes' /\ Exclusive'
  BY <1>5 DEF OrphanEnds
<1>6. CASE UNCHANGED vars
  BY <1>6 DEF vars
<1>7. QED
  BY <1>1, <1>2, <1>3, <1>4, <1>5, <1>6 DEF Next, GetConn

\* A dropped future loses one connection at most, every other step none.
LEMMA LossStep ==
    PoolInv /\ [Next]_vars =>
        \/ Lost' \subseteq Lost /\ drops' = drops
        \/ (\E c : Lost' \subseteq Lost \cup {c}) /\ drops' = drops + 1
<1> SUFFICES ASSUME PoolInv, [Next]_vars
             PROVE  \/ Lost' \subseteq Lost /\ drops' = drops
                    \/ (\E c : Lost' \subseteq Lost \cup {c}) /\ drops' = drops + 1
  OBVIOUS
<1> USE DEF PoolInv, PoolTypes
<1>1. ASSUME NEW q \in Caller, Begin(q) \/ Run(q) \/ Again(q)
      PROVE  Lost' \subseteq Lost /\ drops' = drops
  BY <1>1 DEF Begin, Run, Again, Lost, Held
<1>2. ASSUME NEW q \in Caller, NEW c \in Conn, Receive(q, c)
      PROVE  Lost' \subseteq Lost /\ drops' = drops
  <2>1. Held \cup {c} \subseteq Held'
    BY <1>2, PoolAssumption DEF Receive, Held
  <2>2. QED
    BY <1>2, <2>1 DEF Receive, Lost
<1>3. ASSUME NEW q \in Caller, Succeed(q) \/ Fail(q)
      PROVE  Lost' \subseteq Lost /\ drops' = drops
  <2>1. Held \subseteq Held' \cup {conn[q]}
    BY <1>3 DEF Succeed, Fail, GiveBack, Held
  <2>2. pool' = pool \cup {conn[q]} /\ orphans' = orphans /\ drops' = drops
    BY <1>3 DEF Succeed, Fail, GiveBack
  <2>3. QED
    BY <2>1, <2>2 DEF Lost
<1>4. ASSUME NEW q \in Caller, Drop(q)
      PROVE  Lost' \subseteq Lost \cup {conn[q]} /\ drops' = drops + 1
  <2>1. Held \subseteq Held' \cup {conn[q]}
    BY <1>4 DEF Drop, Held
  <2>2. pool' = pool /\ orphans \subseteq orphans' /\ drops' = drops + 1
    BY <1>4 DEF Drop
  <2>3. QED
    BY <2>1, <2>2 DEF Lost
<1>5. ASSUME NEW c \in Conn, OrphanEnds(c)
      PROVE  Lost' \subseteq Lost /\ drops' = drops
  BY <1>5 DEF OrphanEnds, Lost, Held
<1>6. CASE UNCHANGED vars
  BY <1>6 DEF vars, Lost, Held
<1>7. QED
  BY <1>1, <1>2, <1>3, <1>4, <1>5, <1>6 DEF Next, GetConn

\* PoolInv in every reachable state.
LEMMA PoolInvariance == Spec => []PoolInv
<1>1. PoolInv /\ [Next]_vars => PoolInv'
  <2> SUFFICES ASSUME PoolInv, [Next]_vars PROVE PoolInv'
    OBVIOUS
  <2>1. PoolTypes' /\ Exclusive'
    BY TypesStep
  <2>2. IsFiniteSet(Lost) /\ Cardinality(Lost) \in Nat /\ drops \in Nat
        /\ Cardinality(Lost) <= drops
    <3>1. IsFiniteSet(Lost)
      BY PoolAssumption, FS_Subset DEF Lost
    <3>2. QED
      BY <3>1, FS_CardinalityType DEF PoolInv, PoolTypes, LossBounded
  <2>3. CASE Lost' \subseteq Lost /\ drops' = drops
    <3>1. IsFiniteSet(Lost') /\ Cardinality(Lost') <= Cardinality(Lost)
      BY <2>2, <2>3, FS_Subset
    <3>2. Cardinality(Lost') \in Nat
      BY <3>1, FS_CardinalityType
    <3>3. LossBounded'
      BY <2>2, <2>3, <3>1, <3>2 DEF LossBounded
    <3>4. QED
      BY <2>1, <3>3 DEF PoolInv
  <2>4. CASE (\E c : Lost' \subseteq Lost \cup {c}) /\ drops' = drops + 1
    <3>1. PICK c : Lost' \subseteq Lost \cup {c}
      BY <2>4
    <3>2. /\ IsFiniteSet(Lost \cup {c})
          /\ Cardinality(Lost \cup {c}) \in {Cardinality(Lost), Cardinality(Lost) + 1}
      BY <2>2, FS_AddElement
    <3>3. IsFiniteSet(Lost') /\ Cardinality(Lost') <= Cardinality(Lost \cup {c})
      BY <3>1, <3>2, FS_Subset
    <3>4. Cardinality(Lost') \in Nat
      BY <3>3, FS_CardinalityType
    <3>5. LossBounded'
      BY <2>2, <2>4, <3>2, <3>3, <3>4 DEF LossBounded
    <3>6. QED
      BY <2>1, <3>5 DEF PoolInv
  <2>5. QED
    BY <2>3, <2>4, LossStep
<1>2. QED
  BY <1>1, InitPoolInv, PTL DEF Spec

-----------------------------------------------------------------------------
(* The theorems.                                                            *)

\* No connection is used by two queries, or used and on offer, whatever
\* futures are dropped around running closures.
THEOREM PoolExclusive == Spec => []Exclusive
<1>1. PoolInv => Exclusive
  BY DEF PoolInv
<1>2. QED
  BY <1>1, PoolInvariance, PTL

\* When no query is under way, at most one connection per dropped future is
\* missing from the pool.
THEOREM PoolOnlyDropsLose == Spec => []OnlyDropsLose
<1>1. PoolInv => OnlyDropsLose
  <2> SUFFICES ASSUME PoolInv, orphans = {}, \A q \in Caller : conn[q] = NoConn
               PROVE  Cardinality(pool) + drops >= Cardinality(Conn)
    BY DEF OnlyDropsLose
  <2>1. Lost = Conn \ pool /\ pool \subseteq Conn
    BY PoolAssumption DEF PoolInv, PoolTypes, Lost, Held
  <2>2. IsFiniteSet(pool) /\ IsFiniteSet(Lost) /\ IsFiniteSet(Conn)
    BY <2>1, PoolAssumption, FS_Subset
  <2>3. Conn = pool \cup Lost /\ pool \cap Lost = {}
    BY <2>1
  <2>4. Cardinality(Conn) = Cardinality(pool) + Cardinality(Lost) - Cardinality(pool \cap Lost)
    BY <2>2, <2>3, FS_Union
  <2>5. Cardinality(pool \cap Lost) = 0
    BY <2>3, FS_EmptySet
  <2>6. Cardinality(pool) \in Nat /\ Cardinality(Lost) \in Nat /\ drops \in Nat
        /\ Cardinality(Lost) <= drops
    BY <2>2, FS_CardinalityType DEF PoolInv, PoolTypes, LossBounded
  <2>7. QED
    BY <2>4, <2>5, <2>6
<1>2. QED
  BY <1>1, PoolInvariance, PTL
=============================================================================
