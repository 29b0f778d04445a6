---------------------------- MODULE StakerRound ----------------------------
(***************************************************************************)
(* The round loop of the staker (network_task_inner) over the storage it   *)
(* shares with block sync.  A round reads the highest state, waits, then   *)
(* races two futures: skip_round, which waits for the next height to turn  *)
(* up in the storage, and decide_round, which checks the mempool, runs the *)
(* consensus, gathers signatures and calls apply_block.  The first to end  *)
(* drops the other.                                                        *)
(*                                                                         *)
(* Streamlette and the other stakers are outside: consensus ends on any    *)
(* block verify_proposal lets through, or never; signatures of the other   *)
(* stakers on that block come in any order, or never.                      *)
(***************************************************************************)
EXTENDS Storage

CONSTANTS
    Me,            \* the task of this loop
    Round,         \* the waiter that stands for its skip_round
    MyKey,         \* cfg.signing_secret.to_public()
    PeerProof,     \* the proofs block sync gets from peers
    MaxRestarts    \* bound: how often the process may start over

ASSUME RoundAssumption ==
    /\ Me \in Task /\ Round \in Waiter /\ MyKey \in Key
    /\ PeerProof \subseteq Proof /\ MaxRestarts \in Nat

\* A staker may come up with the good signatures of any keys.
ASSUME SignersAssumption ==
    \A signers \in SUBSET Key : [k \in Key |-> IF k \in signers THEN "good" ELSE "none"] \in Proof

VARIABLES
    phase,       \* "top" | "sleep" | "race": the loop itself
    base,        \* base_state
    decide,      \* where decide_round stands
    decision,    \* the proposal's base, then the block decided on
    sigs,        \* keys in sig_gather's map for the height of the round
    restarts     \* counts up to MaxRestarts

roundVars == <<phase, base, decide, decision, sigs>>
allVars == <<vars, roundVars, restarts>>

NextHeight == Height[base] + 1

\* get_proof: the epoch is the one of the base, not of the block decided on.
Gathered ==
    LET docs  == StakeSet(db, base)
        epoch == Epoch(Height[base])
    IN  Votes(docs, epoch, sigs) > (Votes(docs, epoch, Key) * 2) \div 3

Cproof == [k \in Key |-> IF k \in sigs THEN "good" ELSE "none"]

-----------------------------------------------------------------------------
\* Line 112: the base of the round, which may be old by the time it is used.
ReadBase ==
    /\ phase = "top"
    /\ base' = Highest(db)
    /\ phase' = "sleep"
    /\ UNCHANGED <<vars, decide, decision, sigs, restarts>>

\* Mutated form of BeginRace: no skip_round.
BeginRaceAlone ==
    /\ phase = "sleep"
    /\ phase' = "race" /\ decide' = "pool"
    /\ wpc' = [wpc EXCEPT ![Round] = "alone"]
    /\ UNCHANGED <<mempoolVars, tableVars, callVars, want, ear,
                   base, decision, sigs, restarts>>

\* Lines 123-126 are over; both futures are polled from here on.
BeginRace ==
    /\ phase = "sleep"
    /\ phase' = "race" /\ decide' = "pool"
    /\ WaitStart(Round, NextHeight)
    /\ UNCHANGED <<base, decision, sigs, restarts>>

\* Mutated form of CheckPool: the mempool is proposed whatever its height.
CheckPoolBlindly ==
    /\ phase = "race" /\ decide = "pool"
    /\ decide' = "consensus" /\ decision' = mpBase
    /\ UNCHANGED <<vars, phase, base, sigs, restarts>>

\* Lines 134-158: the mempool's state is copied; at the right height it makes
\* the proposal.
CheckPool ==
    /\ phase = "race" /\ decide = "pool"
    /\ IF mpHeight = NextHeight
       THEN decide' = "consensus" /\ decision' = mpBase
       ELSE decide' = "stale" /\ UNCHANGED decision
    /\ UNCHANGED <<vars, phase, base, sigs, restarts>>

\* The round is over: the waiter goes, and the loop starts again.
EndRound ==
    /\ phase' = "top"
    /\ decide' = "idle" /\ decision' = Genesis /\ sigs' = {} /\ base' = Genesis
    /\ wpc' = [wpc EXCEPT ![Round] = "idle"]
    /\ want' = [want EXCEPT ![Round] = 0]
    /\ ear' = [ear EXCEPT ![Round] = FALSE]
    /\ UNCHANGED restarts

\* Mutated form of RebaseStale: the mempool is left where it is.
RebaseStaleSkipped ==
    /\ phase = "race" /\ decide = "stale"
    /\ EndRound
    /\ UNCHANGED <<mempoolVars, tableVars, callVars>>

\* Line 138: rebase on the base of the round, by now perhaps not the highest.
RebaseStale ==
    /\ phase = "race" /\ decide = "stale"
    /\ Rebase(base)
    /\ EndRound
    /\ UNCHANGED <<tableVars, callVars>>

\* Streamlette decides on a block verify_proposal accepts; our signature
\* replaces whatever the map held.
Decide(b) ==
    /\ phase = "race" /\ decide = "consensus"
    /\ b \in Sound /\ Prev[b] = base
    /\ decide' = "gather" /\ decision' = b /\ sigs' = {MyKey}
    /\ UNCHANGED <<vars, phase, base, restarts>>

\* get_sigs of a neighbour.
Gather(keys) ==
    /\ phase = "race" /\ decide = "gather" /\ ~Gathered
    /\ sigs' = sigs \cup keys
    /\ UNCHANGED <<vars, phase, base, decide, decision, restarts>>

\* Line 209: apply_block with the signatures so far.
Submit ==
    /\ phase = "race" /\ decide = "gather" /\ Gathered
    /\ Call(Me, decision, Cproof)
    /\ decide' = "apply"
    /\ UNCHANGED <<phase, base, decision, sigs, restarts>>

\* apply_block returned.  An error is logged, and the round ends either way.
Submitted ==
    /\ phase = "race" /\ decide = "apply" /\ pc[Me] = "idle"
    /\ EndRound
    /\ UNCHANGED <<mempoolVars, tableVars, callVars>>

\* Mutated form of SkipRound: an unfinished apply_block is left running.
SkipRoundLeaveCall ==
    /\ phase = "race" /\ wpc[Round] = "idle"
    /\ EndRound
    /\ UNCHANGED <<mempoolVars, tableVars, callVars>>

\* skip_round returned: decide_round is dropped at the point it awaits, with
\* the call of apply_block it may be in.
SkipRound ==
    /\ phase = "race" /\ wpc[Round] = "idle"
    /\ EndRound
    /\ \/ /\ pc[Me] = "idle"
          /\ UNCHANGED <<mempoolVars, tableVars, callVars>>
       \/ /\ pc[Me] \in Awaiting
          /\ Return(Me)
          /\ \/ UNCHANGED detached
             \/ pc[Me] = "commit" /\ detached' = detached \cup {job[Me]}
          /\ UNCHANGED <<mempoolVars, tableVars>>

\* The process starts over, and the staker with it.
Reboot(tables) ==
    /\ restarts < MaxRestarts
    /\ Restart(tables)
    /\ phase' = "top" /\ base' = Genesis
    /\ decide' = "idle" /\ decision' = Genesis /\ sigs' = {}
    /\ restarts' = restarts + 1

-----------------------------------------------------------------------------
RoundInit ==
    /\ Init
    /\ phase = "top" /\ base = Genesis
    /\ decide = "idle" /\ decision = Genesis /\ sigs = {}
    /\ restarts = 0

RoundStep ==
    \/ ReadBase \/ BeginRace \/ CheckPool \/ RebaseStale
    \/ Submit \/ Submitted \/ SkipRound

\* Steps of the storage the staker does not take part in.
StorageStep ==
    /\ \/ \E t \in Task \ {Me}, block \in Block \ {Genesis}, proof \in PeerProof :
            Call(t, block, proof)
       \/ \E t \in Task : AcquireLock(t) \/ Progress(t)
       \/ WaiterStep(Round)
       \/ \E j \in detached : DetachedCommit(j)
       \/ \E tx \in Tx : SendTx(tx)
       \/ Checkpoint
    /\ UNCHANGED <<roundVars, restarts>>

RoundNext ==
    \/ RoundStep
    \/ \E b \in Block : Decide(b)
    \/ \E keys \in SUBSET Key : Gather(keys)
    \/ StorageStep
    \/ Reboot(db) \/ Reboot(disk)

RoundSpec == RoundInit /\ [][RoundNext]_allVars

\* The loop and the storage run; consensus and the neighbours may not answer.
RoundFairness ==
    /\ WF_allVars(RoundStep)
    /\ \A t \in Task : /\ SF_allVars(AcquireLock(t) /\ UNCHANGED <<roundVars, restarts>>)
                       /\ WF_allVars(Progress(t) /\ UNCHANGED <<roundVars, restarts>>)
    /\ WF_allVars(WaiterStep(Round) /\ UNCHANGED <<roundVars, restarts>>)

FairRoundSpec == RoundSpec /\ RoundFairness

-----------------------------------------------------------------------------
\* The block a staker proposes extends the base its consensus instance was set
\* up with (which is what verify_proposal and the nonce use), although base
\* and mempool are read at different times and others move the mempool in
\* between.
ProposalExtendsBase == decide = "consensus" => decision = base

\* The staker has a call of apply_block under way only in the round that made
\* it, for the block this round decided on: dropping decide_round leaves no
\* call behind that holds the mutex.
CallBelongsToRound ==
    pc[Me] # "idle" =>
        /\ phase = "race" /\ decide = "apply"
        /\ job[Me].block = decision /\ Prev[decision] = base

\* A round does not outlive the height it is about: once the next height is in
\* the history the round ends, even if consensus never does.
RoundEnds ==
    (phase = "race" /\ HasHeight(db, NextHeight)) ~> phase = "top"

\* The staker moves a mempool that is not on the highest block (after a
\* restart, a dropped call, a stale rebase) back to it.
PoolCatchesUp == mpBase # Highest(db) ~> mpBase = Highest(db)
=============================================================================
