----------------------------- MODULE SigGather -----------------------------
(***************************************************************************)
(* The stakers of one height: they decide on a block together, exchange    *)
(* signatures of it (get_sigs), and hand the proof each of them assembled  *)
(* to its own apply_block.  A staker whose round fails, or that crashes,   *)
(* starts over with a consensus instance that knows nothing of the         *)
(* last one; so may all of them.                                           *)
(*                                                                         *)
(* Streamlette is external: an instance decides one block once stakers     *)
(* with more than two thirds of vote_weights() take part, and whoever is   *)
(* in its consensus learns it while one of those still runs its decider    *)
(* (which is what _spammer is for).  When the last of them is gone the     *)
(* decision is forgotten.                                                  *)
(***************************************************************************)
EXTENDS Stakes

CONSTANTS
    Staker,        \* keys whose nodes run
    Docs,          \* the stakes of the base state
    BaseHeight,    \* its height
    Candidate,     \* blocks verify_proposal accepts on it
    None,
    Crashing,      \* stakers that may crash; the others never do
    MaxCrashes     \* bound: how often they do

ASSUME GatherAssumption ==
    /\ Staker \subseteq Key /\ Docs \subseteq StakeDoc
    /\ Crashing \subseteq Staker
    /\ BaseHeight \in Nat /\ MaxCrashes \in Nat /\ None \notin Candidate
    /\ None \notin [block : Candidate, map : [Staker -> Candidate \cup {None}]]

VARIABLES
    agreed,      \* what the running consensus instance decided
    relay,       \* stakers whose deciders know it
    phase,       \* per staker: "top" | "consensus" | "gather" | "done"
    decision,    \* per staker: the block decided on
    sigs,        \* per staker: sig_gather at this height, key -> block signed
    stored,      \* per staker: block and proof of this height in the tables
    crashes      \* counts up to MaxCrashes

vars == <<agreed, relay, phase, decision, sigs, stored, crashes>>

NoSigs == [k \in Staker |-> None]

\* Sets of stakers with more than two thirds of the stake of an epoch.
Quorums(epoch) ==
    {keys \in SUBSET Staker :
        Votes(Docs, epoch, keys) > (Votes(Docs, epoch, Key) * 2) \div 3}

\* vote_threshold of the gatherer counts by the epoch of the base, the weights
\* of the consensus (vote_weights) by the epoch of the block.
GatherQuorum    == Quorums(Epoch(BaseHeight))
ConsensusQuorum == Quorums(Epoch(BaseHeight + 1))

\* The signers with which the vote count of apply_block lets the block pass; a
\* signature that does not verify counts like none.
PassingSigners ==
    {keys \in SUBSET Staker :
        Enough(Tally(Docs, Epoch(BaseHeight + 1),
                     [k \in Key |-> IF k \in keys THEN "good" ELSE "none"]))}

Signers(map) == {k \in Staker : map[k] # None}

\* Mutated form of Gathered: a strict part of a quorum is enough.
GatheredAlmost(n) == \E keys \in GatherQuorum : \E k \in keys :
                        keys \ {k} \subseteq Signers(sigs[n])

\* get_proof: keys count whatever they signed.
Gathered(n) == Signers(sigs[n]) \in GatherQuorum

\* apply_block verifies the signatures over the block at hand.
Accepts(map, block) == {k \in Staker : map[k] = block} \in PassingSigners

\* Mutated form of GetSigs: only the proofs of stored blocks are served.
GetSigsStored(n) == IF stored[n] # None THEN stored[n].map ELSE NoSigs

\* The handler get_sigs: the stored proof, or else what was gathered so far.
GetSigs(n) == IF stored[n] # None THEN stored[n].map ELSE sigs[n]

-----------------------------------------------------------------------------
\* n's decider is dropped; the last one that knew the decision takes it along.
Leave(n) ==
    /\ relay' = relay \ {n}
    /\ agreed' = IF relay \subseteq {n} THEN None ELSE agreed

\* The next round: consensus, unless the height is in the storage by now.
Enter(n) ==
    /\ phase[n] = "top"
    /\ phase' = [phase EXCEPT ![n] = IF stored[n] = None THEN "consensus" ELSE "done"]
    /\ UNCHANGED <<agreed, relay, decision, sigs, stored, crashes>>

\* The instance decides: its voters are in the consensus, and hold more than
\* two thirds of the weights of the block's epoch.
Agree(block, voters) ==
    /\ agreed = None
    /\ \A n \in voters : phase[n] = "consensus"
    /\ agreed' = block /\ relay' = voters
    /\ UNCHANGED <<phase, decision, sigs, stored, crashes>>

\* tick_to_end returns at n: its own signature replaces what the map held.
Learn(n) ==
    /\ phase[n] = "consensus" /\ agreed # None
    /\ phase' = [phase EXCEPT ![n] = "gather"]
    /\ decision' = [decision EXCEPT ![n] = agreed]
    /\ sigs' = [sigs EXCEPT ![n] = [NoSigs EXCEPT ![n] = agreed]]
    /\ relay' = relay \cup {n}
    /\ UNCHANGED <<agreed, stored, crashes>>

\* get_sigs of a neighbour; its entries replace ours.
Fetch(n, m) ==
    /\ phase[n] = "gather" /\ ~Gathered(n)
    /\ sigs' = [sigs EXCEPT ![n] =
                  [k \in Staker |-> IF GetSigs(m)[k] # None THEN GetSigs(m)[k] ELSE @[k]]]
    /\ UNCHANGED <<agreed, relay, phase, decision, stored, crashes>>

\* apply_block with the signatures so far.  An error is logged, and the round
\* is over all the same.
Submit(n) ==
    /\ phase[n] = "gather" /\ Gathered(n)
    /\ stored' = IF stored[n] = None /\ Accepts(sigs[n], decision[n])
                 THEN [stored EXCEPT ![n] = [block |-> decision[n], map |-> sigs[n]]]
                 ELSE stored
    /\ phase' = [phase EXCEPT ![n] = "top"]
    /\ decision' = [decision EXCEPT ![n] = None]
    /\ Leave(n)
    /\ UNCHANGED <<sigs, crashes>>

\* Block sync brings the block another staker stored.
Sync(n, m) ==
    /\ stored[n] = None /\ stored[m] # None
    /\ Accepts(stored[m].map, stored[m].block)
    /\ stored' = [stored EXCEPT ![n] = stored[m]]
    /\ UNCHANGED <<agreed, relay, phase, decision, sigs, crashes>>

\* skip_round: the height is in the storage, the round is dropped.
Skip(n) ==
    /\ phase[n] \in {"consensus", "gather"} /\ stored[n] # None
    /\ phase' = [phase EXCEPT ![n] = "done"]
    /\ decision' = [decision EXCEPT ![n] = None]
    /\ Leave(n)
    /\ UNCHANGED <<sigs, stored, crashes>>

\* The process ends and starts again, with what it had stored.
Crash(n) ==
    /\ n \in Crashing /\ crashes < MaxCrashes
    /\ phase' = [phase EXCEPT ![n] = "top"]
    /\ decision' = [decision EXCEPT ![n] = None]
    /\ sigs' = [sigs EXCEPT ![n] = NoSigs]
    /\ Leave(n)
    /\ crashes' = crashes + 1
    /\ UNCHANGED stored

Init ==
    /\ agreed = None /\ relay = {}
    /\ phase = [n \in Staker |-> "top"]
    /\ decision = [n \in Staker |-> None]
    /\ sigs = [n \in Staker |-> NoSigs]
    /\ stored = [n \in Staker |-> None]
    /\ crashes = 0

Next ==
    \/ \E n \in Staker :
        \/ Enter(n) \/ Learn(n) \/ Submit(n) \/ Skip(n) \/ Crash(n)
        \/ \E m \in Staker \ {n} : Fetch(n, m) \/ Sync(n, m)
    \/ \E block \in Candidate, voters \in ConsensusQuorum : Agree(block, voters)

Spec == Init /\ [][Next]_vars

\* Rounds and block sync run, deciders relay what they know, and each
\* neighbour is picked again and again.  Nothing makes an instance decide.
Fairness ==
    \A n \in Staker :
        /\ WF_vars(Enter(n)) /\ WF_vars(Learn(n))
        /\ WF_vars(Submit(n)) /\ WF_vars(Skip(n))
        /\ \A m \in Staker \ {n} : WF_vars(Fetch(n, m)) /\ WF_vars(Sync(n, m))

FairSpec == Spec /\ Fairness

-----------------------------------------------------------------------------
\* What keeps one block per height: two quorums of the consensus share a staker
\* that does not crash, and what the gatherer takes for enough is enough for
\* the vote count.
QuorumsMeet ==
    \A q, r \in ConsensusQuorum : \E n \in Staker \ Crashing : n \in q /\ n \in r

EnoughPasses == GatherQuorum \subseteq PassingSigners

\* Where the stakes make it so: those that crash have a third of the stake at
\* most, and the block opens no epoch.
CrashesAreFew ==
    LET epoch == Epoch(BaseHeight + 1)
    IN  3 * Votes(Docs, epoch, Crashing) <= Votes(Docs, epoch, Key)

SameEpoch == Epoch(BaseHeight) = Epoch(BaseHeight + 1)

\* staker.rs:192: stakers gather "until we finally have enough signatures":
\* what get_proof takes for enough, apply_block accepts.  Within an epoch it
\* holds, although the two count by different rules and signatures of other
\* blocks count for the first; when the block opens an epoch it does not.
EnoughIsEnough ==
    \A n \in Staker :
        phase[n] = "gather" /\ stored[n] = None /\ Gathered(n)
            => Accepts(sigs[n], decision[n])

\* No two stakers store different blocks of one height, also when the stakers
\* that decided leave at different times and a new instance is started by
\* those who have not got the block yet.
OneBlock ==
    \A n, m \in Staker :
        stored[n] # None /\ stored[m] # None => stored[n].block = stored[m].block

\* Once a staker gathers signatures of a decision, every staker gets the block,
\* also those that lost touch with the consensus when the others left it.
DecidedIsStored ==
    \A n, m \in Staker : phase[n] = "gather" ~> stored[m] # None
=============================================================================
