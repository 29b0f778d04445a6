------------------------------ MODULE BlkSync ------------------------------
(***************************************************************************)
(* Block sync: blksync_loop and attempt_blksync of one node, against the   *)
(* get_summary and get_lz4_blocks handlers of its peers, while its staker  *)
(* and the peers commit blocks of their own.                               *)
(*                                                                         *)
(* All nodes hold prefixes of one chain, so a block, and the proof that    *)
(* goes with it, is named by its height, and a node's storage by its       *)
(* highest height.  apply_block is one step here: it succeeds on the block *)
(* of the next height with the proof of that block (module Storage is      *)
(* about what happens inside).                                             *)
(***************************************************************************)
EXTENDS Integers, Sequences, FiniteSets, SequencesExt

CONSTANTS
    Peer,
    MaxHeight,     \* bound: the length of the chain
    Size,          \* height -> bytes of the block and its proof
    SizeLimit,     \* the 500_000 the client asks for
    Window,        \* the 64 requests the legacy client keeps under way
    LegacyBatch,   \* the 1000 blocks a legacy attempt goes for
    MaxFaults      \* bound: requests that time out, blocks that peers lose

ASSUME SyncAssumption ==
    /\ Peer # {}
    /\ MaxHeight \in Nat /\ SizeLimit \in Nat
    /\ \A h \in 1 .. MaxHeight : Size[h] \in Nat
    /\ Window \in Nat \ {0} /\ LegacyBatch \in Nat \ {0} /\ MaxFaults \in Nat

VARIABLES
    legacy,      \* MELNODE_OLD_BLKSYNC is set
    mine,        \* highest height of our storage
    tops,        \* highest height of each peer
    cpc,         \* where the attempt stands
    from,        \* the peer of the attempt
    theirs,      \* their_highest
    height,      \* the height to ask for
    blocks, proofs,   \* the batch received
    applied,     \* how many of them went through apply_block
    fetched,     \* legacy: heights received and not yet applied
    serve,       \* the get_lz4_blocks call under way at the peer
    faults       \* counts up to MaxFaults

attempt == <<cpc, from, theirs, height, blocks, proofs, applied, fetched, serve>>
vars == <<legacy, mine, tops, attempt, faults>>

NoCall == [at |-> 0, total |-> 0, accum |-> <<>>, proofs |-> <<>>]

-----------------------------------------------------------------------------
\* The peer: get_lz4_blocks(height, size_limit).

\* Mutated forms of Take: the last block is not taken back when the batch is
\* over the limit; it is taken back even when it is the only one; its proof
\* and one more are taken back.
TakeOver(call) ==
    [at |-> call.at + 1, total |-> call.total + Size[call.at],
     accum |-> Append(call.accum, call.at), proofs |-> Append(call.proofs, call.at)]

TakeBackAny(call) ==
    LET total == call.total + Size[call.at]
    IN  [at |-> call.at + 1, total |-> total,
         accum |-> IF total > SizeLimit THEN call.accum ELSE Append(call.accum, call.at),
         proofs |-> Append(call.proofs, call.at)]

TakeBackProofs(call) ==
    LET total == call.total + Size[call.at]
        over  == total > SizeLimit /\ Len(call.accum) > 0
    IN  [at |-> call.at + 1, total |-> total,
         accum |-> IF over THEN call.accum ELSE Append(call.accum, call.at),
         proofs |-> IF over THEN Front(call.proofs) ELSE Append(call.proofs, call.at)]

\* One turn of the loop for a stored block: it joins the batch, and leaves it
\* again (without its proof) if that made the batch too big, unless it is
\* alone.
Take(call) ==
    LET total == call.total + Size[call.at]
        over  == total > SizeLimit /\ Len(call.accum) > 0
    IN  [at     |-> call.at + 1,
         total  |-> total,
         accum  |-> IF over THEN call.accum ELSE Append(call.accum, call.at),
         proofs |-> Append(call.proofs, call.at)]

ServeBlock ==
    /\ cpc = "wait" /\ ~legacy
    /\ serve.total <= SizeLimit /\ serve.at <= tops[from]
    /\ serve' = Take(serve)
    /\ UNCHANGED <<legacy, mine, tops, cpc, from, theirs, height, blocks, proofs,
                   applied, fetched, faults>>

\* The loop is over: size reached, or no block of that height.
ServeOver == serve.total > SizeLimit \/ serve.at > tops[from]

-----------------------------------------------------------------------------
\* The client: blksync_loop and attempt_blksync.

\* The attempt returns, with an error or not, and the loop sleeps a moment.
Finish ==
    /\ cpc' = "idle" /\ from' = CHOOSE p \in Peer : TRUE
    /\ theirs' = 0 /\ height' = 0 /\ blocks' = <<>> /\ proofs' = <<>>
    /\ applied' = 0 /\ fetched' = {} /\ serve' = NoCall

\* A random route, and its get_summary.
Pick(p) ==
    /\ cpc = "idle"
    /\ cpc' = "summary" /\ from' = p /\ theirs' = tops[p]
    /\ UNCHANGED <<legacy, mine, tops, height, blocks, proofs, applied, fetched,
                   serve, faults>>

\* Nothing to fetch.
AlreadyThere ==
    /\ cpc = "summary" /\ theirs <= mine
    /\ Finish
    /\ UNCHANGED <<legacy, mine, tops, faults>>

\* my_highest is read after their_highest came in.
Start ==
    /\ cpc = "summary" /\ theirs > mine
    /\ cpc' = IF legacy THEN "legacy" ELSE "ask"
    /\ height' = mine + 1
    /\ UNCHANGED <<legacy, mine, tops, from, theirs, blocks, proofs, applied,
                   fetched, serve, faults>>

Ask ==
    /\ cpc = "ask" /\ height <= theirs
    /\ cpc' = "wait"
    /\ serve' = [NoCall EXCEPT !.at = height]
    /\ UNCHANGED <<legacy, mine, tops, from, theirs, height, blocks, proofs,
                   applied, fetched, faults>>

Done ==
    /\ cpc = "ask" /\ height > theirs
    /\ Finish
    /\ UNCHANGED <<legacy, mine, tops, faults>>

\* The batch arrives, or None when the peer has no such block.
Receive ==
    /\ cpc = "wait" /\ ServeOver /\ serve.accum # <<>>
    /\ cpc' = "apply" /\ applied' = 0
    /\ blocks' = serve.accum /\ proofs' = serve.proofs /\ serve' = NoCall
    /\ UNCHANGED <<legacy, mine, tops, from, theirs, height, fetched, faults>>

\* Mutated form of ReceiveNothing: an empty answer counts as an empty batch.
ReceiveEmpty ==
    /\ cpc = "wait" /\ ServeOver /\ serve.accum = <<>>
    /\ cpc' = "ask" /\ serve' = NoCall
    /\ UNCHANGED <<legacy, mine, tops, from, theirs, height, blocks, proofs,
                   applied, fetched, faults>>

ReceiveNothing ==
    /\ cpc = "wait" /\ ServeOver /\ serve.accum = <<>>
    /\ Finish
    /\ UNCHANGED <<legacy, mine, tops, faults>>

Timeout ==
    /\ cpc \in {"summary", "wait", "legacy"} /\ faults < MaxFaults
    /\ Finish
    /\ faults' = faults + 1
    /\ UNCHANGED <<legacy, mine, tops>>

\* The next pair of blocks.iter().zip(cproofs).
NextBlock == blocks[applied + 1]
NextProof == proofs[applied + 1]
MorePairs == applied < Len(blocks) /\ applied < Len(proofs)

\* The block has the height expected and apply_block takes it.
Goes == /\ NextBlock = height + applied
        /\ NextBlock = mine + 1 /\ NextProof = NextBlock

ApplyOne ==
    /\ cpc = "apply" /\ MorePairs /\ Goes
    /\ mine' = mine + 1 /\ applied' = applied + 1
    /\ UNCHANGED <<legacy, tops, cpc, from, theirs, height, blocks, proofs,
                   fetched, serve, faults>>

\* bail!, or the error of apply_block: somebody else stored the block before.
ApplyFails ==
    /\ cpc = "apply" /\ MorePairs /\ ~Goes
    /\ Finish
    /\ UNCHANGED <<legacy, mine, tops, faults>>

\* Mutated form of NextBatch: the height moves by the proofs received.
NextBatchByProofs ==
    /\ cpc = "apply" /\ ~MorePairs
    /\ height' = height + Len(proofs)
    /\ cpc' = "ask" /\ blocks' = <<>> /\ proofs' = <<>> /\ applied' = 0
    /\ UNCHANGED <<legacy, mine, tops, from, theirs, fetched, serve, faults>>

\* Mutated form of NextBatch: one height too many.
NextBatchOneMore ==
    /\ cpc = "apply" /\ ~MorePairs
    /\ height' = height + Len(blocks) + 1
    /\ cpc' = "ask" /\ blocks' = <<>> /\ proofs' = <<>> /\ applied' = 0
    /\ UNCHANGED <<legacy, mine, tops, from, theirs, fetched, serve, faults>>

\* height moves by the blocks received, not by the blocks applied.
NextBatch ==
    /\ cpc = "apply" /\ ~MorePairs
    /\ height' = height + Len(blocks)
    /\ cpc' = "ask" /\ blocks' = <<>> /\ proofs' = <<>> /\ applied' = 0
    /\ UNCHANGED <<legacy, mine, tops, from, theirs, fetched, serve, faults>>

-----------------------------------------------------------------------------
\* The legacy client: requests for single blocks, Window of them at a time,
\* applied in the order of heights whatever order they come in.

\* The heights of the stream: at most LegacyBatch, from the one after ours.
LegacyEnd ==
    LET last == height - applied + LegacyBatch - 1
    IN  IF last < theirs THEN last ELSE theirs

LegacyFetch(h) ==
    /\ cpc = "legacy"
    /\ h \in (height .. LegacyEnd) \ fetched /\ h < height + Window
    /\ IF h <= tops[from]
       THEN /\ fetched' = fetched \cup {h}
            /\ UNCHANGED <<cpc, from, theirs, height, blocks, proofs, applied, serve>>
       ELSE Finish
    /\ UNCHANGED <<legacy, mine, tops, faults>>

\* Mutated form of LegacyApply: in the order of arrival.
LegacyApplyUnordered ==
    /\ cpc = "legacy" /\ fetched # {}
    /\ \E h \in fetched :
        IF h = mine + 1
        THEN /\ mine' = mine + 1
             /\ height' = height + 1 /\ applied' = applied + 1
             /\ fetched' = fetched \ {h}
             /\ UNCHANGED <<cpc, from, theirs, blocks, proofs, serve>>
        ELSE Finish /\ UNCHANGED mine
    /\ UNCHANGED <<legacy, tops, faults>>

LegacyApply ==
    /\ cpc = "legacy" /\ height \in fetched
    /\ IF height = mine + 1
       THEN /\ mine' = mine + 1
            /\ height' = height + 1 /\ applied' = applied + 1
            /\ fetched' = fetched \ {height}
            /\ UNCHANGED <<cpc, from, theirs, blocks, proofs, serve>>
       ELSE Finish /\ UNCHANGED mine
    /\ UNCHANGED <<legacy, tops, faults>>

LegacyDone ==
    /\ cpc = "legacy" /\ height > LegacyEnd
    /\ Finish
    /\ UNCHANGED <<legacy, mine, tops, faults>>

-----------------------------------------------------------------------------
\* Our staker, or another sync of ours, stores the next block; a peer does.
OtherCommit ==
    /\ mine < MaxHeight
    /\ mine' = mine + 1
    /\ UNCHANGED <<legacy, tops, attempt, faults>>

PeerCommit(p) ==
    /\ tops[p] < MaxHeight
    /\ tops' = [tops EXCEPT ![p] = @ + 1]
    /\ UNCHANGED <<legacy, mine, attempt, faults>>

\* A peer starts over after a power loss, without its last block; the request
\* it was serving fails with it.
PeerLoses(p) ==
    /\ tops[p] > 0 /\ faults < MaxFaults
    /\ tops' = [tops EXCEPT ![p] = @ - 1]
    /\ faults' = faults + 1
    /\ IF cpc = "wait" /\ from = p THEN Finish ELSE UNCHANGED attempt
    /\ UNCHANGED <<legacy, mine>>

Init ==
    /\ legacy \in BOOLEAN
    /\ mine = 0 /\ tops \in [Peer -> 0 .. MaxHeight]
    /\ cpc = "idle" /\ from = CHOOSE p \in Peer : TRUE
    /\ theirs = 0 /\ height = 0 /\ blocks = <<>> /\ proofs = <<>>
    /\ applied = 0 /\ fetched = {} /\ serve = NoCall
    /\ faults = 0

ClientStep ==
    \/ AlreadyThere \/ Start \/ Ask \/ Done \/ Receive \/ ReceiveNothing
    \/ ApplyOne \/ ApplyFails \/ NextBatch
    \/ LegacyApply \/ LegacyDone \/ ServeBlock
    \/ \E h \in 1 .. MaxHeight : LegacyFetch(h)

Next ==
    \/ \E p \in Peer : Pick(p) \/ PeerCommit(p) \/ PeerLoses(p)
    \/ ClientStep
    \/ Timeout
    \/ OtherCommit

Spec == Init /\ [][Next]_vars

\* The loop keeps picking peers at random, so none of them is left out for
\* ever; requests are answered, but for MaxFaults of them.
Fairness ==
    /\ WF_vars(ClientStep)
    /\ \A p \in Peer : SF_vars(Pick(p))

FairSpec == Spec /\ Fairness

-----------------------------------------------------------------------------
TypeOK ==
    /\ mine \in 0 .. MaxHeight /\ tops \in [Peer -> 0 .. MaxHeight]
    /\ cpc \in {"idle", "summary", "ask", "wait", "apply", "legacy"}
    /\ from \in Peer /\ theirs \in 0 .. MaxHeight
    /\ height \in 0 .. MaxHeight + 1
    /\ Range(blocks) \cup Range(proofs) \cup fetched \subseteq 1 .. MaxHeight
    /\ applied \in 0 .. MaxHeight

\* A batch starts at the height asked for and has no gap, and zip pairs every
\* block with its own proof although the server takes back a block and keeps
\* its proof.
PairsMatch ==
    cpc = "apply" =>
        /\ Len(blocks) <= Len(proofs)
        /\ \A i \in 1 .. Len(blocks) : blocks[i] = height + i - 1 /\ proofs[i] = blocks[i]

\* The size limit holds for every batch but one of a single block.
BatchFits ==
    cpc = "apply" /\ Len(blocks) > 1 =>
        FoldLeft(LAMBDA sum, h : sum + Size[h], 0, blocks) <= SizeLimit

\* The client never asks for a height above the one its storage waits for, so
\* no block is skipped when a batch came back shorter than the heights it was
\* counted for.
NoGap == cpc = "ask" => height <= mine + 1

\* apply_block refuses a block this sync fetched only when somebody else of
\* this node stored a block of that height meanwhile: batches and windows are
\* applied in the order of heights whatever order they came in.
Expected == IF legacy THEN height ELSE height + applied

OnlyRacesFail ==
    [][cpc' = "idle" /\ faults' = faults /\ (cpc = "apply" \/ fetched # {})
         => mine >= Expected \/ tops[from] < theirs]_vars

\* An attempt ends: the loop over batches makes progress with every answer.
AttemptEnds == cpc # "idle" ~> cpc = "idle"

\* A block some peer comes to hold for good is in our storage in the end,
\* however short the batches and whatever the races with our own staker.
CatchesUp ==
    \A h \in 1 .. MaxHeight :
        <>[](\E p \in Peer : tops[p] >= h) => <>(mine >= h)
=============================================================================
