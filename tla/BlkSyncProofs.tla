--------------------------- MODULE BlkSyncProofs ---------------------------
(***************************************************************************)
(* Safety of block sync for any peers, sizes, limits and windows: blocks   *)
(* are applied with their own proofs and without a gap, and an attempt is  *)
(* refused a block only by a race.                                         *)
(***************************************************************************)
EXTENDS BlkSync, FoldLemmas

Heights == 1 .. MaxHeight

\* The two lists of a get_lz4_blocks call: both run up from the height asked
\* for, the blocks stop one earlier at most, and only when the size is reached.
Consecutive(s, h) == \A i \in 1 .. Len(s) : s[i] = h + i - 1

ServeInv ==
    /\ serve \in [at : Nat, total : Nat, accum : Seq(Heights), proofs : Seq(Heights)]
    /\ cpc = "wait" =>
        /\ Consecutive(serve.accum, height) /\ Consecutive(serve.proofs, height)
        /\ serve.at = height + Len(serve.proofs)
        /\ Len(serve.accum) <= Len(serve.proofs)
        /\ serve.total <= SizeLimit => Len(serve.accum) = Len(serve.proofs)

TypeInv ==
    /\ legacy \in BOOLEAN /\ faults \in Nat
    /\ mine \in 0 .. MaxHeight /\ tops \in [Peer -> 0 .. MaxHeight]
    /\ cpc \in {"idle", "summary", "ask", "wait", "apply", "legacy"}
    /\ from \in Peer /\ theirs \in 0 .. MaxHeight
    /\ height \in Nat /\ applied \in Nat
    /\ blocks \in Seq(Heights) /\ proofs \in Seq(Heights)
    /\ fetched \in SUBSET Heights

\* The batch received, and how far it went.
BatchInv ==
    /\ PairsMatch
    /\ cpc \in {"ask", "wait", "apply"} => ~legacy
    /\ cpc = "apply" => applied <= Len(blocks) /\ blocks # <<>>
    /\ cpc # "apply" => blocks = <<>> /\ proofs = <<>>
    /\ cpc \notin {"apply", "legacy"} => applied = 0

\* The window of the legacy client.
WindowInv ==
    /\ fetched # {} => cpc = "legacy"
    /\ cpc = "legacy" => legacy /\ applied < height
    /\ fetched \subseteq height .. LegacyEnd

\* The next height this sync wants is never above the one the storage waits
\* for: height itself, or the one reached within a batch.
ReachInv ==
    /\ cpc \in {"ask", "wait", "legacy"} => height \in 1 .. mine + 1
    /\ cpc = "apply" => height >= 1 /\ height + applied <= mine + 1
    /\ cpc \in {"idle", "summary"} => height = 0

SyncInv == TypeInv /\ ServeInv /\ BatchInv /\ WindowInv /\ ReachInv

-----------------------------------------------------------------------------
\* An attempt that ends leaves nothing behind.
LEMMA FinishKeeps ==
    ASSUME SyncInv, Finish, mine' = mine, legacy' = legacy,
           tops' \in [Peer -> 0 .. MaxHeight], faults' \in Nat
    PROVE  SyncInv'
<1>1. /\ cpc' = "idle" /\ theirs' = 0 /\ height' = 0 /\ blocks' = <<>>
      /\ proofs' = <<>> /\ applied' = 0 /\ fetched' = {} /\ serve' = NoCall
      /\ from' \in Peer
  BY SyncAssumption DEF Finish
<1>2. TypeInv'
  BY <1>1, SyncAssumption DEF SyncInv, TypeInv, Heights
<1>3. ServeInv'
  BY <1>1 DEF ServeInv, NoCall
<1>4. BatchInv' /\ WindowInv' /\ ReachInv'
  BY <1>1 DEF BatchInv, PairsMatch, WindowInv, ReachInv
<1> QED BY <1>2, <1>3, <1>4 DEF SyncInv

\* A list that runs up from h stays one with the next height.
LEMMA AppendConsecutive ==
    ASSUME NEW h \in Nat, NEW s \in Seq(Heights), Consecutive(s, h), NEW e \in Heights,
           e = h + Len(s)
    PROVE  /\ Append(s, e) \in Seq(Heights) /\ Len(Append(s, e)) = Len(s) + 1
           /\ Consecutive(Append(s, e), h)
<1>1. Append(s, e) \in Seq(Heights) /\ Len(Append(s, e)) = Len(s) + 1
  OBVIOUS
<1>2. ASSUME NEW i \in 1 .. Len(s) + 1 PROVE Append(s, e)[i] = h + i - 1
  <2>1. CASE i = Len(s) + 1  BY <2>1
  <2>2. CASE i \in 1 .. Len(s)
    BY <2>2 DEF Consecutive
  <2> QED BY <2>1, <2>2
<1> QED BY <1>1, <1>2 DEF Consecutive

\* One turn of the server's loop: Take appends the height to both lists, or to
\* the proofs alone when the size is reached.
LEMMA ServeBlockKeeps ==
    ASSUME SyncInv, ServeBlock
    PROVE  ServeInv'
<1> DEFINE a == serve.accum  p == serve.proofs  n == serve.at  c == serve.total + Size[n]
<1>1. /\ cpc = "wait" /\ cpc' = "wait" /\ height' = height /\ height \in Nat
      /\ serve.total <= SizeLimit /\ Consecutive(a, height) /\ Consecutive(p, height)
      /\ Len(a) = Len(p) /\ n = height + Len(p)
      /\ a \in Seq(Heights) /\ p \in Seq(Heights)
  BY DEF ServeBlock, SyncInv, TypeInv, ServeInv
<1>2. n \in Heights /\ Size[n] \in Nat /\ c \in Nat
  BY <1>1, SyncAssumption DEF ServeBlock, SyncInv, TypeInv, ReachInv, ServeInv, Heights
<1>3. /\ Append(p, n) \in Seq(Heights) /\ Len(Append(p, n)) = Len(p) + 1
      /\ Consecutive(Append(p, n), height)
      /\ Append(a, n) \in Seq(Heights) /\ Len(Append(a, n)) = Len(a) + 1
      /\ Consecutive(Append(a, n), height)
  BY <1>1, <1>2, AppendConsecutive
<1>4. serve' = [at |-> n + 1, total |-> c,
                accum |-> IF c > SizeLimit /\ Len(a) > 0 THEN a ELSE Append(a, n),
                proofs |-> Append(p, n)]
  BY DEF ServeBlock, Take
<1>5. n + 1 = height + (Len(p) + 1)
  BY <1>1, <1>2
<1> HIDE DEF a, p, n, c
<1>6. CASE c > SizeLimit /\ Len(a) > 0
  <2>1. serve' = [at |-> n + 1, total |-> c, accum |-> a, proofs |-> Append(p, n)]
    BY <1>4, <1>6
  <2>2. n + 1 \in Nat /\ ~(c <= SizeLimit)
    BY <1>2, <1>6, SyncAssumption DEF Heights
  <2> QED BY <1>1, <1>2, <1>3, <1>5, <2>1, <2>2 DEF ServeInv
<1>7. CASE ~(c > SizeLimit /\ Len(a) > 0)
  <2>1. serve' = [at |-> n + 1, total |-> c, accum |-> Append(a, n), proofs |-> Append(p, n)]
    BY <1>4, <1>7
  <2>2. n + 1 \in Nat
    BY <1>2 DEF Heights
  <2> QED BY <1>1, <1>2, <1>3, <1>5, <2>1, <2>2 DEF ServeInv
<1> QED BY <1>6, <1>7

\* A fresh start.
LEMMA SyncStart == Init => SyncInv
<1> SUFFICES ASSUME Init PROVE SyncInv
  OBVIOUS
<1>1. from \in Peer
  BY SyncAssumption DEF Init
<1>2. TypeInv
  BY <1>1, SyncAssumption DEF Init, TypeInv, Heights
<1>3. ServeInv
  BY DEF Init, ServeInv, NoCall
<1>4. BatchInv /\ WindowInv /\ ReachInv
  BY DEF Init, BatchInv, PairsMatch, WindowInv, ReachInv
<1> QED BY <1>2, <1>3, <1>4 DEF SyncInv

\* The steps of the batched client.
LEMMA BatchKeeps ==
    ASSUME SyncInv, Start \/ Ask \/ Receive \/ ServeBlock \/ ApplyOne \/ NextBatch
    PROVE  SyncInv'
<1> USE SyncAssumption DEF SyncInv
<1>1. CASE Start
  <2>1. TypeInv'
    BY <1>1 DEF Start, TypeInv
  <2>2. ServeInv'
    BY <1>1 DEF Start, ServeInv
  <2>3. BatchInv' /\ ReachInv'
    BY <1>1 DEF Start, TypeInv, BatchInv, PairsMatch, ReachInv
  <2>4. WindowInv'
    BY <1>1 DEF Start, TypeInv, BatchInv, WindowInv
  <2> QED BY <2>1, <2>2, <2>3, <2>4
<1>2. CASE Ask
  <2>1. TypeInv'
    BY <1>2 DEF Ask, TypeInv
  <2>2. serve' = [at |-> height, total |-> 0, accum |-> <<>>, proofs |-> <<>>]
    BY <1>2 DEF Ask, NoCall
  <2>4. height' = height /\ height \in Nat
    BY <1>2 DEF Ask, TypeInv
  <2>5. ServeInv'
    BY <2>2, <2>4 DEF ServeInv, Consecutive
  <2>3. BatchInv' /\ ReachInv' /\ WindowInv'
    BY <1>2 DEF Ask, TypeInv, BatchInv, PairsMatch, ReachInv, WindowInv
  <2> QED BY <2>1, <2>3, <2>5
<1>3. CASE Receive
  <2>1. TypeInv' /\ ServeInv'
    BY <1>3 DEF Receive, TypeInv, ServeInv, NoCall
  <2>2. PairsMatch'
    <3> SUFFICES ASSUME NEW i \in 1 .. Len(serve.accum)
                 PROVE  serve.accum[i] = height + i - 1 /\ serve.proofs[i] = serve.accum[i]
      BY <1>3 DEF Receive, ServeInv, PairsMatch
    <3>1. i \in 1 .. Len(serve.proofs)
      BY <1>3 DEF Receive, ServeInv
    <3> QED BY <1>3, <3>1 DEF Receive, ServeInv, Consecutive
  <2>3. ~legacy
    BY <1>3 DEF Receive, BatchInv
  <2>4. BatchInv' /\ ReachInv' /\ WindowInv'
    BY <1>3, <2>2, <2>3 DEF Receive, TypeInv, ServeInv, BatchInv, ReachInv, WindowInv
  <2> QED BY <2>1, <2>4
<1>4. CASE ServeBlock
  <2>1. ServeInv'
    BY <1>4, ServeBlockKeeps
  <2>2. TypeInv' /\ BatchInv' /\ ReachInv' /\ WindowInv'
    BY <1>4 DEF ServeBlock, TypeInv, BatchInv, PairsMatch, ReachInv, WindowInv, LegacyEnd
  <2> QED BY <2>1, <2>2
<1>5. CASE ApplyOne
  <2>1. mine' \in 0 .. MaxHeight
    BY <1>5 DEF ApplyOne, TypeInv, Goes, MorePairs, NextBlock, Heights
  <2>2. TypeInv' /\ ServeInv'
    BY <1>5, <2>1 DEF ApplyOne, TypeInv, ServeInv
  <2>3. BatchInv' /\ ReachInv' /\ WindowInv'
    BY <1>5 DEF ApplyOne, TypeInv, BatchInv, PairsMatch, MorePairs, Goes, ReachInv, WindowInv
  <2> QED BY <2>2, <2>3
<1>6. CASE NextBatch
  <2>1. applied = Len(blocks) /\ Len(blocks) \in Nat
    BY <1>6 DEF NextBatch, TypeInv, BatchInv, PairsMatch, MorePairs
  <2>2. TypeInv' /\ ServeInv'
    BY <1>6, <2>1 DEF NextBatch, TypeInv, ServeInv
  <2>3. BatchInv' /\ ReachInv' /\ WindowInv'
    BY <1>6, <2>1 DEF NextBatch, TypeInv, BatchInv, PairsMatch, ReachInv, WindowInv
  <2> QED BY <2>2, <2>3
<1> QED BY <1>1, <1>2, <1>3, <1>4, <1>5, <1>6

\* The legacy client fetches a block or applies one.
LEMMA LegacyKeeps ==
    ASSUME SyncInv, LegacyApply \/ \E h \in Heights : LegacyFetch(h)
    PROVE  SyncInv'
<1> USE SyncAssumption DEF SyncInv
<1>1. cpc = "legacy" /\ legacy /\ height \in 1 .. mine + 1 /\ legacy' = legacy
      /\ tops' = tops /\ faults' = faults /\ (mine' = mine \/ mine' = mine + 1)
  BY DEF LegacyApply, LegacyFetch, WindowInv, ReachInv
<1>2. tops' \in [Peer -> 0 .. MaxHeight] /\ faults' \in Nat
  BY <1>1 DEF TypeInv
<1>3. CASE Finish /\ mine' = mine
  BY <1>1, <1>2, <1>3, FinishKeeps
<1>4. ASSUME NEW h \in Heights, LegacyFetch(h), ~Finish PROVE SyncInv'
  <2>1. /\ fetched' = fetched \cup {h} /\ h \in height .. LegacyEnd
        /\ UNCHANGED <<legacy, mine, tops, cpc, from, theirs, height, blocks, proofs,
                       applied, serve, faults>>
    BY <1>4 DEF LegacyFetch
  <2>2. LegacyEnd' = LegacyEnd
    BY <2>1 DEF LegacyEnd
  <2>3. TypeInv' /\ ServeInv'
    BY <2>1 DEF TypeInv, ServeInv
  <2>4. BatchInv' /\ ReachInv'
    BY <1>1, <2>1 DEF BatchInv, PairsMatch, ReachInv
  <2>5. WindowInv'
    BY <1>1, <2>1, <2>2 DEF WindowInv
  <2> QED BY <2>3, <2>4, <2>5
<1>5. ASSUME LegacyApply, height = mine + 1 PROVE SyncInv'
  <2>1. /\ mine' = mine + 1 /\ height' = height + 1 /\ applied' = applied + 1
        /\ fetched' = fetched \ {height} /\ height \in fetched
        /\ UNCHANGED <<legacy, tops, cpc, from, theirs, blocks, proofs, serve, faults>>
    BY <1>5 DEF LegacyApply
  <2>2. mine + 1 \in 0 .. MaxHeight /\ height \in Nat /\ applied \in Nat
    BY <1>5, <2>1 DEF TypeInv, Heights
  <2>3. TypeInv'
    BY <2>1, <2>2 DEF TypeInv
  <2>4. ServeInv' /\ BatchInv' /\ ReachInv'
    BY <1>1, <1>5, <2>1, <2>2 DEF ServeInv, BatchInv, PairsMatch, ReachInv, TypeInv
  <2>5. LegacyEnd' = LegacyEnd /\ LegacyEnd \in Int
    BY <2>1, <2>2 DEF LegacyEnd, TypeInv
  <2>6. WindowInv'
    <3>1. fetched' \subseteq height + 1 .. LegacyEnd
      BY <2>1, <2>2, <2>5 DEF WindowInv
    <3> QED BY <1>1, <2>1, <2>2, <2>5, <3>1 DEF WindowInv
  <2> QED BY <2>3, <2>4, <2>6
<1>6. CASE \E h \in Heights : LegacyFetch(h)
  BY <1>1, <1>3, <1>4, <1>6 DEF LegacyFetch
<1>7. CASE LegacyApply
  <2>1. CASE height = mine + 1  BY <1>5, <1>7, <2>1
  <2>2. CASE height # mine + 1  BY <1>3, <1>7, <2>2 DEF LegacyApply
  <2> QED BY <2>1, <2>2
<1> QED BY <1>6, <1>7

\* No action of server or client breaks SyncInv.
LEMMA SyncStep == SyncInv /\ [Next]_vars => SyncInv'
<1> SUFFICES ASSUME SyncInv, [Next]_vars PROVE SyncInv'
  OBVIOUS
<1>1. /\ tops \in [Peer -> 0 .. MaxHeight] /\ faults \in Nat /\ mine \in 0 .. MaxHeight
      /\ MaxHeight \in Nat
  BY SyncAssumption DEF SyncInv, TypeInv
<1>2. CASE AlreadyThere \/ Done \/ ReceiveNothing \/ ApplyFails \/ LegacyDone
  BY <1>1, <1>2, FinishKeeps DEF AlreadyThere, Done, ReceiveNothing, ApplyFails, LegacyDone
<1>3. CASE Timeout
  BY <1>1, <1>3, FinishKeeps DEF Timeout
<1>4. CASE Start \/ Ask \/ Receive \/ ServeBlock \/ ApplyOne \/ NextBatch
  BY <1>4, BatchKeeps
<1>5. CASE LegacyApply \/ \E h \in Heights : LegacyFetch(h)
  BY <1>5, LegacyKeeps
<1>6. ASSUME NEW p \in Peer, Pick(p) PROVE SyncInv'
  <2>1. tops[p] \in 0 .. MaxHeight
    BY <1>1
  <2>2. TypeInv' /\ ServeInv'
    BY <1>6, <2>1 DEF Pick, SyncInv, TypeInv, ServeInv
  <2>3. BatchInv' /\ ReachInv' /\ WindowInv'
    BY <1>6 DEF Pick, SyncInv, BatchInv, PairsMatch, ReachInv, WindowInv
  <2> QED BY <2>2, <2>3 DEF SyncInv
<1>7. ASSUME NEW p \in Peer, PeerCommit(p) \/ PeerLoses(p) PROVE SyncInv'
  <2>1. tops' \in [Peer -> 0 .. MaxHeight] /\ faults' \in Nat
        /\ legacy' = legacy /\ mine' = mine /\ (Finish \/ UNCHANGED attempt)
    BY <1>1, <1>7 DEF PeerCommit, PeerLoses
  <2>2. CASE Finish
    BY <2>1, <2>2, FinishKeeps
  <2>3. CASE UNCHANGED attempt
    BY <2>1, <2>3 DEF attempt, SyncInv, TypeInv, ServeInv, BatchInv, PairsMatch, ReachInv,
                      WindowInv, LegacyEnd
  <2> QED BY <2>1, <2>2, <2>3
<1>8. CASE OtherCommit
  <2>1. mine' = mine + 1 /\ mine' \in 0 .. MaxHeight /\ UNCHANGED <<legacy, tops, attempt, faults>>
    BY <1>1, <1>8 DEF OtherCommit
  <2>2. TypeInv' /\ ServeInv'
    BY <2>1 DEF attempt, SyncInv, TypeInv, ServeInv
  <2>3. BatchInv' /\ WindowInv'
    BY <2>1 DEF attempt, SyncInv, BatchInv, PairsMatch, WindowInv, LegacyEnd
  <2>4. ReachInv'
    BY <1>1, <2>1 DEF attempt, SyncInv, TypeInv, ReachInv
  <2> QED BY <2>2, <2>3, <2>4 DEF SyncInv
<1>9. CASE UNCHANGED vars
  BY <1>9 DEF vars, attempt, SyncInv, TypeInv, ServeInv, BatchInv, PairsMatch, ReachInv,
              WindowInv, LegacyEnd
<1> QED BY <1>2, <1>3, <1>4, <1>5, <1>6, <1>7, <1>8, <1>9 DEF Next, ClientStep, Heights

\* SyncInv in every reachable state.
LEMMA SyncSafe == Spec => []SyncInv
<1> QED BY SyncStart, SyncStep, PTL DEF Spec

-----------------------------------------------------------------------------
\* Types, and that the client never asks beyond the height after the chain.
THEOREM SyncTypeOK == Spec => []TypeOK
<1>1. SyncInv => TypeOK
  <2> SUFFICES ASSUME SyncInv PROVE TypeOK
    OBVIOUS
  <2> USE SyncAssumption DEF SyncInv, TypeInv
  <2>1. height \in 0 .. MaxHeight + 1
    BY DEF ReachInv
  <2>2. applied \in 0 .. MaxHeight
    BY <2>1 DEF ReachInv, BatchInv, WindowInv
  <2>3. Range(blocks) \cup Range(proofs) \subseteq 1 .. MaxHeight
    BY DEF Range, Heights
  <2> QED BY <2>1, <2>2, <2>3 DEF TypeOK, Heights
<1> QED BY <1>1, SyncSafe, PTL

\* The zip of attempt_blksync pairs every block with its own proof, for any
\* size limit and any sizes, although the server takes back a block and keeps
\* its proof.
THEOREM SyncPairsMatch == Spec => []PairsMatch
<1>1. SyncInv => PairsMatch
  BY DEF SyncInv, BatchInv
<1> QED BY <1>1, SyncSafe, PTL

\* The height asked for next is never above the one the storage waits for.
THEOREM SyncNoGap == Spec => []NoGap
<1>1. SyncInv => NoGap
  BY DEF SyncInv, TypeInv, ReachInv, NoGap
<1> QED BY <1>1, SyncSafe, PTL

\* An attempt that ends with blocks in hand was overtaken by another commit of
\* its own node, or its peer went back.
THEOREM SyncOnlyRacesFail == Spec => OnlyRacesFail
<1> DEFINE Raced == cpc' = "idle" /\ faults' = faults /\ (cpc = "apply" \/ fetched # {})
                      => mine >= Expected \/ tops[from] < theirs
<1>1. SyncInv /\ [Next]_vars => [Raced]_vars
  <2> SUFFICES ASSUME SyncInv, Next, cpc' = "idle", faults' = faults,
                      cpc = "apply" \/ fetched # {}
               PROVE  mine >= Expected \/ tops[from] < theirs
    OBVIOUS
  <2> USE SyncAssumption DEF SyncInv, TypeInv
  <2>1. CASE cpc = "apply"
    <3>1. ApplyFails
      BY <2>1 DEF Next, ClientStep, Pick, PeerCommit, PeerLoses, AlreadyThere, Start, Ask,
                  Done, Receive, ReceiveNothing, ApplyOne, NextBatch, LegacyApply, LegacyDone,
                  ServeBlock, LegacyFetch, Timeout, OtherCommit, attempt
    <3>2. NextBlock = height + applied /\ NextProof = NextBlock
      BY <2>1, <3>1 DEF ApplyFails, MorePairs, NextBlock, NextProof, BatchInv, PairsMatch
    <3>3. height + applied # mine + 1 /\ height + applied <= mine + 1
      BY <2>1, <3>1, <3>2 DEF ApplyFails, Goes, ReachInv
    <3> QED BY <2>1, <3>3 DEF Expected, BatchInv
  <2>2. CASE cpc = "legacy" /\ fetched # {}
    <3>1. LegacyApply \/ LegacyDone \/ \E h \in Heights : LegacyFetch(h)
      BY <2>2 DEF Next, ClientStep, Pick, PeerCommit, PeerLoses, AlreadyThere, Start, Ask,
                  Done, Receive, ReceiveNothing, ApplyOne, ApplyFails, NextBatch, ServeBlock,
                  Timeout, OtherCommit, attempt, Heights
    <3>2. CASE LegacyApply
      BY <2>2, <3>2 DEF LegacyApply, Expected, ReachInv, WindowInv
    <3>3. CASE LegacyDone
      <4>1. LegacyEnd \in Int /\ height \in Int /\ height > LegacyEnd
        BY <3>3 DEF LegacyDone, LegacyEnd
      <4>2. height .. LegacyEnd = {}
        BY <4>1
      <4> QED BY <2>2, <4>2 DEF WindowInv
    <3>4. CASE \E h \in Heights : LegacyFetch(h)
      <4>1. PICK h \in Heights : LegacyFetch(h)
        BY <3>4
      <4>2. ~(h <= tops[from]) /\ h <= LegacyEnd
        BY <2>2, <4>1 DEF LegacyFetch, LegacyEnd
      <4>3. LegacyEnd <= theirs
        BY DEF LegacyEnd
      <4> QED BY <4>2, <4>3 DEF LegacyEnd, Heights
    <3> QED BY <3>1, <3>2, <3>3, <3>4
  <2> QED BY <2>1, <2>2 DEF WindowInv
<1> QED BY <1>1, SyncSafe, PTL DEF Spec, OnlyRacesFail

-----------------------------------------------------------------------------
\* While the server counts below the limit it has counted just the batch, and
\* more than one block only stay in a batch that fits.
FitInv ==
    /\ cpc = "wait" =>
        /\ serve.total <= SizeLimit => SeqTotal(Size, serve.accum) = serve.total
        /\ Len(serve.accum) > 1 => SeqTotal(Size, serve.accum) <= SizeLimit
    /\ cpc = "apply" /\ Len(blocks) > 1 => SeqTotal(Size, blocks) <= SizeLimit

\* A turn of the server's loop.
LEMMA ServeBlockFits ==
    ASSUME SyncInv, FitInv, ServeBlock
    PROVE  FitInv'
<1> DEFINE a == serve.accum  n == serve.at  c == serve.total + Size[n]
<1>1. /\ cpc = "wait" /\ cpc' = "wait" /\ serve.total <= SizeLimit
      /\ SeqTotal(Size, a) = serve.total /\ serve.total \in Nat
      /\ n \in Nat /\ n = height + Len(serve.proofs) /\ a \in Seq(Heights)
  BY DEF ServeBlock, SyncInv, ServeInv, FitInv
<1>2. n \in Heights /\ Size[n] \in Nat /\ SizeLimit \in Nat
  <2>1. tops[from] \in 0 .. MaxHeight /\ n <= tops[from] /\ height \in 1 .. mine + 1
    BY <1>1 DEF ServeBlock, SyncInv, TypeInv, ReachInv
  <2>2. n >= 1 /\ n <= MaxHeight /\ MaxHeight \in Nat
    <3>1. Len(serve.proofs) \in Nat /\ mine \in Nat
      BY DEF SyncInv, ServeInv, TypeInv
    <3> QED BY <1>1, <2>1, <3>1, SyncAssumption
  <2> QED BY <1>1, <2>2, SyncAssumption DEF Heights
<1>3. SeqTotal(Size, Append(a, n)) = c
  <2>1. \A e \in Heights : Size[e] \in Nat
    BY SyncAssumption DEF Heights
  <2> HIDE DEF a, n
  <2>2. SeqTotal(Size, Append(a, n)) = SeqTotal(Size, a) + Size[n]
    BY <1>1, <1>2, <2>1, SeqTotalFacts
  <2> QED BY <1>1, <2>2
<1>4. /\ serve'.total = c
      /\ serve'.accum = IF c > SizeLimit /\ Len(a) > 0 THEN a ELSE Append(a, n)
  BY DEF ServeBlock, Take
<1>5. Len(Append(a, n)) = Len(a) + 1 /\ Len(a) \in Nat /\ c \in Nat
  BY <1>1, <1>2
<1> HIDE DEF a, n, c
<1>6. CASE c > SizeLimit /\ Len(a) > 0
  <2>1. serve'.accum = a /\ ~(c <= SizeLimit)
    BY <1>2, <1>4, <1>5, <1>6
  <2> QED BY <1>1, <1>4, <2>1 DEF FitInv
<1>7. CASE c > SizeLimit /\ Len(a) = 0
  <2>1. Len(serve'.accum) = 1 /\ ~(c <= SizeLimit)
    BY <1>2, <1>4, <1>5, <1>7
  <2> QED BY <1>1, <1>4, <2>1 DEF FitInv
<1>8. CASE ~(c > SizeLimit)
  <2>1. serve'.accum = Append(a, n) /\ c <= SizeLimit
    BY <1>2, <1>4, <1>5, <1>8
  <2> QED BY <1>1, <1>3, <1>4, <2>1 DEF FitInv
<1> QED BY <1>5, <1>6, <1>7, <1>8

\* The other steps start a call, hand its batch over, or leave both alone.
LEMMA FitStep == SyncInv /\ FitInv /\ [Next]_vars => FitInv'
<1> SUFFICES ASSUME SyncInv, FitInv, [Next]_vars PROVE FitInv'
  OBVIOUS
<1>1. CASE ServeBlock
  BY <1>1, ServeBlockFits
<1>2. CASE Ask
  <2>1. serve'.accum = <<>> /\ serve'.total = 0 /\ cpc' = "wait"
    BY <1>2 DEF Ask, NoCall
  <2>2. SeqTotal(Size, <<>>) = 0
    BY SyncAssumption, SeqTotalFacts
  <2> QED BY <2>1, <2>2 DEF FitInv
<1>3. CASE Receive
  BY <1>3 DEF Receive, FitInv
<1>4. CASE cpc' \notin {"wait", "apply"}
  BY <1>4 DEF FitInv
<1>5. CASE UNCHANGED <<cpc, serve, blocks>>
  BY <1>5 DEF FitInv
<1>6. CASE AlreadyThere \/ Done \/ ReceiveNothing \/ ApplyFails \/ LegacyDone \/ Timeout
  BY <1>4, <1>6 DEF AlreadyThere, Done, ReceiveNothing, ApplyFails, LegacyDone, Timeout, Finish
<1>7. CASE Start \/ NextBatch
  BY <1>4, <1>7 DEF Start, NextBatch
<1>8. CASE ApplyOne \/ OtherCommit \/ UNCHANGED vars
  BY <1>5, <1>8 DEF ApplyOne, OtherCommit, vars, attempt
<1>9. ASSUME NEW p \in Peer, Pick(p) \/ PeerCommit(p) \/ PeerLoses(p) PROVE FitInv'
  BY <1>4, <1>5, <1>9 DEF Pick, PeerCommit, PeerLoses, Finish, attempt
<1>10. ASSUME LegacyApply \/ \E h \in Heights : LegacyFetch(h) PROVE FitInv'
  <2>1. cpc' \notin {"wait", "apply"}
    BY <1>10 DEF LegacyApply, LegacyFetch, Finish
  <2> QED BY <1>4, <2>1
<1> QED BY <1>1, <1>2, <1>3, <1>6, <1>7, <1>8, <1>9, <1>10 DEF Next, ClientStep, Heights

\* A batch the client gets is within the limit it asked for unless it is one
\* block: get_lz4_blocks goes over the limit only to take the block back.
THEOREM SyncBatchFits == Spec => []BatchFits
<1>1. Init => FitInv
  BY DEF Init, FitInv
<1>2. FitInv => BatchFits
  BY DEF FitInv, BatchFits, SeqTotal
<1> QED BY <1>1, <1>2, FitStep, SyncSafe, PTL DEF Spec
=============================================================================
