----------------------------- MODULE SmallChain -----------------------------
(* A small block tree for the model-checking modules.                      *)
(*                                                                         *)
(*     genesis -- a1 -- a2 -- a3                                           *)
(*            \-- b1    \-- x2 (melstf refuses it)                         *)
(*                                                                         *)
(* Every height is an epoch of its own.  alice and bob are genesis         *)
(* stakers; bob's stake ends with epoch 1.  carol's stake is registered in *)
(* a2 and counts from epoch 3 on.  a1 carries a Stake transaction from     *)
(* below MirrorFrom, which neither melstf nor the table registers.         *)
EXTENDS Naturals

LOCAL Doc(hash, key, syms, start, end) ==
    [txhash |-> hash, pubkey |-> key, syms_staked |-> syms,
     e_start |-> start, e_post_end |-> end]

LOCAL docA == Doc(1, "alice", 3, 0, 9)
LOCAL docB == Doc(2, "bob", 2, 0, 2)
LOCAL docC == Doc(3, "carol", 4, 3, 9)
LOCAL docD == Doc(4, "carol", 9, 1, 9)

SCKey == {"alice", "bob", "carol"}
SCDocOrder == <<docC, docB, docD, docA>>
SCStakeDoc == {docA, docB, docC, docD}
SCGenesisStakes == {docA, docB}

LOCAL Cproof(signers) == [k \in SCKey |-> IF k \in signers THEN "good" ELSE "none"]
SCProof == {Cproof({"alice", "carol"}), Cproof({"bob"})}
SCProofAny == {Cproof(s) : s \in SUBSET SCKey}
SCProofGood == {Cproof({"alice", "carol"})}

SCBlock == {"genesis", "a1", "a2", "a3", "b1", "x2"}
SCSound == {"a1", "a2", "a3", "b1"}
SCHeight == [b \in SCBlock |->
                CASE b = "genesis" -> 0
                  [] b \in {"a1", "b1"} -> 1
                  [] b \in {"a2", "x2"} -> 2
                  [] b = "a3" -> 3]
SCPrev == [b \in SCBlock |->
                CASE b \in {"genesis", "a1", "b1"} -> "genesis"
                  [] b \in {"a2", "x2"} -> "a1"
                  [] b = "a3" -> "a2"]
SCDocsIn == [b \in SCBlock |-> CASE b = "a1" -> {docD}
                                 [] b = "a2" -> {docC}
                                 [] OTHER    -> {}]
SCRegistered == [b \in SCBlock |-> IF b = "a2" THEN {docC} ELSE {}]
SCMirrorFrom == 2
SCStakesAfter == [b \in SCBlock |-> CASE SCHeight[b] < 2 -> {docA, docB}
                                      [] b = "x2" -> {docA}
                                      [] OTHER -> {docA, docC}]

(* Transactions: spend makes d out of c and is confirmed in a1; rival      *)
(* spends c too; child spends d, last spends what child makes.             *)
SCTx == {"spend", "rival", "child", "last"}
SCCoin == {"c", "d", "e", "f"}
SCSpends == [t \in SCTx |-> CASE t = "child" -> {"d"} [] t = "last" -> {"e"}
                              [] OTHER -> {"c"}]
SCMakes == [t \in SCTx |-> CASE t = "spend" -> {"d"} [] t = "child" -> {"e"}
                             [] t = "rival" -> {"f"} [] OTHER -> {}]
SCWeight == [t \in SCTx |-> IF t = "child" THEN 3 ELSE 2]
SCUnspentAfter == [b \in SCBlock |-> IF b \in {"genesis", "b1"} THEN {"c"} ELSE {"d"}]
=============================================================================
