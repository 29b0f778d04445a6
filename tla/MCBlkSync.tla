----------------------------- MODULE MCBlkSync -----------------------------
(* Two peers, five blocks: one that fills a batch alone, some that share   *)
(* one.                                                                    *)
EXTENDS BlkSync

MCSize == <<2, 1, 5, 1, 2>>
=============================================================================
