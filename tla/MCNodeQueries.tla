--------------------------- MODULE MCNodeQueries ---------------------------
(* Two blocks compete for height 1, each with two proofs; one has a child. *)
EXTENDS NodeQueries

MCBlock == {"a1", "b1", "a2"}
MCExtends(block, proof, parent) ==
    parent = IF block = "a2" THEN "a1" ELSE "genesis"
=============================================================================
