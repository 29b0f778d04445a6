----------------------------- MODULE MCTxGossip -----------------------------
(* A client calls n1, which passes on to n2 and n3; these pass on to each  *)
(* other.  The transaction spends coins of one that only stakers know.     *)
EXTENDS TxGossip

MCRoutes == [n \in Node |-> {"n2", "n3"} \ {n}]
MCNeeds == [t \in Tx |-> Elsewhere]
=============================================================================
