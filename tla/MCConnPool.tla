----------------------------- MODULE MCConnPool -----------------------------
(* Two connections for three callers, one of which is apply_block.         *)
EXTENDS ConnPool
=============================================================================
