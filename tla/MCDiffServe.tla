---------------------------- MODULE MCDiffServe ----------------------------
(* Two stakers, whose rounds end five times between them.                  *)
EXTENDS DiffServe
=============================================================================
