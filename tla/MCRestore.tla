----------------------------- MODULE MCRestore -----------------------------
(* Two instances (or one) and four devices with history, one for each kind *)
(* of query.                                                               *)
EXTENDS Restore
=============================================================================
