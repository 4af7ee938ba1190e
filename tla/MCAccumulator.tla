--------------------------- MODULE MCAccumulator ---------------------------
(* Small instances of Accumulator: three or four buckets of three ticks.   *)
EXTENDS Accumulator
=============================================================================
