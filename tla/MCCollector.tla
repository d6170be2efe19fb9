---------------------------- MODULE MCCollector ----------------------------
(* Small instances of Collector.  A viewer is interchangeable with another. *)
EXTENDS Collector, TLC

CONSTANTS v1, v2

Two == {v1, v2}

Symmetry == Permutations(Viewers)
=============================================================================
