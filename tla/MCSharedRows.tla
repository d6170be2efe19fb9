---------------------------- MODULE MCSharedRows ----------------------------
(* Three services: 1 and 2 are OK, 3 is DEGRADED.                           *)
EXTENDS SharedRows, TLC

CONSTANTS v1, v2

Rows2 == 1..2
Rows3 == 1..3

\* severity: DEGRADED 0, WARNING 1, OK 6
States2 == 1 :> 6 @@ 2 :> 6
States3 == 1 :> 6 @@ 2 :> 6 @@ 3 :> 0

Short2 == 1 :> {} @@ 2 :> {"other"}
Short3 == 1 :> {"accelerator", "other"} @@ 2 :> {"other"} @@ 3 :> {}

OneWriter == {{"pending"}, {"running"}}
Both      == {{"pending", "running"}}

Symmetry == Permutations(Viewers)
=============================================================================
