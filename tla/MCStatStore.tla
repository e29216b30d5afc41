------------------------------ MODULE MCStatStore ------------------------------
(* Instances of the storage for TLC. *)
EXTENDS StatStore

\* As in defaultStatConfig, Reduce leaves axes in the ring (Ratio < Len).
ThreeLen == (0 :> 3) @@ (1 :> 2) @@ (2 :> 1)
ThreeRatio == (0 :> 2) @@ (1 :> 1) @@ (2 :> 0)
TwoLen == (0 :> 3) @@ (1 :> 2)
TwoRatio == (0 :> 2) @@ (1 :> 0)
=============================================================================
