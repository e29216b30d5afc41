----------------------------- MODULE MCLayerRange -----------------------------
(* Instances of the layer chain for TLC. *)
EXTENDS LayerRange

\* A ring that is reduced in part, a ring that Reduce empties, and a last ring
\* that drops its oldest axis.
ThreeLen == (0 :> 3) @@ (1 :> 2) @@ (2 :> 2)
ThreeRatio == (0 :> 2) @@ (1 :> 2) @@ (2 :> 0)
=============================================================================
