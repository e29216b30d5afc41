----------------------------- MODULE MCHeatmap -----------------------------
EXTENDS Heatmap

MCLogical == [k \in 0..6 |-> CASE k = 0 -> "none" [] k \in 1..4 -> "t1" [] OTHER -> "t2"]
MCWeight == <<3, 2>>

\* Regions that split and merge from one sample to the next; hot, cold, idle and dirty ones.
MCSamples == {
  [keys |-> <<0, 0>>, columns |-> <<<<7>>, <<2>>>>],
  [keys |-> <<0, 3, 0>>, columns |-> <<<<9, 1>>, <<0, 5>>>>],
  [keys |-> <<0, 1, 2, 4, 0>>, columns |-> <<<<0, 3, 1, 1>>, <<1, 0, 0, 0>>>>],
  [keys |-> <<0, 1, 2, 3, 5, 6, 0>>, columns |-> <<<<0, 0, 9, 0, 0, 0>>, <<0, 0, 0, 0, 0, 0>>>>],
  [keys |-> <<0, 1, 3, 4, 5, 0>>, columns |-> <<<<1, 6, 1, 0, 99>>, <<0, 2, 0, 1, 1>>>>],
  [keys |-> <<0, 1, 2, 3, 4, 5, 6, 0>>, columns |-> <<<<9, 7, 9, 1, 0, 9, 20>>, <<0, 2, 0, 0, 1, 0, 10>>>>],
  [keys |-> <<0, 1, 2, 3, 4, 5, 6, 0>>, columns |-> <<<<9, 30, 10, 30, 0, 9, 1>>, <<0, 0, 20, 0, 30, 0, 0>>>>] }

MCRanges == {<<0, 0>>, <<0, 2>>, <<1, 3>>, <<2, 5>>, <<3, 0>>}
=============================================================================
