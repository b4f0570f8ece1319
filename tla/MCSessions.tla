----------------------------- MODULE MCSessions -----------------------------
(* Instances of Sessions for TLC: how many chunks each version of the file *)
(* leaves to the background indexer.                                       *)
EXTENDS Sessions

TwoChunks == [v \in {0} |-> 2]
ShrinkingFile == [v \in 0..1 |-> IF v = 0 THEN 2 ELSE 0]
=============================================================================
