--------------------------- MODULE MCInputThreads ---------------------------
(* Instances of InputThreads for TLC.                                       *)
EXTENDS InputThreads

LoopFirst == [f \in Files |-> IF f = 0 THEN 1 ELSE 0]
=============================================================================
