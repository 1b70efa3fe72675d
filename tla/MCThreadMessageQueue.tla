------------------------ MODULE MCThreadMessageQueue ------------------------
(* Instances of ThreadMessageQueue for TLC.                                 *)
EXTENDS ThreadMessageQueue

CONSTANTS t1, t2, t3    \* threads (model values)

ThreeThreads == {t1, t2, t3}
=============================================================================
