------------------------- MODULE MCFFmpegCommand -------------------------
(* Instances of FFmpegCommand for TLC.                                     *)
EXTENDS FFmpegCommand, TLC

CONSTANTS r1, r2    \* runs (model values)

TwoRuns == {r1, r2}
OneRun  == {r1}

WriteFails == {"writeError"}
Exists     == {"outputExists"}
Overlap    == {"badOption", "writeError", "outputExists"}

Symmetry == Permutations(TwoRuns)
=============================================================================
