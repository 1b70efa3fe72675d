---------------------------- MODULE MCTranscode ----------------------------
(* Instances of Transcode for TLC.                                          *)
EXTENDS Transcode, TLC

\* Streams 1 and 2 are the video and the audio of file 0, stream 3 is file 1.
\* Output 1 is encoded from streams 1 and 3, output 2 copied from stream 2 and
\* output 3 encoded from stream 1.
TheStreams == {1, 2, 3}
TheFileOf  == (1 :> 0) @@ (2 :> 0) @@ (3 :> 1)
TheSource  == (2 :> 2)
TheInputs  == (1 :> {1, 3}) @@ (3 :> {1})
TheStep    == (1 :> 2) @@ (2 :> 1) @@ (3 :> 2)
TheLimits  == {[o \in Outputs |-> IF o \in l THEN 1 ELSE NoLimit] : l \in {{}, {1}, {2}}}
=============================================================================
