---------------------------- MODULE MCMuxQueue ----------------------------
(* A video that is encoded and an audio that is copied.  The muxer's time    *)
(* base is half as fine as the video's: 0 becomes 0 and 3 becomes 2.  It is  *)
(* twice as fine as the audio's, which counts every fourth sample.           *)
EXTENDS MuxQueue, TLC

FirstStream  == {1}
SecondStream == {2}
BothStreams  == {1, 2}
SomeTimes    == {0, 3}
SomeSizes    == {0, 10, 17}
Rescaling    == 1 :> [t \in SomeTimes |-> (t + 1) \div 2]
                  @@ 2 :> [t \in SomeTimes |-> 2 * t]
InSamples    == [s \in BothStreams |-> [t \in SomeTimes |-> 4 * t]]
LowSamples   == [s \in BothStreams |-> [t \in SomeTimes |-> 4 * t - 2]]
HighSamples  == [s \in BothStreams |-> [t \in SomeTimes |-> 4 * t + 2]]
OfSamples    == [s \in BothStreams |->
                    [n \in -6..18 |-> IF n < 0 THEN -((1 - n) \div 2) ELSE (n + 1) \div 2]]
Frames       == 1 :> 1 @@ 2 :> 3
Bounds       == 1 :> 2 @@ 2 :> 4
=============================================================================
