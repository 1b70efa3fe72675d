--------------------------- MODULE BoundedChannel ---------------------------
(* What a message queue promises its users: a first-in first-out channel    *)
(* of bounded size that accepts nothing once its sending end is closed.     *)
EXTENDS Integers, Sequences

CONSTANTS Messages, Size

VARIABLES channel, closed

Init == channel = <<>> /\ closed = FALSE

Put ==
    /\ ~closed
    /\ Len(channel) < Size
    /\ \E m \in Messages : channel' = Append(channel, m)
    /\ UNCHANGED closed

Take ==
    /\ channel # <<>>
    /\ channel' = Tail(channel)
    /\ UNCHANGED closed

Empty ==
    /\ channel' = <<>>
    /\ UNCHANGED closed

Close ==
    /\ closed' = TRUE
    /\ UNCHANGED channel

Next == Put \/ Take \/ Empty \/ Close

Spec == Init /\ [][Next]_<<channel, closed>>
=============================================================================
