----------------------------- MODULE InputFeed -----------------------------
(* What reading the inputs promises the main loop: each file's packets, in  *)
(* demuxing order, none left out, then its end; -stream_loop starts a file  *)
(* over.  How many threads and queues carry them does not show.             *)
EXTENDS Integers, Sequences

CONSTANTS Files, MaxPackets

VARIABLES
    nread,    \* packets the demuxer of each file has returned in this pass
    got,      \* those the main loop got
    eof,      \* the file has ended for the main loop
    closed    \* the main loop is over

vars == <<nread, got, eof, closed>>

Init ==
    /\ nread = [f \in Files |-> 0]
    /\ got = [f \in Files |-> <<>>]
    /\ eof = [f \in Files |-> FALSE]
    /\ closed = FALSE

Produce(f) ==
    /\ nread[f] < MaxPackets
    /\ nread' = [nread EXCEPT ![f] = @ + 1]
    /\ UNCHANGED <<got, eof, closed>>

Deliver(f) ==
    /\ ~closed /\ ~eof[f]
    /\ Len(got[f]) < nread[f]
    /\ got' = [got EXCEPT ![f] = Append(@, Len(@) + 1)]
    /\ UNCHANGED <<nread, eof, closed>>

\* One file alone is read by the main loop itself.
Pull(f) ==
    /\ ~closed /\ ~eof[f]
    /\ Len(got[f]) = nread[f] /\ nread[f] < MaxPackets
    /\ nread' = [nread EXCEPT ![f] = @ + 1]
    /\ got' = [got EXCEPT ![f] = Append(@, Len(@) + 1)]
    /\ UNCHANGED <<eof, closed>>

\* A file ends only once all it returned was delivered.
End(f) ==
    /\ ~closed /\ ~eof[f]
    /\ Len(got[f]) = nread[f]
    /\ eof' = [eof EXCEPT ![f] = TRUE]
    /\ UNCHANGED <<nread, got, closed>>

\* A file is started over only once all it returned was delivered; what fails
\* after that may end the main loop in the same step.
Rewind(f) ==
    /\ ~closed /\ ~eof[f]
    /\ Len(got[f]) = nread[f]
    /\ nread' = [nread EXCEPT ![f] = 0]
    /\ got' = [got EXCEPT ![f] = <<>>]
    /\ closed' \in BOOLEAN
    /\ UNCHANGED eof

Close ==
    /\ closed' = TRUE
    /\ UNCHANGED <<nread, got, eof>>

Next ==
    \/ \E f \in Files : Produce(f) \/ Deliver(f) \/ Pull(f) \/ End(f) \/ Rewind(f)
    \/ Close

Spec == Init /\ [][Next]_vars
=============================================================================
