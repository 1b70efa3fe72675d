------------------------- MODULE ThreadMessageQueue -------------------------
(* One queue of libavutil/threadmessage.c used by any threads: each thread  *)
(* calls send or recv, blocking or not, set_err_send, set_err_recv or       *)
(* flush, in any order.                                                     *)
EXTENDS MessageQueue, FiniteSets

CONSTANTS
    Threads,    \* the threads that use the queue
    Capacity,   \* nelem
    MaxSends    \* bound: send calls made

AVERROR_EOF == -1

ASSUME QueueAssumption ==
    /\ IsFiniteSet(Threads)
    /\ Capacity \in Nat \ {0}
    /\ MaxSends \in Nat

VARIABLES
    mq,         \* the queue
    call,       \* the call each thread is in: "none", "send" or "recv"
    nonblock,   \* its AV_THREAD_MESSAGE_NONBLOCK flag
    calls,      \* send calls made so far; a call's number is its message
    msg,        \* the message each thread in send carries, 0 outside send
    sent,       \* history: messages accepted, in order
    taken       \* history: how many of them recv or flush has taken

vars == <<mq, call, nonblock, calls, msg, sent, taken>>

Init ==
    /\ mq = NewQueue(Capacity)
    /\ call = [t \in Threads |-> "none"]
    /\ nonblock = [t \in Threads |-> FALSE]
    /\ calls = 0
    /\ msg = [t \in Threads |-> 0]
    /\ sent = <<>>
    /\ taken = 0

Running(t, what) == call[t] = what /\ t \notin Asleep(mq)

\* The call returns; the caller's arguments are gone with it.
Return(t) ==
    /\ call' = [call EXCEPT ![t] = "none"]
    /\ nonblock' = [nonblock EXCEPT ![t] = FALSE]
    /\ msg' = [msg EXCEPT ![t] = 0]

\* A thread calls av_thread_message_queue_send or _recv.
CallSend(t) ==
    /\ call[t] = "none"
    /\ calls < MaxSends
    /\ calls' = calls + 1
    /\ msg' = [msg EXCEPT ![t] = calls']
    /\ call' = [call EXCEPT ![t] = "send"]
    /\ \E b \in BOOLEAN : nonblock' = [nonblock EXCEPT ![t] = b]
    /\ UNCHANGED <<mq, sent, taken>>

CallRecv(t) ==
    /\ call[t] = "none"
    /\ call' = [call EXCEPT ![t] = "recv"]
    /\ \E b \in BOOLEAN : nonblock' = [nonblock EXCEPT ![t] = b]
    /\ UNCHANGED <<mq, calls, msg, sent, taken>>

\* av_thread_message_queue_send_locked
send_locked(t) ==
    /\ Running(t, "send")
    /\ \/ /\ SendWaits(mq) /\ nonblock[t]               \* AVERROR(EAGAIN)
          /\ Return(t)
          /\ UNCHANGED <<mq, sent>>
       \/ /\ SendWaits(mq) /\ ~nonblock[t]
          /\ mq' = SleepSend(mq, t)
          /\ UNCHANGED <<call, nonblock, msg, sent>>
       \/ /\ mq.err_send # NoError                       \* err_send
          /\ Return(t)
          /\ UNCHANGED <<mq, sent>>
       \/ /\ ~SendWaits(mq) /\ mq.err_send = NoError
          /\ mq' \in Written(mq, msg[t])
          /\ sent' = Append(sent, msg[t])
          /\ Return(t)
    /\ UNCHANGED <<calls, taken>>

\* av_thread_message_queue_recv_locked: messages go before the error.
recv_locked(t) ==
    /\ Running(t, "recv")
    /\ \/ /\ RecvWaits(mq) /\ nonblock[t]               \* AVERROR(EAGAIN)
          /\ Return(t)
          /\ UNCHANGED <<mq, taken>>
       \/ /\ RecvWaits(mq) /\ ~nonblock[t]
          /\ mq' = SleepRecv(mq, t)
          /\ UNCHANGED <<call, nonblock, msg, taken>>
       \/ /\ RecvFails(mq)                               \* err_recv
          /\ Return(t)
          /\ UNCHANGED <<mq, taken>>
       \/ /\ mq.fifo # <<>>
          /\ mq' \in Read(mq)
          /\ taken' = taken + 1
          /\ Return(t)
    /\ UNCHANGED <<calls, sent>>

set_err_send(t) ==
    /\ call[t] = "none"
    /\ mq' = SetErrSend(mq, AVERROR_EOF)
    /\ UNCHANGED <<call, nonblock, calls, msg, sent, taken>>

set_err_recv(t) ==
    /\ call[t] = "none"
    /\ mq' = SetErrRecv(mq, AVERROR_EOF)
    /\ UNCHANGED <<call, nonblock, calls, msg, sent, taken>>

flush(t) ==
    /\ call[t] = "none"
    /\ mq' = Flushed(mq)
    /\ taken' = Len(sent)
    /\ UNCHANGED <<call, nonblock, calls, msg, sent>>

\* pthread_cond_wait may return without a signal.
SpuriousWakeup(t) ==
    /\ t \in Asleep(mq)
    /\ mq' = Woken(mq, t)
    /\ UNCHANGED <<call, nonblock, calls, msg, sent, taken>>

Step(t) == send_locked(t) \/ recv_locked(t)

Next ==
    \E t \in Threads :
        \/ CallSend(t) \/ CallRecv(t) \/ Step(t)
        \/ set_err_send(t) \/ set_err_recv(t) \/ flush(t)
        \/ SpuriousWakeup(t)

Spec == Init /\ [][Next]_vars

\* A thread that is awake inside send or recv gets the mutex and goes on.
FairSpec == Spec /\ \A t \in Threads : WF_vars(Step(t))

-----------------------------------------------------------------------------
Awake(what) == {t \in Threads : Running(t, what)}

TypeOK ==
    /\ mq \in [nelem : {Capacity}, fifo : Seq(1..MaxSends),
               err_send : {NoError, AVERROR_EOF},
               err_recv : {NoError, AVERROR_EOF},
               cond_send : SUBSET Threads, cond_recv : SUBSET Threads]
    /\ call \in [Threads -> {"none", "send", "recv"}]
    /\ nonblock \in [Threads -> BOOLEAN]
    /\ calls \in 0..MaxSends
    /\ msg \in [Threads -> 0..MaxSends]
    /\ sent \in Seq(1..MaxSends)
    /\ taken \in Nat

\* A receiver asleep on cond_recv has no message to wake for: whenever
\* messages are queued, at least as many receivers are awake in recv.  One
\* pthread_cond_signal per message is therefore enough.
NoLostReceiver ==
    mq.cond_recv # {} =>
        /\ mq.err_recv = NoError
        /\ Len(mq.fifo) <= Cardinality(Awake("recv"))

\* The same of senders and free slots, flush included, which frees them all
\* and must broadcast.
NoLostSender ==
    mq.cond_send # {} =>
        /\ mq.err_send = NoError
        /\ Capacity - Len(mq.fifo) <= Cardinality(Awake("send"))

\* The queue never holds more than nelem messages and is the untaken rest of
\* what was accepted, in order: nothing is lost, duplicated or reordered.
QueueIsRestOfSent ==
    /\ Len(mq.fifo) <= Capacity
    /\ taken + Len(mq.fifo) = Len(sent)
    /\ \A i \in 1..Len(mq.fifo) : mq.fifo[i] = sent[taken + i]

\* A receiver that waits while messages are queued does not wait for ever:
\* the queue is emptied or no receiver is left asleep.
ReceiversServed ==
    (mq.cond_recv # {} /\ mq.fifo # <<>>) ~> (mq.cond_recv = {} \/ mq.fifo = <<>>)

\* The bounded channel the queue implements, its end closed by set_err_send.
Channel == INSTANCE BoundedChannel WITH
    Messages <- 1..MaxSends, Size <- Capacity, channel <- mq.fifo,
    closed <- mq.err_send # NoError

ImplementsChannel == Channel!Spec
=============================================================================
