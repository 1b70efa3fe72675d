---------------------------- MODULE MessageQueue ----------------------------
(* struct AVThreadMessageQueue of libavutil/threadmessage.c as a value, and *)
(* what each critical section of the file does to it.  The mutex is held    *)
(* from the first statement of a function to its end or to                  *)
(* pthread_cond_wait, so each operator below is one atomic step.  A wait    *)
(* set holds the threads asleep in pthread_cond_wait; a thread that leaves  *)
(* it locks the mutex again and re-tests the loop condition.                *)
EXTENDS Integers, Sequences

NoError == 0

\* Mutant of NewQueue: room for one message more.
NewQueueLarger(nelem) ==
    [nelem |-> nelem + 1, fifo |-> <<>>, err_send |-> NoError,
     err_recv |-> NoError, cond_send |-> {}, cond_recv |-> {}]

\* av_thread_message_queue_alloc(mq, nelem, elsize)
NewQueue(nelem) ==
    [nelem |-> nelem, fifo |-> <<>>, err_send |-> NoError,
     err_recv |-> NoError, cond_send |-> {}, cond_recv |-> {}]

\* Mutant of SendWaits: the test for space is off by one.
SendWaitsLate(q) == q.err_send = NoError /\ Len(q.fifo) > q.nelem

\* The conditions of the two waiting loops.
SendWaits(q) == q.err_send = NoError /\ Len(q.fifo) >= q.nelem
RecvWaits(q) == q.err_recv = NoError /\ q.fifo = <<>>

\* Mutant of RecvFails: the error goes before the messages.
RecvFailsEarly(q) == q.err_recv # NoError

\* recv returns err_recv, once the queue is empty.
RecvFails(q) == q.fifo = <<>> /\ q.err_recv # NoError

\* pthread_cond_signal wakes one of the threads asleep, if there is one: the
\* wait sets it may leave behind.
AfterSignal(cond) == IF cond = {} THEN {{}} ELSE {cond \ {t} : t \in cond}

\* Mutant of Written: no receiver is signalled.
WrittenSilently(q, msg) == {[q EXCEPT !.fifo = Append(@, msg)]}

\* A message is written and one receiver signalled.
Written(q, msg) ==
    {[q EXCEPT !.fifo = Append(@, msg), !.cond_recv = c] :
        c \in AfterSignal(q.cond_recv)}

\* Mutant of Read: the youngest message is read.
ReadLast(q) ==
    {[q EXCEPT !.fifo = SubSeq(@, 1, Len(@) - 1), !.cond_send = c] :
        c \in AfterSignal(q.cond_send)}

\* The oldest message is read and one sender signalled.
Read(q) ==
    {[q EXCEPT !.fifo = Tail(@), !.cond_send = c] :
        c \in AfterSignal(q.cond_send)}

\* av_thread_message_queue_set_err_send and set_err_recv broadcast.
SetErrSend(q, err) == [q EXCEPT !.err_send = err, !.cond_send = {}]
SetErrRecv(q, err) == [q EXCEPT !.err_recv = err, !.cond_recv = {}]

\* Mutant of Flushed: no sender is woken.
FlushedSilently(q) == [q EXCEPT !.fifo = <<>>]

\* av_thread_message_flush
Flushed(q) == [q EXCEPT !.fifo = <<>>, !.cond_send = {}]

\* pthread_cond_wait puts t to sleep; it may also wake up for no reason.
SleepSend(q, t) == [q EXCEPT !.cond_send = @ \cup {t}]
SleepRecv(q, t) == [q EXCEPT !.cond_recv = @ \cup {t}]
Woken(q, t) == [q EXCEPT !.cond_send = @ \ {t}, !.cond_recv = @ \ {t}]

Asleep(q) == q.cond_send \cup q.cond_recv
=============================================================================
