---------------------------- MODULE InputThreads ----------------------------
(* The demuxing threads of ffmpeg.c and the main thread that consumes their *)
(* packets: one thread and one AVThreadMessageQueue per input file when     *)
(* there are several files; with one, the main thread reads it itself.      *)
(* Which file the main loop reads next is left open here: Transcode says    *)
(* how choose_output and the filter graphs decide it.                       *)
EXTENDS MessageQueue, FiniteSets

CONSTANTS
    MaxFiles,       \* bound: input files of the command
    thread_queue_size,
    NonBlocking,    \* files whose source is not seekable (f->non_blocking)
    RateEmu,        \* files read with -re
    Loops,          \* Loops[f]: the -stream_loop count of f
    MaxPackets,     \* bound: packets a demuxer returns before its end
    Abort,          \* TRUE: the main loop may stop before the inputs end
    InitFails       \* TRUE: a queue or a thread may fail to be created

Files == 0..(MaxFiles - 1)
Main  == -1

ASSUME InputAssumption ==
    /\ MaxFiles \in Nat \ {0}
    /\ thread_queue_size \in Nat \ {0}
    /\ NonBlocking \subseteq Files
    /\ RateEmu \subseteq Files
    /\ Loops \in [Files -> Nat]
    /\ MaxPackets \in Nat
    /\ Abort \in BOOLEAN
    /\ InitFails \in BOOLEAN

AVERROR_EOF == -1
AVERROR_EIO == -2       \* any other error of av_read_frame

NoQueue == [nelem |-> 0, fifo |-> <<>>, err_send |-> NoError,
            err_recv |-> NoError, cond_send |-> {}, cond_recv |-> {}]

VARIABLES
    nb_input_files, \* input files of this command, set before the loop
    queue,      \* in_thread_queue of each file, NoQueue when it is NULL
    tpc,        \* where each input thread is
    flags,      \* the thread's AV_THREAD_MESSAGE_NONBLOCK flag
    pkt,        \* the packet the thread holds, 0 when it holds none
    tret,       \* the error the thread ends with
    nread,      \* packets the demuxer has returned since the last seek
    mpc,        \* where the main thread is
    cur,        \* the file it works on
    restarting, \* process_input is starting cur over (-stream_loop)
    loop,       \* loops left (ifile->loop)
    eagain,     \* ifile->eagain
    eof,        \* ifile->eof_reached
    got,        \* packets of this pass over the file the main thread got
    freed       \* packets unreferenced without being processed

thread == <<tpc, flags, pkt, tret>>
main   == <<mpc, cur, restarting, loop, eagain, eof, got>>
vars   == <<nb_input_files, queue, thread, nread, main, freed>>

Open     == 0..(nb_input_files - 1)
Threaded == nb_input_files > 1

Init ==
    /\ nb_input_files \in 1..MaxFiles
    /\ queue = [f \in Files |-> NoQueue]
    /\ tpc = [f \in Files |-> "none"]
    /\ flags = [f \in Files |-> FALSE]
    /\ pkt = [f \in Files |-> 0]
    /\ tret = [f \in Files |-> 0]
    /\ nread = [f \in Files |-> 0]
    /\ mpc = "init" /\ cur = 0 /\ restarting = FALSE
    /\ loop = Loops
    /\ eagain = [f \in Files |-> FALSE]
    /\ eof = [f \in Files |-> FALSE]
    /\ got = [f \in Files |-> <<>>]
    /\ freed = [f \in Files |-> 0]

-----------------------------------------------------------------------------
(* input_thread(f)                                                          *)

Running(f) == f \notin Asleep(queue[f])

\* av_read_frame returns a packet, an error, or AVERROR(EAGAIN), after which
\* the thread sleeps and tries again.
read_frame(f) ==
    /\ tpc[f] = "read"
    /\ \/ /\ nread[f] < MaxPackets
          /\ nread' = [nread EXCEPT ![f] = @ + 1]
          /\ pkt' = [pkt EXCEPT ![f] = nread'[f]]
          /\ tpc' = [tpc EXCEPT ![f] = "send"]
          /\ UNCHANGED tret
       \/ /\ \E e \in {AVERROR_EOF, AVERROR_EIO} : tret' = [tret EXCEPT ![f] = e]
          /\ tpc' = [tpc EXCEPT ![f] = "fail"]
          /\ UNCHANGED <<nread, pkt>>
       \/ UNCHANGED <<nread, pkt, tpc, tret>>
    /\ UNCHANGED <<nb_input_files, queue, flags, main, freed>>

\* Mutant of Unref: the packet leaks.
Forget(f) ==
    /\ pkt' = [pkt EXCEPT ![f] = 0]
    /\ UNCHANGED freed

\* av_packet_unref of the packet the thread holds
Unref(f) ==
    /\ pkt' = [pkt EXCEPT ![f] = 0]
    /\ freed' = [freed EXCEPT ![f] = @ + 1]

\* av_thread_message_queue_send; a full queue turns a non-blocking thread
\* into a blocking one for good.
send_packet(f) ==
    /\ tpc[f] = "send"
    /\ Running(f)
    /\ \/ /\ SendWaits(queue[f]) /\ flags[f]
          /\ flags' = [flags EXCEPT ![f] = FALSE]
          /\ UNCHANGED <<queue, tpc, pkt, tret, freed>>
       \/ /\ SendWaits(queue[f]) /\ ~flags[f]
          /\ queue' = [queue EXCEPT ![f] = SleepSend(@, f)]
          /\ UNCHANGED <<tpc, flags, pkt, tret, freed>>
       \/ /\ queue[f].err_send # NoError
          /\ tret' = [tret EXCEPT ![f] = queue[f].err_send]
          /\ Unref(f)
          /\ tpc' = [tpc EXCEPT ![f] = "fail"]
          /\ UNCHANGED <<queue, flags>>
       \/ /\ ~SendWaits(queue[f]) /\ queue[f].err_send = NoError
          /\ \E q \in Written(queue[f], pkt[f]) :
                queue' = [queue EXCEPT ![f] = q]
          /\ pkt' = [pkt EXCEPT ![f] = 0]
          /\ tpc' = [tpc EXCEPT ![f] = "read"]
          /\ UNCHANGED <<flags, tret, freed>>
    /\ UNCHANGED <<nb_input_files, nread, main>>

\* set_err_recv is the last thing a thread does.
end_thread(f) ==
    /\ tpc[f] = "fail"
    /\ queue' = [queue EXCEPT ![f] = SetErrRecv(@, tret[f])]
    /\ tpc' = [tpc EXCEPT ![f] = "exited"]
    /\ UNCHANGED <<nb_input_files, flags, pkt, tret, nread, main, freed>>

\* No thread outlives the process.
input_thread(f) ==
    /\ mpc # "crashed"
    /\ read_frame(f) \/ send_packet(f) \/ end_thread(f)

\* pthread_cond_wait may return without a signal.
SpuriousWakeup(f) ==
    /\ mpc # "crashed"
    /\ Asleep(queue[f]) # {}
    /\ \E t \in Asleep(queue[f]) : queue' = [queue EXCEPT ![f] = Woken(@, t)]
    /\ UNCHANGED <<nb_input_files, thread, nread, main, freed>>

-----------------------------------------------------------------------------
(* The main thread                                                          *)

\* A new queue and a new thread for f.
Start(f) ==
    /\ queue' = [queue EXCEPT ![f] = NewQueue(thread_queue_size)]
    /\ tpc' = [tpc EXCEPT ![f] = "read"]
    /\ flags' = [flags EXCEPT ![f] = f \in NonBlocking]
    /\ UNCHANGED <<pkt, tret>>

\* init_input_threads, one file per step; a failure goes to the clean-up.
init_input_threads ==
    /\ mpc = "init"
    /\ \/ /\ Threaded
          /\ Start(cur)
          /\ cur' = IF cur + 1 = nb_input_files THEN 0 ELSE cur + 1
          /\ mpc' = IF cur' = 0 THEN "loop" ELSE "init"
       \/ /\ Threaded /\ InitFails
          /\ cur' = 0 /\ mpc' = "free"
          /\ UNCHANGED <<queue, thread>>
       \/ /\ ~Threaded
          /\ mpc' = "loop"
          /\ UNCHANGED <<queue, thread, cur>>
    /\ UNCHANGED <<nb_input_files, nread, restarting, loop, eagain, eof, got,
                   freed>>

\* Mutant of Readable: a file that has ended is read again.
ReadableAgain(f) == f \in Open

\* A file the main loop may read: one that has not ended.  It may have said
\* EAGAIN: an output that has no parameters yet, or another output of the file,
\* is chosen all the same.
Readable(f) == f \in Open /\ ~eof[f]

\* transcode_step: a file is chosen for process_input; or no output is, some
\* file having said EAGAIN: reset_eagain and a sleep.
choose_input ==
    /\ mpc = "loop"
    /\ \/ \E f \in Files :
            /\ Readable(f)
            /\ cur' = f /\ mpc' = "recv"
            /\ UNCHANGED eagain
       \/ /\ \E f \in Files : eagain[f]
          /\ eagain' = [f \in Files |-> FALSE]
          /\ UNCHANGED <<cur, mpc>>
    /\ UNCHANGED <<nb_input_files, queue, thread, nread, restarting, loop, eof,
                   got, freed>>

\* The main loop ends: no input is left, a signal, a key or an error.
leave_loop ==
    /\ mpc = "loop"
    /\ (\A f \in Open : eof[f]) \/ Abort
    /\ mpc' = "free" /\ cur' = 0
    /\ UNCHANGED <<nb_input_files, queue, thread, nread, restarting, loop,
                   eagain, eof, got, freed>>

\* process_input got a packet: reset_eagain, then decode it.
GotPacket(p) ==
    /\ got' = [got EXCEPT ![cur] = Append(@, p)]
    /\ eagain' = [f \in Files |-> FALSE]
    /\ mpc' = "loop" /\ restarting' = FALSE
    /\ UNCHANGED eof

\* process_input got AVERROR(EAGAIN).
GotEagain ==
    /\ eagain' = [eagain EXCEPT ![cur] = TRUE]
    /\ mpc' = "loop" /\ restarting' = FALSE
    /\ UNCHANGED <<eof, got>>

\* Mutant of GotError: the end of the file is not recorded.
GotErrorOnly ==
    /\ mpc' = "loop" /\ restarting' = FALSE
    /\ UNCHANGED <<eagain, eof, got>>

\* process_input got an error: start over with -stream_loop, once per call,
\* or end the file.
GotError ==
    /\ IF loop[cur] > 0 /\ ~restarting
       THEN /\ mpc' = "free" /\ restarting' = TRUE
            /\ UNCHANGED eof
       ELSE /\ mpc' = "loop" /\ restarting' = FALSE
            /\ eof' = [eof EXCEPT ![cur] = TRUE]
    /\ UNCHANGED <<eagain, got>>

\* get_input_packet with several files: av_thread_message_queue_recv.
get_input_packet_mt ==
    /\ mpc = "recv"
    /\ Threaded
    /\ queue[cur] # NoQueue
    /\ Main \notin Asleep(queue[cur])
    /\ \/ /\ cur \in NonBlocking /\ RecvWaits(queue[cur])
          /\ GotEagain
          /\ UNCHANGED queue
       \/ /\ RecvWaits(queue[cur]) /\ cur \notin NonBlocking
          /\ queue' = [queue EXCEPT ![cur] = SleepRecv(@, Main)]
          /\ UNCHANGED <<mpc, restarting, eagain, eof, got>>
       \/ /\ RecvFails(queue[cur])
          /\ GotError
          /\ UNCHANGED queue
       \/ /\ queue[cur].fifo # <<>>
          /\ \E q \in Read(queue[cur]) : queue' = [queue EXCEPT ![cur] = q]
          /\ GotPacket(Head(queue[cur].fifo))
    /\ UNCHANGED <<nb_input_files, thread, nread, cur, loop, freed>>

\* A file whose thread could not be started again is chosen like any other,
\* and av_thread_message_queue_recv locks the mutex of a NULL queue.
recv_freed_queue ==
    /\ mpc = "recv"
    /\ Threaded
    /\ queue[cur] = NoQueue
    /\ mpc' = "crashed" /\ restarting' = FALSE
    /\ UNCHANGED <<nb_input_files, queue, thread, nread, cur, loop, eagain, eof,
                   got, freed>>

\* get_input_packet with one file: av_read_frame.
get_input_packet ==
    /\ mpc = "recv"
    /\ ~Threaded
    /\ \/ /\ nread[cur] < MaxPackets
          /\ nread' = [nread EXCEPT ![cur] = @ + 1]
          /\ GotPacket(nread'[cur])
       \/ GotError /\ UNCHANGED nread
    /\ UNCHANGED <<nb_input_files, queue, thread, cur, loop, freed>>

\* get_input_packet says EAGAIN: the next packet is not due yet (-re), or the
\* demuxer has none now.
not_now ==
    /\ mpc = "recv"
    /\ cur \in RateEmu \/ ~Threaded
    /\ Threaded => Main \notin Asleep(queue[cur])
    /\ GotEagain
    /\ UNCHANGED <<nb_input_files, queue, thread, nread, cur, loop, freed>>

\* Mutant of AfterFree: the last file is left out.
AfterFreeButLast ==
    IF restarting THEN mpc' = "seek" /\ UNCHANGED cur
    ELSE IF cur + 2 < nb_input_files THEN mpc' = "free" /\ cur' = cur + 1
    ELSE mpc' = "done" /\ UNCHANGED cur

\* What follows free_input_thread(cur): the seek of process_input, or the next
\* file of free_input_threads.
AfterFree ==
    IF restarting THEN mpc' = "seek" /\ UNCHANGED cur
    ELSE IF cur + 1 < nb_input_files THEN mpc' = "free" /\ cur' = cur + 1
    ELSE mpc' = "done" /\ UNCHANGED cur

\* free_input_thread(cur) closes the sending end...
free_input_thread ==
    /\ mpc = "free"
    /\ IF queue[cur] = NoQueue
       THEN AfterFree /\ UNCHANGED queue
       ELSE /\ queue' = [queue EXCEPT ![cur] = SetErrSend(@, AVERROR_EOF)]
            /\ mpc' = "drain"
            /\ UNCHANGED cur
    /\ UNCHANGED <<nb_input_files, thread, nread, restarting, loop, eagain, eof,
                   got, freed>>

\* ... drops packets until the thread reports its end ...
drain_queue ==
    /\ mpc = "drain"
    /\ Main \notin Asleep(queue[cur])
    /\ \/ /\ RecvWaits(queue[cur])
          /\ queue' = [queue EXCEPT ![cur] = SleepRecv(@, Main)]
          /\ UNCHANGED <<mpc, freed>>
       \/ /\ RecvFails(queue[cur])
          /\ mpc' = "join"
          /\ UNCHANGED <<queue, freed>>
       \/ /\ queue[cur].fifo # <<>>
          /\ \E q \in Read(queue[cur]) : queue' = [queue EXCEPT ![cur] = q]
          /\ freed' = [freed EXCEPT ![cur] = @ + 1]
          /\ UNCHANGED mpc
    /\ UNCHANGED <<nb_input_files, thread, nread, cur, restarting, loop, eagain,
                   eof, got>>

\* ... joins it and frees the queue.  No free function is set: packets still
\* queued would leak.
join_thread ==
    /\ mpc = "join"
    /\ tpc[cur] = "exited"
    /\ tpc' = [tpc EXCEPT ![cur] = "none"]
    /\ queue' = [queue EXCEPT ![cur] = NoQueue]
    /\ AfterFree
    /\ UNCHANGED <<nb_input_files, flags, pkt, tret, nread, restarting, loop,
                   eagain, eof, got, freed>>

\* What process_input returns of a thread that could not be started.
\* pthread_create's EAGAIN is no different from a file without a packet: the
\* loop goes on, and no flag keeps the file from being chosen.  Any other error
\* ends the main loop.
Unstarted ==
    /\ \/ mpc' = "loop" /\ UNCHANGED cur
       \/ mpc' = "free" /\ cur' = 0
    /\ restarting' = FALSE

\* seek_to_start; only one that succeeds counts the loop.
Sought ==
    /\ loop' = [loop EXCEPT ![cur] = @ - 1]
    /\ nread' = [nread EXCEPT ![cur] = 0]
    /\ got' = [got EXCEPT ![cur] = <<>>]
    /\ freed' = [freed EXCEPT ![cur] = 0]

\* seek_to_start, then init_input_thread(cur) whatever the seek returned; when
\* the thread runs, a seek that succeeded goes on with the next packet and one
\* that failed ends the file.
seek_to_start ==
    /\ mpc = "seek"
    /\ \/ /\ IF Threaded THEN Start(cur) ELSE UNCHANGED <<queue, thread>>
          /\ \/ /\ Sought
                /\ mpc' = "recv"
                /\ UNCHANGED <<restarting, eof>>
             \/ /\ eof' = [eof EXCEPT ![cur] = TRUE]
                /\ mpc' = "loop" /\ restarting' = FALSE
                /\ UNCHANGED <<loop, nread, got, freed>>
          /\ UNCHANGED cur
       \/ /\ Threaded /\ InitFails
          /\ Sought \/ UNCHANGED <<loop, nread, got, freed>>
          /\ Unstarted
          /\ UNCHANGED <<queue, thread, eof>>
    /\ UNCHANGED <<nb_input_files, eagain>>

main_thread ==
    \/ init_input_threads \/ choose_input \/ leave_loop
    \/ get_input_packet_mt \/ recv_freed_queue \/ get_input_packet \/ not_now
    \/ free_input_thread \/ drain_queue \/ join_thread \/ seek_to_start

Next ==
    \/ \E f \in Files : input_thread(f) \/ SpuriousWakeup(f)
    \/ main_thread

Spec == Init /\ [][Next]_vars

\* Every thread that can run is scheduled; a demuxer does not say EAGAIN for
\* ever, av_read_frame in the end returns a packet or an error; and the time a
\* packet is due (-re) comes.
FairSpec ==
    /\ Spec
    /\ \A f \in Files : WF_vars(input_thread(f))
    /\ WF_vars(main_thread)
    /\ \A f \in Files :
          SF_vars(/\ cur = f
                  /\ get_input_packet_mt \/ recv_freed_queue \/ get_input_packet)

-----------------------------------------------------------------------------
(* Properties                                                               *)

Packets == 1..MaxPackets

TypeOK ==
    /\ nb_input_files \in 1..MaxFiles
    /\ \A f \in Files :
         /\ queue[f].fifo \in Seq(Packets)
         /\ Len(queue[f].fifo) <= queue[f].nelem
         /\ queue[f].cond_send \subseteq {f}
         /\ queue[f].cond_recv \subseteq {Main}
         /\ got[f] \in Seq(Packets)
    /\ tpc \in [Files -> {"none", "read", "send", "fail", "exited"}]
    /\ flags \in [Files -> BOOLEAN]
    /\ pkt \in [Files -> 0..MaxPackets]
    /\ tret \in [Files -> {0, AVERROR_EOF, AVERROR_EIO}]
    /\ nread \in [Files -> 0..MaxPackets]
    /\ mpc \in {"init", "loop", "recv", "free", "drain", "join", "seek", "done",
               "crashed"}
    /\ cur \in Open /\ restarting \in BOOLEAN
    /\ loop \in [Files -> Nat]
    /\ eagain \in [Files -> BOOLEAN] /\ eof \in [Files -> BOOLEAN]
    /\ freed \in [Files -> Nat]

Alive(f) == tpc[f] \in {"read", "send", "fail"}

\* Every packet the demuxer returned is with the main thread, in the queue, in
\* the thread's hands or freed: none leaks and none is freed twice.
PacketsAccounted ==
    \A f \in Files :
        nread[f] = Len(got[f]) + Len(queue[f].fifo) + freed[f]
                     + (IF pkt[f] # 0 THEN 1 ELSE 0)

\* No thread outlives the queue it uses, and once the clean-up is over none
\* is left.
NoThreadWithoutQueue ==
    /\ \A f \in Files : tpc[f] # "none" => queue[f] # NoQueue
    /\ mpc = "done" => \A f \in Files : tpc[f] = "none"

\* The main thread and an input thread never both sleep on one queue, and one
\* that sleeps has nothing to do.
NoBothAsleep ==
    \A f \in Files :
        /\ queue[f].cond_send = {} \/ queue[f].cond_recv = {}
        /\ queue[f].cond_send # {} => SendWaits(queue[f])
        /\ queue[f].cond_recv # {} => RecvWaits(queue[f]) /\ Alive(f)

\* The main loop is over: the clean-up has begun, or the process is gone.
Closed == mpc \in {"free", "drain", "join", "done", "crashed"} /\ ~restarting

\* f's thread could not be started again: f has neither queue nor end.
Lost(f) ==
    /\ Threaded /\ f \in Open
    /\ queue[f] = NoQueue
    /\ mpc # "init" /\ ~Closed
    /\ ~(mpc = "seek" /\ cur = f)

\* Packets the thread of f has got rid of, and what has been achieved: packets
\* read, passed on, delivered and freed, files ended, lost or started over, the
\* loop left.  A file that is started over begins these anew.
Handled(f) == Len(got[f]) + Len(queue[f].fifo) + freed[f]

Gains ==
    \/ \E f \in Files :
          \/ nread'[f] > nread[f] \/ Handled(f)' > Handled(f)
          \/ Len(got'[f]) > Len(got[f]) \/ freed'[f] > freed[f]
          \/ (eof'[f] /\ ~eof[f]) \/ loop'[f] < loop[f]
          \/ (Lost(f)' /\ ~Lost(f))
    \/ Closed' /\ ~Closed

LosesNothing ==
    /\ Closed => Closed'
    /\ \A f \in Files :
          /\ eof[f] => eof'[f]
          /\ Lost(f) => Lost(f)' \/ Closed'
          /\ loop'[f] <= loop[f]
          /\ loop'[f] = loop[f] =>
                /\ nread[f] <= nread'[f] /\ Handled(f) <= Handled(f)'
                /\ Len(got[f]) <= Len(got'[f]) /\ freed[f] <= freed'[f]

\* Between two gains the main thread comes nearer its next one, threads come to
\* their end, lose their AV_THREAD_MESSAGE_NONBLOCK, or fall asleep, in this
\* order.
Left ==
    LET last == 4 * nb_input_files
        here == 4 * (nb_input_files - cur)
    IN  CASE mpc = "init" -> last + 5 + here
          [] mpc = "loop" -> last + 5  [] mpc = "recv" -> last + 4
          [] mpc = "free" -> here + 3  [] mpc = "drain" -> here + 2
          [] mpc = "join" -> here + 1  [] mpc \in {"seek", "done", "crashed"} -> 0

Ahead(f) == CASE tpc[f] \in {"read", "send"} -> 2 [] tpc[f] = "fail" -> 1 [] OTHER -> 0
Patient  == {f \in Files : ~flags[f]}
Sleepers == UNION {{f} \X Asleep(queue[f]) : f \in Files}

Descends ==
    \/ Left' < Left
    \/ /\ Left' = Left
       /\ \E f \in Files : /\ Ahead(f)' < Ahead(f)
                           /\ \A g \in Files \ {f} : Ahead(g)' = Ahead(g)
    \/ /\ Left' = Left
       /\ tpc' = tpc
       /\ Patient \subseteq Patient'
       /\ \/ Patient # Patient'
          \/ Sleepers \subseteq Sleepers' /\ Sleepers # Sleepers'

\* Nothing comes of an EAGAIN, of the sleep of the main loop after one, or of
\* a wake-up without a signal.
Idles ==
    \/ mpc = "recv" /\ GotEagain
    \/ mpc = "loop" /\ (\E f \in Files : eagain[f]) /\ UNCHANGED mpc
    \/ \E f \in Files : SpuriousWakeup(f)

\* No step of any thread is in vain: it gains something or is one of the
\* boundedly many until something is gained, unless it idles.  And nothing
\* gained is lost: a queue that is freed is empty, a packet sent again after
\* EAGAIN is sent once, a file started over was read to its end.  A file whose
\* thread could not be started again is never got back: the loop ends or dies.
InputProgress == [][LosesNothing /\ (Gains \/ Descends \/ Idles)]_vars

\* The inputs are read to their end, or the main loop stops early, and every
\* thread is then joined, whatever it was doing: the program goes on.  Only a
\* thread that could not be started again may take the process down instead.
InputsEnd == <>(mpc \in {"done", "crashed"})

\* The feed the threads implement.
Feed == INSTANCE InputFeed WITH
    closed <- Closed

ImplementsFeed == Feed!Spec
=============================================================================
