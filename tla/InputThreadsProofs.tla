------------------------- MODULE InputThreadsProofs -------------------------
(* Proofs about InputThreads, for any number of files and any queue size.   *)
EXTENDS InputThreads, SequenceTheorems, TLAPS

-----------------------------------------------------------------------------
(* Queues as values                                                         *)

QueueType ==
    [nelem : Nat, fifo : Seq(Packets),
     err_send : {NoError, AVERROR_EOF},
     err_recv : {NoError, AVERROR_EOF, AVERROR_EIO},
     cond_send : SUBSET Files, cond_recv : SUBSET {Main}]

LEMMA NewQueueType ==
    /\ NewQueue(thread_queue_size) \in QueueType
    /\ NoQueue \in QueueType
    /\ NewQueue(thread_queue_size) # NoQueue
<1>1. <<>> \in Seq(Packets)
  OBVIOUS
<1> QED
  BY <1>1, InputAssumption DEF NewQueue, NoQueue, QueueType

\* What a message written changes: of the wait sets, only that of receivers,
\* and of the one thread that can be in it.
LEMMA WrittenValue ==
    ASSUME NEW q \in QueueType, NEW m \in Packets, NEW p \in Written(q, m)
    PROVE  /\ p \in QueueType
           /\ p.nelem = q.nelem
           /\ p.fifo = Append(q.fifo, m)
           /\ Len(p.fifo) = Len(q.fifo) + 1
           /\ p.err_send = q.err_send /\ p.err_recv = q.err_recv
           /\ p.cond_send = q.cond_send
           /\ p.cond_recv = {}
<1>1. PICK c \in AfterSignal(q.cond_recv) :
          p = [q EXCEPT !.fifo = Append(@, m), !.cond_recv = c]
  BY DEF Written
<1>2. c = {}
  BY DEF AfterSignal, QueueType
<1>3. Append(q.fifo, m) \in Seq(Packets) /\ Len(Append(q.fifo, m)) = Len(q.fifo) + 1
  BY DEF QueueType
<1> QED
  BY <1>1, <1>2, <1>3 DEF QueueType

LEMMA ReadValue ==
    ASSUME NEW f \in Files, NEW q \in QueueType, q.cond_send \subseteq {f},
           q.fifo # <<>>, NEW p \in Read(q)
    PROVE  /\ p \in QueueType
           /\ p.nelem = q.nelem
           /\ p.fifo = Tail(q.fifo) /\ Len(p.fifo) = Len(q.fifo) - 1
           /\ Head(q.fifo) \in Packets /\ Head(q.fifo) = q.fifo[1]
           /\ \A k \in 1..Len(p.fifo) : p.fifo[k] = q.fifo[k + 1]
           /\ p.err_send = q.err_send /\ p.err_recv = q.err_recv
           /\ p.cond_recv = q.cond_recv
           /\ p.cond_send = {}
<1>1. PICK c \in AfterSignal(q.cond_send) :
          p = [q EXCEPT !.fifo = Tail(@), !.cond_send = c]
  BY DEF Read
<1>2. c = {}
  BY DEF AfterSignal
<1>3. /\ Tail(q.fifo) \in Seq(Packets) /\ Len(Tail(q.fifo)) = Len(q.fifo) - 1
      /\ Head(q.fifo) \in Packets /\ Head(q.fifo) = q.fifo[1]
      /\ \A k \in 1..(Len(q.fifo) - 1) : Tail(q.fifo)[k] = q.fifo[k + 1]
  BY HeadTailProperties DEF QueueType
<1> QED
  BY <1>1, <1>2, <1>3 DEF QueueType

LEMMA SleepValue ==
    ASSUME NEW q \in QueueType, NEW f \in Files, q.cond_send \subseteq {f}
    PROVE  /\ SleepSend(q, f) \in QueueType /\ SleepRecv(q, Main) \in QueueType
           /\ SleepSend(q, f) = [q EXCEPT !.cond_send = {f}]
           /\ SleepRecv(q, Main) = [q EXCEPT !.cond_recv = {Main}]
BY DEF QueueType, SleepSend, SleepRecv

LEMMA ErrorValue ==
    ASSUME NEW q \in QueueType, NEW e \in {AVERROR_EOF, AVERROR_EIO}
    PROVE  /\ SetErrSend(q, AVERROR_EOF) \in QueueType
           /\ SetErrRecv(q, e) \in QueueType
BY DEF QueueType, SetErrSend, SetErrRecv

LEMMA WokenValue ==
    ASSUME NEW q \in QueueType, NEW t
    PROVE  /\ Woken(q, t) \in QueueType
           /\ Woken(q, t).nelem = q.nelem /\ Woken(q, t).fifo = q.fifo
           /\ Woken(q, t).err_send = q.err_send
           /\ Woken(q, t).err_recv = q.err_recv
           /\ Woken(q, t).cond_send \subseteq q.cond_send
           /\ Woken(q, t).cond_recv \subseteq q.cond_recv
BY DEF QueueType, Woken

-----------------------------------------------------------------------------
(* Types                                                                    *)

QueueTypes ==
    /\ queue \in [Files -> QueueType]
    /\ \A f \in Files : /\ queue[f].cond_send \subseteq {f}
                        /\ Len(queue[f].fifo) <= queue[f].nelem

\* A thread about to send holds a packet, one about to fail has an error.
ThreadTypes ==
    /\ tpc \in [Files -> {"none", "read", "send", "fail", "exited"}]
    /\ flags \in [Files -> BOOLEAN]
    /\ pkt \in [Files -> 0..MaxPackets]
    /\ tret \in [Files -> {0, AVERROR_EOF, AVERROR_EIO}]
    /\ nread \in [Files -> 0..MaxPackets]
    /\ \A f \in Files : /\ tpc[f] = "send" => pkt[f] \in Packets
                        /\ tpc[f] = "fail" => tret[f] \in {AVERROR_EOF, AVERROR_EIO}

\* A file is started over only while it has loops left.
MainTypes ==
    /\ nb_input_files \in 1..MaxFiles
    /\ mpc \in {"init", "loop", "recv", "free", "drain", "join", "seek", "done",
               "crashed"}
    /\ cur \in Open /\ restarting \in BOOLEAN
    /\ loop \in [Files -> Nat]
    /\ eagain \in [Files -> BOOLEAN] /\ eof \in [Files -> BOOLEAN]
    /\ got \in [Files -> Seq(Packets)]
    /\ freed \in [Files -> Nat]
    /\ restarting => mpc \in {"recv", "free", "drain", "join", "seek"}
    /\ restarting /\ mpc # "recv" => loop[cur] > 0
    /\ mpc = "seek" => restarting

TypeInv == QueueTypes /\ ThreadTypes /\ MainTypes

LEMMA OpenFiles ==
    ASSUME MainTypes
    PROVE  Open \subseteq Files /\ cur \in Files /\ 0 \in Open
BY InputAssumption DEF MainTypes, Open, Files

LEMMA TypeInvImplies == TypeInv => TypeOK
<1> SUFFICES ASSUME TypeInv PROVE TypeOK
  OBVIOUS
<1>1. \A f \in Files : /\ queue[f].fifo \in Seq(Packets)
                       /\ Len(queue[f].fifo) <= queue[f].nelem
                       /\ queue[f].cond_send \subseteq {f}
                       /\ queue[f].cond_recv \subseteq {Main}
  BY DEF TypeInv, QueueTypes, QueueType
<1> QED
  BY <1>1 DEF TypeInv, TypeOK, ThreadTypes, MainTypes

LEMMA TypeInvInit == Init => TypeInv
<1> SUFFICES ASSUME Init PROVE TypeInv
  OBVIOUS
<1>1. QueueTypes
  <2>1. NoQueue.cond_send = {} /\ Len(NoQueue.fifo) <= NoQueue.nelem
    BY DEF NoQueue
  <2>2. queue = [f \in Files |-> NoQueue]
    BY DEF Init
  <2>3. \A f \in Files : queue[f] = NoQueue
    BY <2>2
  <2>4. queue \in [Files -> QueueType]
    BY <2>2, NewQueueType
  <2>5. \A f \in Files : queue[f].cond_send \subseteq {f}
    BY <2>1, <2>3
  <2>6. \A f \in Files : Len(queue[f].fifo) <= queue[f].nelem
    BY <2>1, <2>3, Zenon
  <2> QED
    BY <2>4, <2>5, <2>6 DEF QueueTypes
<1>2. ThreadTypes
  BY InputAssumption DEF Init, ThreadTypes
<1>3. MainTypes
  <2>1. <<>> \in Seq(Packets)
    OBVIOUS
  <2>2. got \in [Files -> Seq(Packets)]
    BY <2>1 DEF Init
  <2>3. nb_input_files \in 1..MaxFiles /\ cur \in Open
    BY InputAssumption DEF Init, Open
  <2>4. loop \in [Files -> Nat] /\ freed \in [Files -> Nat]
    BY InputAssumption DEF Init
  <2>5. eagain \in [Files -> BOOLEAN] /\ eof \in [Files -> BOOLEAN]
    BY DEF Init
  <2>6. mpc = "init" /\ restarting = FALSE
    BY DEF Init
  <2> QED
    BY <2>2, <2>3, <2>4, <2>5, <2>6 DEF MainTypes
<1> QED
  BY <1>1, <1>2, <1>3 DEF TypeInv

\* The queue of f alone changes.
LEMMA QueueSet ==
    ASSUME QueueTypes, NEW f \in Files, NEW q \in QueueType,
           queue' = [queue EXCEPT ![f] = q],
           q.cond_send \subseteq {f}, Len(q.fifo) <= q.nelem
    PROVE  /\ QueueTypes'
           /\ queue'[f] = q
           /\ \A g \in Files : g # f => queue'[g] = queue[g]
BY DEF QueueTypes

LEMMA QueueSame ==
    ASSUME QueueTypes, UNCHANGED queue
    PROVE  QueueTypes'
BY DEF QueueTypes

LEMMA ThreadSame ==
    ASSUME ThreadTypes, UNCHANGED <<thread, nread>>
    PROVE  ThreadTypes'
BY DEF ThreadTypes, thread

LEMMA MainSame ==
    ASSUME MainTypes, UNCHANGED <<nb_input_files, main, freed>>
    PROVE  MainTypes'
BY DEF MainTypes, main, Open

\* The queue f is given by each branch of send_packet.
LEMMA SendCases ==
    ASSUME TypeInv, NEW f \in Files, send_packet(f)
    PROVE  \/ /\ flags' = [flags EXCEPT ![f] = FALSE]
              /\ UNCHANGED <<queue, tpc, pkt, tret, freed>>
           \/ /\ SendWaits(queue[f])
              /\ queue' = [queue EXCEPT ![f] = [@ EXCEPT !.cond_send = {f}]]
              /\ UNCHANGED <<tpc, flags, pkt, tret, freed>>
           \/ /\ queue[f].err_send = AVERROR_EOF
              /\ tret' = [tret EXCEPT ![f] = AVERROR_EOF]
              /\ pkt' = [pkt EXCEPT ![f] = 0]
              /\ freed' = [freed EXCEPT ![f] = @ + 1]
              /\ tpc' = [tpc EXCEPT ![f] = "fail"]
              /\ UNCHANGED <<queue, flags>>
           \/ /\ Len(queue[f].fifo) < queue[f].nelem
              /\ queue[f].err_send = NoError
              /\ \E q \in Written(queue[f], pkt[f]) :
                    queue' = [queue EXCEPT ![f] = q]
              /\ pkt' = [pkt EXCEPT ![f] = 0]
              /\ tpc' = [tpc EXCEPT ![f] = "read"]
              /\ UNCHANGED <<flags, tret, freed>>
<1>1. /\ queue[f] \in QueueType /\ queue[f].cond_send \subseteq {f}
      /\ queue[f].err_send \in {NoError, AVERROR_EOF}
      /\ Len(queue[f].fifo) \in Nat /\ queue[f].nelem \in Nat
  BY DEF TypeInv, QueueTypes, QueueType
<1>2. queue[f].err_send # NoError => queue[f].err_send = AVERROR_EOF
  BY <1>1
<1>3. ~SendWaits(queue[f]) /\ queue[f].err_send = NoError
        => Len(queue[f].fifo) < queue[f].nelem
  BY <1>1 DEF SendWaits
<1>4. SleepSend(queue[f], f) = [queue[f] EXCEPT !.cond_send = {f}]
  BY <1>1, SleepValue
<1> QED
  BY <1>2, <1>3, <1>4 DEF send_packet, Unref

LEMMA ThreadStepType ==
    ASSUME TypeInv, NEW f \in Files, input_thread(f) \/ SpuriousWakeup(f)
    PROVE  TypeInv'
<1> USE DEF TypeInv
<1>1. CASE read_frame(f)
  <2>1. QueueTypes' /\ MainTypes'
    BY <1>1, QueueSame, MainSame DEF read_frame
  <2>2. ThreadTypes'
    <3>1. MaxPackets \in Nat /\ nread[f] \in 0..MaxPackets
      BY InputAssumption DEF ThreadTypes
    <3>2. CASE /\ nread[f] < MaxPackets
               /\ nread' = [nread EXCEPT ![f] = @ + 1]
               /\ pkt' = [pkt EXCEPT ![f] = nread'[f]]
               /\ tpc' = [tpc EXCEPT ![f] = "send"]
               /\ UNCHANGED <<tret, flags>>
      <4>1. nread'[f] = nread[f] + 1 /\ nread'[f] \in Packets
        BY <3>1, <3>2 DEF ThreadTypes, Packets
      <4>2. nread' \in [Files -> 0..MaxPackets] /\ pkt' \in [Files -> 0..MaxPackets]
        BY <3>2, <4>1 DEF ThreadTypes, Packets
      <4> QED
        BY <3>2, <4>1, <4>2 DEF ThreadTypes
    <3>3. CASE /\ \E e \in {AVERROR_EOF, AVERROR_EIO} : tret' = [tret EXCEPT ![f] = e]
               /\ tpc' = [tpc EXCEPT ![f] = "fail"]
               /\ UNCHANGED <<nread, pkt, flags>>
      BY <3>3 DEF ThreadTypes
    <3>4. CASE UNCHANGED <<nread, pkt, tpc, tret, flags>>
      BY <3>4 DEF ThreadTypes
    <3> QED
      BY <1>1, <3>2, <3>3, <3>4 DEF read_frame
  <2> QED
    BY <2>1, <2>2
<1>2. CASE send_packet(f)
  <2>1. ThreadTypes'
    <3>1. MaxPackets \in Nat /\ nread' = nread
      BY <1>2, InputAssumption DEF send_packet
    <3>2. CASE /\ flags' = [flags EXCEPT ![f] = FALSE]
               /\ UNCHANGED <<tpc, pkt, tret>>
      BY <3>1, <3>2 DEF ThreadTypes
    <3>3. CASE UNCHANGED <<tpc, pkt, tret, flags>>
      BY <3>1, <3>3 DEF ThreadTypes
    <3>4. CASE /\ tret' = [tret EXCEPT ![f] = AVERROR_EOF]
               /\ pkt' = [pkt EXCEPT ![f] = 0]
               /\ tpc' = [tpc EXCEPT ![f] = "fail"]
               /\ UNCHANGED flags
      BY <3>1, <3>4 DEF ThreadTypes
    <3>5. CASE /\ pkt' = [pkt EXCEPT ![f] = 0]
               /\ tpc' = [tpc EXCEPT ![f] = "read"]
               /\ UNCHANGED <<flags, tret>>
      BY <3>1, <3>5 DEF ThreadTypes
    <3> QED
      BY <1>2, <3>2, <3>3, <3>4, <3>5, SendCases
  <2>2. QueueTypes'
    <3>1. /\ queue[f] \in QueueType /\ queue[f].cond_send \subseteq {f}
          /\ Len(queue[f].fifo) <= queue[f].nelem
      BY DEF QueueTypes
    <3>2. CASE UNCHANGED queue
      BY <3>2, QueueSame
    <3>3. CASE queue' = [queue EXCEPT ![f] = [@ EXCEPT !.cond_send = {f}]]
      <4>1. [queue[f] EXCEPT !.cond_send = {f}] \in QueueType
        BY <3>1 DEF QueueType
      <4>2. [queue[f] EXCEPT !.cond_send = {f}].fifo = queue[f].fifo
            /\ [queue[f] EXCEPT !.cond_send = {f}].nelem = queue[f].nelem
            /\ [queue[f] EXCEPT !.cond_send = {f}].cond_send = {f}
        BY <3>1 DEF QueueType
      <4> QED
        BY <3>1, <3>3, <4>1, <4>2, QueueSet
    <3>4. ASSUME NEW q \in Written(queue[f], pkt[f]),
                 queue' = [queue EXCEPT ![f] = q],
                 Len(queue[f].fifo) < queue[f].nelem
          PROVE  QueueTypes'
      <4>1. pkt[f] \in Packets
        BY <1>2 DEF send_packet, ThreadTypes
      <4>2. /\ q \in QueueType /\ q.nelem = queue[f].nelem
            /\ Len(q.fifo) = Len(queue[f].fifo) + 1
            /\ q.cond_send = queue[f].cond_send
        BY <3>1, <4>1, WrittenValue
      <4>3. Len(q.fifo) <= q.nelem
        BY <3>1, <3>4, <4>2 DEF QueueType
      <4> QED
        BY <3>1, <3>4, <4>2, <4>3, QueueSet
    <3> QED
      BY <1>2, <3>2, <3>3, <3>4, SendCases
  <2>3. MainTypes'
    <3>1. UNCHANGED <<nb_input_files, main>>
      BY <1>2 DEF send_packet
    <3>2. freed' \in [Files -> Nat]
      <4>1. freed' = freed \/ freed' = [freed EXCEPT ![f] = @ + 1]
        BY <1>2, SendCases
      <4>2. freed \in [Files -> Nat]
        BY DEF MainTypes
      <4>3. \A g \in Files : freed[g] \in Nat /\ freed[g] + 1 \in Nat
        BY <4>2
      <4> QED
        BY <4>1, <4>2, <4>3
    <3> QED
      BY <3>1, <3>2 DEF MainTypes, main, Open
  <2> QED
    BY <2>1, <2>2, <2>3
<1>3. CASE end_thread(f)
  <2>1. MainTypes'
    BY <1>3, MainSame DEF end_thread
  <2>2. ThreadTypes'
    BY <1>3 DEF end_thread, ThreadTypes
  <2>3. queue[f] \in QueueType /\ tret[f] \in {AVERROR_EOF, AVERROR_EIO}
    BY <1>3 DEF QueueTypes, ThreadTypes, end_thread
  <2>4. SetErrRecv(queue[f], tret[f]) \in QueueType
    BY <2>3, ErrorValue
  <2>5. /\ SetErrRecv(queue[f], tret[f]).cond_send \subseteq {f}
        /\ Len(SetErrRecv(queue[f], tret[f]).fifo)
             <= SetErrRecv(queue[f], tret[f]).nelem
    BY <2>3 DEF QueueTypes, QueueType, SetErrRecv
  <2>6. QueueTypes'
    BY <1>3, <2>4, <2>5, QueueSet DEF end_thread
  <2> QED
    BY <2>1, <2>2, <2>6
<1>4. CASE SpuriousWakeup(f)
  <2>1. ThreadTypes' /\ MainTypes'
    BY <1>4, ThreadSame, MainSame DEF SpuriousWakeup
  <2>2. PICK t : queue' = [queue EXCEPT ![f] = Woken(queue[f], t)]
    BY <1>4 DEF SpuriousWakeup
  <2>3. /\ queue[f] \in QueueType /\ queue[f].cond_send \subseteq {f}
        /\ Len(queue[f].fifo) <= queue[f].nelem
    BY DEF QueueTypes
  <2>4. QueueTypes'
    <3> DEFINE q == Woken(queue[f], t)
    <3>1. q \in QueueType /\ q.cond_send \subseteq {f} /\ Len(q.fifo) <= q.nelem
      BY <2>3, WokenValue
    <3>2. queue' = [queue EXCEPT ![f] = q]
      BY <2>2
    <3> HIDE DEF q
    <3> QED
      BY <3>1, <3>2, QueueSet
  <2> QED
    BY <2>1, <2>4
<1> QED
  BY <1>1, <1>2, <1>3, <1>4 DEF input_thread

\* What the main thread does to the queue it works on, and to its own state.
MainStepTypes ==
    /\ mpc' \in {"init", "loop", "recv", "free", "drain", "join", "seek", "done",
                "crashed"}
    /\ cur' \in Open /\ restarting' \in BOOLEAN
    /\ restarting' => mpc' \in {"recv", "free", "drain", "join", "seek"}
    /\ restarting' /\ mpc' # "recv" => loop'[cur'] > 0
    /\ mpc' = "seek" => restarting'

LEMMA MainStepIs ==
    ASSUME MainTypes, UNCHANGED nb_input_files, MainStepTypes,
           loop' \in [Files -> Nat],
           eagain' \in [Files -> BOOLEAN], eof' \in [Files -> BOOLEAN],
           got' \in [Files -> Seq(Packets)], freed' \in [Files -> Nat]
    PROVE  MainTypes'
BY DEF MainTypes, MainStepTypes, Open

LEMMA StartFlags ==
    ASSUME TypeInv, NEW f \in Files, Start(f)
    PROVE  flags' \in [Files -> BOOLEAN]
BY DEF Start, TypeInv, ThreadTypes

LEMMA StartType ==
    ASSUME TypeInv, NEW f \in Files, Start(f), UNCHANGED nread
    PROVE  QueueTypes' /\ ThreadTypes'
<1>1. QueueTypes'
  <2>1. /\ NewQueue(thread_queue_size).cond_send = {}
        /\ Len(NewQueue(thread_queue_size).fifo) <= NewQueue(thread_queue_size).nelem
    BY InputAssumption DEF NewQueue
  <2> QED
    BY <2>1, NewQueueType, QueueSet DEF Start, TypeInv
<1>2. ThreadTypes'
  <2>1. flags' \in [Files -> BOOLEAN]
    BY StartFlags
  <2> QED
    BY <2>1 DEF Start, TypeInv, ThreadTypes
<1> QED
  BY <1>1, <1>2

\* The parts of the main thread's state an action leaves alone keep their type.
LEMMA MainParts ==
    ASSUME MainTypes
    PROVE  /\ mpc \in {"init", "loop", "recv", "free", "drain", "join", "seek", "done",
                      "crashed"}
           /\ cur \in Open /\ restarting \in BOOLEAN
           /\ restarting => mpc \in {"recv", "free", "drain", "join", "seek"}
           /\ restarting /\ mpc # "recv" => loop[cur] > 0
           /\ mpc = "seek" => restarting
           /\ nb_input_files \in Nat /\ nb_input_files >= 1
           /\ loop \in [Files -> Nat]
           /\ eagain \in [Files -> BOOLEAN]
           /\ eof \in [Files -> BOOLEAN]
           /\ got \in [Files -> Seq(Packets)]
           /\ freed \in [Files -> Nat]
BY InputAssumption DEF MainTypes

LEMMA InitThreadsType ==
    ASSUME TypeInv, init_input_threads
    PROVE  TypeInv'
<1>1. MainTypes /\ cur \in Files
  BY OpenFiles DEF TypeInv
<1>2. QueueTypes' /\ ThreadTypes'
  <2>1. CASE Start(cur)
    BY <1>1, <2>1, StartType DEF init_input_threads
  <2>2. CASE UNCHANGED <<queue, thread>>
    BY <2>2, QueueSame, ThreadSame DEF init_input_threads, TypeInv
  <2> QED
    BY <2>1, <2>2 DEF init_input_threads
<1>3. MainStepTypes
  <2>1. ~restarting /\ ~restarting'
    BY <1>1, MainParts DEF init_input_threads
  <2>2. cur' \in Open
    <3>1. /\ nb_input_files \in Nat /\ nb_input_files >= 1
          /\ cur \in 0..(nb_input_files - 1)
      BY <1>1, MainParts DEF Open
    <3>2. cur' = 0 \/ cur' = cur \/ (cur' = cur + 1 /\ cur + 1 # nb_input_files)
      BY DEF init_input_threads
    <3>3. cur' \in 0..(nb_input_files - 1)
      BY <3>1, <3>2
    <3> QED
      BY <3>3 DEF Open
  <2>3. mpc' \in {"init", "loop", "free"}
    BY DEF init_input_threads
  <2>4. restarting' \in BOOLEAN
    BY <1>1, MainParts DEF init_input_threads
  <2> QED
    BY <2>1, <2>2, <2>3, <2>4 DEF MainStepTypes
<1>4. MainTypes'
  BY <1>1, <1>3, MainStepIs, MainParts DEF init_input_threads
<1> QED
  BY <1>2, <1>4 DEF TypeInv

LEMMA ChooseType ==
    ASSUME TypeInv, choose_input \/ leave_loop
    PROVE  TypeInv'
<1>1. MainTypes /\ 0 \in Open
  BY OpenFiles DEF TypeInv
<1>2. QueueTypes' /\ ThreadTypes'
  BY QueueSame, ThreadSame DEF choose_input, leave_loop, TypeInv
<1>3. ~restarting /\ ~restarting' /\ restarting' \in BOOLEAN
  BY <1>1, MainParts DEF choose_input, leave_loop
<1>4. cur' \in Open /\ mpc' \in {"recv", "loop", "free"}
  BY <1>1, MainParts DEF choose_input, leave_loop, Readable
<1>5. eagain' \in [Files -> BOOLEAN]
  BY <1>1, MainParts DEF choose_input, leave_loop
<1>6. MainStepTypes
  BY <1>3, <1>4 DEF MainStepTypes
<1>7. MainTypes'
  BY <1>1, <1>5, <1>6, MainStepIs, MainParts DEF choose_input, leave_loop
<1> QED
  BY <1>2, <1>7 DEF TypeInv

\* The three answers of get_input_packet.
LEMMA AnswerType ==
    ASSUME MainTypes, mpc = "recv",
           \/ GotEagain
           \/ GotError
           \/ \E p \in Packets : GotPacket(p),
           UNCHANGED <<nb_input_files, cur, loop, freed>>
    PROVE  MainTypes'
<1>1. cur \in Files
  BY OpenFiles
<1>2. eagain' \in [Files -> BOOLEAN] /\ eof' \in [Files -> BOOLEAN]
  BY <1>1, MainParts DEF GotEagain, GotError, GotPacket
<1>3. got' \in [Files -> Seq(Packets)]
  <2>1. CASE got' = got
    BY <2>1, MainParts
  <2>2. ASSUME NEW p \in Packets, got' = [got EXCEPT ![cur] = Append(@, p)]
        PROVE  got' \in [Files -> Seq(Packets)]
    <3>1. got \in [Files -> Seq(Packets)] /\ got[cur] \in Seq(Packets)
      BY <1>1, MainParts
    <3>2. Append(got[cur], p) \in Seq(Packets)
      BY <3>1
    <3> QED
      BY <2>2, <3>1, <3>2
  <2> QED
    BY <2>1, <2>2 DEF GotEagain, GotError, GotPacket
<1>4. MainStepTypes
  <2>1. cur' = cur /\ loop' = loop /\ cur \in Open /\ loop[cur] \in Nat
    BY <1>1, MainParts
  <2>2. \/ mpc' = "loop" /\ restarting' = FALSE
        \/ mpc' = "free" /\ restarting' = TRUE /\ loop[cur] > 0
    BY DEF GotEagain, GotError, GotPacket
  <2> QED
    BY <2>1, <2>2 DEF MainStepTypes
<1> QED
  BY <1>2, <1>3, <1>4, MainStepIs, MainParts

LEMMA ReadStepType ==
    ASSUME TypeInv, get_input_packet_mt \/ get_input_packet \/ not_now
    PROVE  TypeInv'
<1>1. MainTypes /\ cur \in Files /\ mpc = "recv"
  BY OpenFiles DEF TypeInv, get_input_packet_mt, get_input_packet, not_now
<1>2. /\ queue[cur] \in QueueType /\ queue[cur].cond_send \subseteq {cur}
      /\ Len(queue[cur].fifo) <= queue[cur].nelem
  BY <1>1 DEF TypeInv, QueueTypes
<1>3. CASE get_input_packet_mt
  <2>1. ThreadTypes'
    BY <1>3, ThreadSame DEF get_input_packet_mt, TypeInv
  <2>2. CASE GotEagain /\ UNCHANGED queue
    BY <1>1, <1>3, <2>1, <2>2, QueueSame, AnswerType DEF get_input_packet_mt, TypeInv
  <2>3. CASE /\ queue' = [queue EXCEPT ![cur] = SleepRecv(@, Main)]
             /\ UNCHANGED <<mpc, restarting, eagain, eof, got>>
    <3>1. /\ SleepRecv(queue[cur], Main) \in QueueType
          /\ SleepRecv(queue[cur], Main) = [queue[cur] EXCEPT !.cond_recv = {Main}]
      BY <1>1, <1>2, SleepValue
    <3>2. QueueTypes'
      BY <1>1, <1>2, <2>3, <3>1, QueueSet DEF TypeInv, QueueType
    <3>3. MainTypes'
      BY <1>1, <1>3, <2>3, MainSame DEF get_input_packet_mt, main
    <3> QED
      BY <2>1, <3>2, <3>3 DEF TypeInv
  <2>4. CASE GotError /\ UNCHANGED queue
    BY <1>1, <1>3, <2>1, <2>4, QueueSame, AnswerType DEF get_input_packet_mt, TypeInv
  <2>5. CASE /\ queue[cur].fifo # <<>>
             /\ \E q \in Read(queue[cur]) : queue' = [queue EXCEPT ![cur] = q]
             /\ GotPacket(Head(queue[cur].fifo))
    <3>1. PICK q \in Read(queue[cur]) : queue' = [queue EXCEPT ![cur] = q]
      BY <2>5
    <3>2. /\ q \in QueueType /\ q.nelem = queue[cur].nelem
          /\ Len(q.fifo) = Len(queue[cur].fifo) - 1
          /\ q.cond_send = {} /\ Head(queue[cur].fifo) \in Packets
      BY <1>1, <1>2, <2>5, ReadValue
    <3>3. Len(q.fifo) <= q.nelem
      BY <1>2, <3>2 DEF QueueType
    <3>4. QueueTypes'
      BY <1>1, <3>1, <3>2, <3>3, QueueSet DEF TypeInv
    <3>5. MainTypes'
      BY <1>1, <1>3, <2>5, <3>2, AnswerType DEF get_input_packet_mt
    <3> QED
      BY <2>1, <3>4, <3>5 DEF TypeInv
  <2> QED
    BY <1>3, <2>2, <2>3, <2>4, <2>5 DEF get_input_packet_mt
<1>4. CASE get_input_packet
  <2>1. QueueTypes'
    BY <1>4, QueueSame DEF get_input_packet, TypeInv
  <2>2. MaxPackets \in Nat /\ nread[cur] \in 0..MaxPackets
    BY <1>1, InputAssumption DEF TypeInv, ThreadTypes
  <2>3. CASE GotError /\ UNCHANGED nread
    <3>1. MainTypes'
      BY <1>1, <1>4, <2>3, AnswerType DEF get_input_packet
    <3> QED
      BY <1>4, <2>1, <2>3, <3>1, ThreadSame DEF get_input_packet, TypeInv
  <2>4. CASE /\ nread[cur] < MaxPackets
             /\ nread' = [nread EXCEPT ![cur] = @ + 1]
             /\ GotPacket(nread'[cur])
    <3>1. nread \in [Files -> 0..MaxPackets]
      BY DEF TypeInv, ThreadTypes
    <3>2. nread'[cur] \in Packets
      BY <1>1, <2>2, <2>4, <3>1 DEF Packets
    <3>3. nread' \in [Files -> 0..MaxPackets]
      BY <1>1, <2>2, <2>4, <3>1
    <3>4. ThreadTypes'
      BY <1>4, <3>3 DEF get_input_packet, TypeInv, ThreadTypes, thread
    <3>5. MainTypes'
      BY <1>1, <1>4, <2>4, <3>2, AnswerType DEF get_input_packet
    <3> QED
      BY <2>1, <3>4, <3>5 DEF TypeInv
  <2> QED
    BY <1>4, <2>3, <2>4 DEF get_input_packet
<1>5. CASE not_now
  <2>1. MainTypes'
    BY <1>1, <1>5, AnswerType DEF not_now
  <2> QED
    BY <1>5, <2>1, QueueSame, ThreadSame DEF not_now, TypeInv
<1> QED
  BY <1>3, <1>4, <1>5

\* What follows free_input_thread keeps the types of the main thread.
LEMMA AfterFreeType ==
    ASSUME MainTypes, mpc \in {"free", "join"}, AfterFree, UNCHANGED restarting,
           UNCHANGED <<nb_input_files, loop, eagain, eof, got, freed>>
    PROVE  MainTypes'
<1>1. /\ nb_input_files \in Nat /\ cur \in 0..(nb_input_files - 1)
      /\ restarting \in BOOLEAN
  BY MainParts DEF Open
<1>2. CASE restarting
  <2>1. mpc' = "seek" /\ cur' = cur /\ loop[cur] > 0
    BY <1>2, MainParts DEF AfterFree
  <2>2. MainStepTypes
    BY <1>1, <1>2, <2>1 DEF MainStepTypes, Open
  <2> QED
    BY <2>2, MainStepIs, MainParts
<1>3. CASE ~restarting
  <2>1. \/ mpc' = "free" /\ cur' = cur + 1 /\ cur + 1 < nb_input_files
        \/ mpc' = "done" /\ cur' = cur
    BY <1>3 DEF AfterFree
  <2>2. cur' \in 0..(nb_input_files - 1)
    BY <1>1, <2>1
  <2>3. MainStepTypes
    BY <1>1, <1>3, <2>1, <2>2 DEF MainStepTypes, Open
  <2> QED
    BY <2>3, MainStepIs, MainParts
<1> QED
  BY <1>2, <1>3

LEMMA FreeStepType ==
    ASSUME TypeInv, free_input_thread \/ drain_queue \/ join_thread
    PROVE  TypeInv'
<1>1. MainTypes /\ cur \in Files
  BY OpenFiles DEF TypeInv
<1>2. /\ queue[cur] \in QueueType /\ queue[cur].cond_send \subseteq {cur}
      /\ Len(queue[cur].fifo) <= queue[cur].nelem
  BY <1>1 DEF TypeInv, QueueTypes
<1>3. CASE free_input_thread
  <2>1. ThreadTypes'
    BY <1>3, ThreadSame DEF free_input_thread, TypeInv
  <2>2. CASE AfterFree /\ UNCHANGED queue
    <3>1. MainTypes'
      BY <1>1, <1>3, <2>2, AfterFreeType DEF free_input_thread
    <3> QED
      BY <2>1, <2>2, <3>1, QueueSame DEF TypeInv
  <2>3. CASE /\ queue' = [queue EXCEPT ![cur] = SetErrSend(@, AVERROR_EOF)]
             /\ mpc' = "drain"
             /\ UNCHANGED cur
    <3>1. SetErrSend(queue[cur], AVERROR_EOF) \in QueueType
      BY <1>2, ErrorValue
    <3>2. /\ SetErrSend(queue[cur], AVERROR_EOF).cond_send = {}
          /\ Len(SetErrSend(queue[cur], AVERROR_EOF).fifo)
                <= SetErrSend(queue[cur], AVERROR_EOF).nelem
      BY <1>2 DEF SetErrSend, QueueType
    <3>3. QueueTypes'
      BY <1>1, <2>3, <3>1, <3>2, QueueSet DEF TypeInv
    <3>4. MainStepTypes
      BY <1>1, <1>3, <2>3, MainParts DEF free_input_thread, MainStepTypes
    <3>5. MainTypes'
      BY <1>1, <1>3, <3>4, MainStepIs, MainParts DEF free_input_thread
    <3> QED
      BY <2>1, <3>3, <3>5 DEF TypeInv
  <2> QED
    BY <1>3, <2>2, <2>3 DEF free_input_thread
<1>4. CASE drain_queue
  <2>1. ThreadTypes'
    BY <1>4, ThreadSame DEF drain_queue, TypeInv
  <2>2. freed' \in [Files -> Nat]
    <3>1. freed \in [Files -> Nat] /\ freed[cur] + 1 \in Nat
      BY <1>1, MainParts
    <3>2. freed' = freed \/ freed' = [freed EXCEPT ![cur] = @ + 1]
      BY <1>4 DEF drain_queue
    <3> QED
      BY <3>1, <3>2
  <2>3. MainStepTypes
    BY <1>1, <1>4, MainParts DEF drain_queue, MainStepTypes
  <2>4. MainTypes'
    BY <1>1, <1>4, <2>2, <2>3, MainStepIs, MainParts DEF drain_queue
  <2>5. CASE UNCHANGED queue
    BY <2>1, <2>4, <2>5, QueueSame DEF TypeInv
  <2>6. CASE queue' = [queue EXCEPT ![cur] = SleepRecv(@, Main)]
    <3>1. /\ SleepRecv(queue[cur], Main) \in QueueType
          /\ SleepRecv(queue[cur], Main) = [queue[cur] EXCEPT !.cond_recv = {Main}]
      BY <1>1, <1>2, SleepValue
    <3>2. QueueTypes'
      BY <1>1, <1>2, <2>6, <3>1, QueueSet DEF TypeInv, QueueType
    <3> QED
      BY <2>1, <2>4, <3>2 DEF TypeInv
  <2>7. CASE /\ queue[cur].fifo # <<>>
             /\ \E q \in Read(queue[cur]) : queue' = [queue EXCEPT ![cur] = q]
    <3>1. PICK q \in Read(queue[cur]) : queue' = [queue EXCEPT ![cur] = q]
      BY <2>7
    <3>2. /\ q \in QueueType /\ q.nelem = queue[cur].nelem
          /\ Len(q.fifo) = Len(queue[cur].fifo) - 1
          /\ q.cond_send = {}
      BY <1>1, <1>2, <2>7, ReadValue
    <3>3. Len(q.fifo) <= q.nelem
      BY <1>2, <3>2 DEF QueueType
    <3>4. QueueTypes'
      BY <1>1, <3>1, <3>2, <3>3, QueueSet DEF TypeInv
    <3> QED
      BY <2>1, <2>4, <3>4 DEF TypeInv
  <2> QED
    BY <1>4, <2>5, <2>6, <2>7 DEF drain_queue
<1>5. CASE join_thread
  <2>1. NoQueue.cond_send = {} /\ Len(NoQueue.fifo) <= NoQueue.nelem
    BY DEF NoQueue
  <2>2. QueueTypes'
    BY <1>1, <1>5, <2>1, NewQueueType, QueueSet DEF join_thread, TypeInv
  <2>3. ThreadTypes'
    BY <1>5 DEF join_thread, TypeInv, ThreadTypes
  <2>4. MainTypes'
    BY <1>1, <1>5, AfterFreeType DEF join_thread
  <2> QED
    BY <2>2, <2>3, <2>4 DEF TypeInv
<1> QED
  BY <1>3, <1>4, <1>5

LEMMA CrashType ==
    ASSUME TypeInv, recv_freed_queue
    PROVE  TypeInv'
<1>1. MainTypes
  BY DEF TypeInv
<1>2. MainStepTypes
  BY <1>1, MainParts DEF MainStepTypes, recv_freed_queue, Open
<1>3. MainTypes'
  BY <1>1, <1>2, MainStepIs, MainParts DEF recv_freed_queue
<1> QED
  BY <1>3, QueueSame, ThreadSame DEF recv_freed_queue, TypeInv

\* seek_to_start succeeds: the counts of the file begin anew.
LEMMA SoughtType ==
    ASSUME TypeInv, Sought, mpc = "seek"
    PROVE  /\ loop' \in [Files -> Nat] /\ freed' \in [Files -> Nat]
           /\ got' \in [Files -> Seq(Packets)]
           /\ nread' \in [Files -> 0..MaxPackets]
<1>1. MainTypes /\ cur \in Files /\ restarting
  BY OpenFiles, MainParts DEF TypeInv
<1>2. loop[cur] - 1 \in Nat /\ loop \in [Files -> Nat] /\ freed \in [Files -> Nat]
  BY <1>1, MainParts
<1>3. loop' \in [Files -> Nat] /\ freed' \in [Files -> Nat]
  BY <1>2 DEF Sought
<1>4. <<>> \in Seq(Packets)
  OBVIOUS
<1>5. got' \in [Files -> Seq(Packets)]
  BY <1>1, <1>4, MainParts DEF Sought
<1>6. nread' \in [Files -> 0..MaxPackets]
  <2>1. nread \in [Files -> 0..MaxPackets] /\ 0 \in 0..MaxPackets
    BY InputAssumption DEF TypeInv, ThreadTypes
  <2> QED
    BY <2>1 DEF Sought
<1> QED
  BY <1>3, <1>5, <1>6

LEMMA SeekType ==
    ASSUME TypeInv, seek_to_start
    PROVE  TypeInv'
<1>1. /\ MainTypes /\ cur \in Files /\ 0 \in Open /\ mpc = "seek" /\ restarting
      /\ UNCHANGED <<nb_input_files, eagain>>
  BY OpenFiles, MainParts DEF TypeInv, seek_to_start
<1>2. CASE /\ Sought
           /\ mpc' = "recv"
           /\ UNCHANGED <<cur, restarting, eof>>
           /\ IF Threaded THEN Start(cur) ELSE UNCHANGED <<queue, thread>>
  <2>2. /\ loop' \in [Files -> Nat] /\ freed' \in [Files -> Nat]
        /\ got' \in [Files -> Seq(Packets)]
        /\ nread' \in [Files -> 0..MaxPackets]
    BY <1>1, <1>2, SoughtType
  <2>4. MainStepTypes
    BY <1>1, <1>2, MainParts DEF MainStepTypes
  <2>5. MainTypes'
    BY <1>1, <1>2, <2>2, <2>4, MainStepIs, MainParts
  <2>6. nread' \in [Files -> 0..MaxPackets]
    BY <2>2
  <2>7. CASE UNCHANGED <<queue, thread>>
    <3>1. ThreadTypes'
      BY <2>6, <2>7 DEF ThreadTypes, thread, TypeInv
    <3> QED
      BY <2>5, <2>7, <3>1, QueueSame DEF TypeInv
  <2>8. CASE Start(cur)
    <3>1. QueueTypes'
      <4>1. /\ NewQueue(thread_queue_size).cond_send = {}
            /\ Len(NewQueue(thread_queue_size).fifo)
                  <= NewQueue(thread_queue_size).nelem
        BY InputAssumption DEF NewQueue
      <4> QED
        BY <1>1, <2>8, <4>1, NewQueueType, QueueSet DEF Start, TypeInv
    <3>2. flags' \in [Files -> BOOLEAN]
      BY <1>1, <2>8, StartFlags
    <3>3. ThreadTypes'
      BY <2>6, <2>8, <3>2 DEF Start, TypeInv, ThreadTypes
    <3> QED
      BY <2>5, <3>1, <3>3 DEF TypeInv
  <2> QED
    BY <1>2, <2>7, <2>8
<1>3. CASE /\ UNCHANGED <<loop, nread, got, freed>>
           /\ eof' = [eof EXCEPT ![cur] = TRUE]
           /\ mpc' = "loop" /\ restarting' = FALSE
           /\ UNCHANGED cur
           /\ IF Threaded THEN Start(cur) ELSE UNCHANGED <<queue, thread>>
  <2>1. QueueTypes' /\ ThreadTypes'
    BY <1>1, <1>3, StartType, QueueSame, ThreadSame DEF TypeInv
  <2>2. eof' \in [Files -> BOOLEAN]
    BY <1>1, <1>3, MainParts
  <2>3. MainStepTypes
    BY <1>1, <1>3, MainParts DEF MainStepTypes
  <2>4. MainTypes'
    BY <1>1, <1>3, <2>2, <2>3, MainStepIs, MainParts
  <2> QED
    BY <2>1, <2>4 DEF TypeInv
<1>4. CASE /\ Sought \/ UNCHANGED <<loop, nread, got, freed>>
           /\ Unstarted
           /\ UNCHANGED <<queue, thread, eof>>
  <2>1. /\ loop' \in [Files -> Nat] /\ freed' \in [Files -> Nat]
        /\ got' \in [Files -> Seq(Packets)]
        /\ nread' \in [Files -> 0..MaxPackets]
    <3>1. CASE Sought
      BY <1>1, <3>1, SoughtType
    <3>2. CASE UNCHANGED <<loop, nread, got, freed>>
      BY <1>1, <3>2, MainParts DEF TypeInv, ThreadTypes
    <3> QED
      BY <1>4, <3>1, <3>2
  <2>2. MainStepTypes
    BY <1>1, <1>4, MainParts DEF MainStepTypes, Unstarted
  <2>3. MainTypes'
    BY <1>1, <1>4, <2>1, <2>2, MainStepIs, MainParts
  <2>4. ThreadTypes'
    BY <1>4, <2>1 DEF ThreadTypes, thread, TypeInv
  <2> QED
    BY <1>4, <2>3, <2>4, QueueSame DEF TypeInv
<1> QED
  BY <1>2, <1>3, <1>4 DEF seek_to_start

LEMMA TypeInvNext == TypeInv /\ [Next]_vars => TypeInv'
<1> SUFFICES ASSUME TypeInv, [Next]_vars PROVE TypeInv'
  OBVIOUS
<1>1. CASE \E f \in Files : input_thread(f) \/ SpuriousWakeup(f)
  BY <1>1, ThreadStepType
<1>2. CASE main_thread
  BY <1>2, InitThreadsType, ChooseType, ReadStepType, CrashType, FreeStepType,
     SeekType DEF main_thread
<1>3. CASE UNCHANGED vars
  BY <1>3, QueueSame, ThreadSame, MainSame DEF vars, TypeInv
<1> QED
  BY <1>1, <1>2, <1>3 DEF Next

\* Every variable of the threads and of the main thread keeps its type.
THEOREM TypeCorrect == Spec => []TypeOK
<1>1. Spec => []TypeInv
  BY TypeInvInit, TypeInvNext, PTL DEF Spec
<1> QED
  BY <1>1, TypeInvImplies, PTL
-----------------------------------------------------------------------------
(* What the threads, the queues and the main thread know of each other      *)

\* A file's thread and its queue come and go together; the thread holds a
\* packet only while it sends it, and its last act sets the error of recv.
ThreadQueue(f) ==
    /\ tpc[f] = "none" => queue[f] = NoQueue
    /\ tpc[f] # "none" => /\ queue[f].nelem = thread_queue_size
                          /\ Threaded /\ f \in Open
    /\ pkt[f] # 0 <=> tpc[f] = "send"
    /\ queue[f].err_recv # NoError <=> tpc[f] = "exited"

\* Who sleeps has nothing to do, and the main thread sleeps on one queue only,
\* that of the file it works on.
SleepOk(f) ==
    /\ queue[f].cond_send # {} => tpc[f] = "send" /\ SendWaits(queue[f])
    /\ queue[f].cond_recv # {} =>
         /\ RecvWaits(queue[f]) /\ tpc[f] # "none" /\ f = cur
         /\ mpc = "drain" \/ (mpc = "recv" /\ cur \notin NonBlocking)

Delivered(f) == Len(got[f])
Queued(f)    == Len(queue[f].fifo)

Accounted(f) ==
    nread[f] = Delivered(f) + Queued(f) + freed[f]
                 + (IF pkt[f] # 0 THEN 1 ELSE 0)

\* Until the main loop is over nothing is freed, no queue is closed but that of
\* a file started over, and a queue holds the packets that follow those the
\* main thread got.
FeedOk(f) ==
    /\ ~Closed => freed[f] = 0
    /\ pkt[f] # 0 => pkt[f] = nread[f]
    /\ freed[f] = 0 => \A k \in 1..Queued(f) :
                          queue[f].fifo[k] = Delivered(f) + k
    /\ queue[f].err_send # NoError /\ ~Closed =>
         f = cur /\ mpc \in {"drain", "join"}

FileInv(f) == ThreadQueue(f) /\ SleepOk(f) /\ Accounted(f) /\ FeedOk(f)

\* Which threads there are in each phase of the main thread: while no thread
\* fails to start every file has one, but for the file started over.
Phases ==
    /\ mpc = "init" =>
         /\ \A f \in Files : f >= cur => tpc[f] = "none"
         /\ Threaded => \A f \in Files : f < cur => tpc[f] # "none"
    /\ mpc \in {"loop", "recv"} /\ Threaded /\ ~InitFails =>
         \A f \in Open : tpc[f] # "none"
    /\ mpc \in {"drain", "join"} => tpc[cur] # "none"
    /\ mpc = "seek" => tpc[cur] = "none"
    /\ mpc = "join" => tpc[cur] = "exited" /\ queue[cur].fifo = <<>>
    /\ restarting /\ Threaded /\ ~InitFails =>
         \A f \in Open \ {cur} : tpc[f] # "none"
    /\ restarting /\ mpc = "free" /\ Threaded => tpc[cur] # "none"
    /\ mpc = "crashed" => InitFails
    /\ mpc \in {"free", "drain", "join"} /\ ~restarting =>
         \A f \in Files : f < cur => tpc[f] = "none"
    /\ mpc = "done" => \A f \in Files : tpc[f] = "none"

\* A file is read, or started over, only before its end, and started over only
\* once all it read was delivered.
Restarts ==
    /\ mpc = "recv" \/ restarting => ~eof[cur]
    /\ restarting /\ mpc # "recv" =>
         /\ Len(got[cur]) = nread[cur]
         /\ tpc[cur] \in {"none", "exited"}

FileInvs == \A f \in Files : FileInv(f)
MainInv  == Phases /\ Restarts
IInv     == TypeInv /\ FileInvs /\ MainInv

\* A queue that is freed is empty: it has no free function for what is left.
FreedQueueEmpty == mpc = "join" => queue[cur].fifo = <<>>

\* The safety properties follow.
LEMMA IInvImplies ==
    IInv => PacketsAccounted /\ NoThreadWithoutQueue /\ FreedQueueEmpty /\ NoBothAsleep
<1> SUFFICES ASSUME IInv
             PROVE  PacketsAccounted /\ NoThreadWithoutQueue /\ FreedQueueEmpty
                    /\ NoBothAsleep
  OBVIOUS
<1>1. \A f \in Files : FileInv(f)
  BY DEF IInv, FileInvs
<1>2. PacketsAccounted
  BY <1>1 DEF PacketsAccounted, FileInv, Accounted, Delivered, Queued
<1>3. NoThreadWithoutQueue
  <2>1. NoQueue.nelem # thread_queue_size
    BY InputAssumption DEF NoQueue
  <2>2. \A f \in Files : tpc[f] # "none" => queue[f] # NoQueue
    BY <1>1, <2>1 DEF FileInv, ThreadQueue
  <2> QED
    BY <2>2 DEF NoThreadWithoutQueue, IInv, MainInv, Phases
<1>4. FreedQueueEmpty
  BY DEF FreedQueueEmpty, IInv, MainInv, Phases
<1>5. NoBothAsleep
  <2> SUFFICES ASSUME NEW f \in Files
               PROVE  /\ queue[f].cond_send = {} \/ queue[f].cond_recv = {}
                      /\ queue[f].cond_send # {} => SendWaits(queue[f])
                      /\ queue[f].cond_recv # {} => RecvWaits(queue[f]) /\ Alive(f)
    BY DEF NoBothAsleep
  <2>1. ThreadQueue(f) /\ SleepOk(f)
    BY <1>1 DEF FileInv
  <2>2. tpc[f] \in {"none", "read", "send", "fail", "exited"}
    BY DEF IInv, TypeInv, ThreadTypes
  <2>3. queue[f].cond_recv # {} => RecvWaits(queue[f]) /\ Alive(f)
    BY <2>1, <2>2 DEF ThreadQueue, SleepOk, RecvWaits, Alive
  <2>4. queue[f].cond_send # {} => SendWaits(queue[f]) /\ tpc[f] = "send"
    BY <2>1 DEF SleepOk
  <2>5. ~(SendWaits(queue[f]) /\ RecvWaits(queue[f]) /\ tpc[f] = "send")
    BY <2>1, InputAssumption DEF SendWaits, RecvWaits, ThreadQueue
  <2> QED
    BY <2>3, <2>4, <2>5
<1> QED
  BY <1>2, <1>3, <1>4, <1>5

LEMMA IInvInit == Init => IInv
<1> SUFFICES ASSUME Init PROVE IInv
  OBVIOUS
<1>1. TypeInv
  BY TypeInvInit
<1>2. FileInvs
  <2> SUFFICES ASSUME NEW f \in Files PROVE FileInv(f)
    BY DEF FileInvs
  <2>1. /\ queue[f] = NoQueue /\ tpc[f] = "none" /\ pkt[f] = 0 /\ nread[f] = 0
        /\ got[f] = <<>> /\ freed[f] = 0
    BY DEF Init
  <2>2. ThreadQueue(f) /\ SleepOk(f)
    BY <2>1 DEF ThreadQueue, SleepOk, NoQueue
  <2>3. Accounted(f)
    BY <2>1 DEF Accounted, NoQueue, Delivered, Queued
  <2>4. FeedOk(f)
    <3>1. Queued(f) = 0 /\ queue[f].err_send = NoError
      BY <2>1 DEF NoQueue, Queued
    <3> QED
      BY <2>1, <3>1 DEF FeedOk
  <2> QED
    BY <2>2, <2>3, <2>4 DEF FileInv
<1>3. MainInv
  BY DEF Init, MainInv, Phases, Restarts, Files
<1> QED
  BY <1>1, <1>2, <1>3 DEF IInv

-----------------------------------------------------------------------------
(* Steps of the input threads                                               *)

\* What is outside the reach of a step of f's thread.
Elsewhere(f) ==
    /\ UNCHANGED <<nb_input_files, main>>
    /\ \A g \in Files : g # f =>
         /\ queue'[g] = queue[g] /\ tpc'[g] = tpc[g] /\ pkt'[g] = pkt[g]
         /\ nread'[g] = nread[g] /\ freed'[g] = freed[g]

\* The queue of f keeps its messages and its errors.
SameMessages(f) ==
    /\ queue'[f].nelem = queue[f].nelem /\ queue'[f].fifo = queue[f].fifo
    /\ queue'[f].err_send = queue[f].err_send
    /\ queue'[f].err_recv = queue[f].err_recv

\* The thread or its wait set is where it was, or it falls asleep...
Waits(f) ==
    /\ tpc'[f] = tpc[f] /\ pkt'[f] = pkt[f]
    /\ nread'[f] = nread[f] /\ freed'[f] = freed[f]
    /\ SameMessages(f)
    /\ queue'[f].cond_recv \subseteq queue[f].cond_recv
    /\ \/ queue'[f].cond_send \subseteq queue[f].cond_send
       \/ tpc[f] = "send" /\ SendWaits(queue[f])
    /\ tpc[f] = "none" => queue'[f] = queue[f]

\* ... it has a new packet...
Reads(f) ==
    /\ tpc[f] = "read" /\ tpc'[f] = "send"
    /\ nread'[f] = nread[f] + 1 /\ pkt'[f] = nread[f] + 1
    /\ queue'[f] = queue[f] /\ freed'[f] = freed[f]

\* ... it meets an error, with a packet in hand or not...
GivesUp(f) ==
    /\ tpc'[f] = "fail" /\ pkt'[f] = 0
    /\ queue'[f] = queue[f] /\ nread'[f] = nread[f]
    /\ \/ tpc[f] = "read" /\ freed'[f] = freed[f]
       \/ tpc[f] = "send" /\ queue[f].err_send # NoError /\ freed'[f] = freed[f] + 1

\* ... it has written its packet...
Sends(f) ==
    /\ tpc[f] = "send" /\ tpc'[f] = "read" /\ pkt'[f] = 0
    /\ nread'[f] = nread[f] /\ freed'[f] = freed[f]
    /\ pkt[f] \in Packets
    /\ Len(queue[f].fifo) < queue[f].nelem /\ queue[f].err_send = NoError
    /\ queue'[f].nelem = queue[f].nelem
    /\ queue'[f].fifo = Append(queue[f].fifo, pkt[f])
    /\ queue'[f].err_send = queue[f].err_send
    /\ queue'[f].err_recv = queue[f].err_recv
    /\ queue'[f].cond_send = queue[f].cond_send
    /\ queue'[f].cond_recv = {}

\* ... or it is over.
Exits(f) ==
    /\ tpc[f] = "fail" /\ tpc'[f] = "exited" /\ pkt'[f] = pkt[f]
    /\ nread'[f] = nread[f] /\ freed'[f] = freed[f]
    /\ queue'[f].nelem = queue[f].nelem /\ queue'[f].fifo = queue[f].fifo
    /\ queue'[f].err_send = queue[f].err_send
    /\ queue'[f].err_recv # NoError
    /\ queue'[f].cond_send = queue[f].cond_send
    /\ queue'[f].cond_recv = {}

LEMMA ThreadCases ==
    ASSUME TypeInv, NEW f \in Files, ThreadQueue(f),
           input_thread(f) \/ SpuriousWakeup(f)
    PROVE  /\ Elsewhere(f)
           /\ Waits(f) \/ Reads(f) \/ GivesUp(f) \/ Sends(f) \/ Exits(f)
<1>1. /\ queue \in [Files -> QueueType] /\ queue[f] \in QueueType
      /\ queue[f].cond_send \subseteq {f}
  BY DEF TypeInv, QueueTypes
<1>2. /\ tpc \in [Files -> {"none", "read", "send", "fail", "exited"}]
      /\ pkt \in [Files -> 0..MaxPackets] /\ nread \in [Files -> 0..MaxPackets]
      /\ tpc[f] = "send" => pkt[f] \in Packets
      /\ tpc[f] = "fail" => tret[f] \in {AVERROR_EOF, AVERROR_EIO}
  BY DEF TypeInv, ThreadTypes
<1>3. freed \in [Files -> Nat]
  BY DEF TypeInv, MainTypes
<1>4. tpc[f] # "send" => pkt[f] = 0
  BY DEF ThreadQueue
<1>5. CASE UNCHANGED <<queue, tpc, pkt, nread, freed>> /\ UNCHANGED <<nb_input_files, main>>
  BY <1>5 DEF Elsewhere, Waits, SameMessages
<1>6. CASE read_frame(f)
  <2>1. UNCHANGED <<nb_input_files, main, queue, freed>> /\ tpc[f] = "read"
    BY <1>6 DEF read_frame
  <2>2. CASE /\ nread' = [nread EXCEPT ![f] = @ + 1]
             /\ pkt' = [pkt EXCEPT ![f] = nread'[f]]
             /\ tpc' = [tpc EXCEPT ![f] = "send"]
    BY <1>2, <2>1, <2>2 DEF Elsewhere, Reads
  <2>3. CASE tpc' = [tpc EXCEPT ![f] = "fail"] /\ UNCHANGED <<nread, pkt>>
    BY <1>2, <1>4, <2>1, <2>3 DEF Elsewhere, GivesUp
  <2>4. CASE UNCHANGED <<nread, pkt, tpc>>
    BY <1>5, <2>1, <2>4
  <2> QED
    BY <1>6, <2>2, <2>3, <2>4 DEF read_frame
<1>7. CASE send_packet(f)
  <2>1. UNCHANGED <<nb_input_files, main, nread>> /\ tpc[f] = "send"
    BY <1>7 DEF send_packet
  <2>2. CASE UNCHANGED <<queue, tpc, pkt, tret, freed>>
    BY <1>5, <2>1, <2>2
  <2>3. CASE /\ SendWaits(queue[f])
             /\ queue' = [queue EXCEPT ![f] = [@ EXCEPT !.cond_send = {f}]]
             /\ UNCHANGED <<tpc, pkt, freed>>
    <3>1. /\ queue'[f] = [queue[f] EXCEPT !.cond_send = {f}]
          /\ \A g \in Files : g # f => queue'[g] = queue[g]
      BY <1>1, <2>3
    <3>2. SameMessages(f) /\ queue'[f].cond_recv = queue[f].cond_recv
      BY <1>1, <3>1 DEF SameMessages, QueueType
    <3> QED
      BY <2>1, <2>3, <3>1, <3>2 DEF Elsewhere, Waits
  <2>4. CASE /\ queue[f].err_send = AVERROR_EOF
             /\ pkt' = [pkt EXCEPT ![f] = 0]
             /\ freed' = [freed EXCEPT ![f] = @ + 1]
             /\ tpc' = [tpc EXCEPT ![f] = "fail"]
             /\ UNCHANGED queue
    <3>1. queue[f].err_send # NoError
      BY <2>4 DEF AVERROR_EOF, NoError
    <3> QED
      BY <1>2, <1>3, <2>1, <2>4, <3>1 DEF Elsewhere, GivesUp
  <2>5. CASE /\ Len(queue[f].fifo) < queue[f].nelem
             /\ queue[f].err_send = NoError
             /\ \E q \in Written(queue[f], pkt[f]) :
                   queue' = [queue EXCEPT ![f] = q]
             /\ pkt' = [pkt EXCEPT ![f] = 0]
             /\ tpc' = [tpc EXCEPT ![f] = "read"]
             /\ UNCHANGED freed
    <3>1. PICK q \in Written(queue[f], pkt[f]) : queue' = [queue EXCEPT ![f] = q]
      BY <2>5
    <3>2. /\ q.nelem = queue[f].nelem
          /\ q.fifo = Append(queue[f].fifo, pkt[f])
          /\ q.err_send = queue[f].err_send /\ q.err_recv = queue[f].err_recv
          /\ q.cond_send = queue[f].cond_send /\ q.cond_recv = {}
      BY <1>1, <1>2, <2>1, WrittenValue
    <3>3. queue'[f] = q /\ \A g \in Files : g # f => queue'[g] = queue[g]
      BY <1>1, <3>1
    <3>4. Elsewhere(f)
      BY <1>2, <2>1, <2>5, <3>3 DEF Elsewhere
    <3>5. Sends(f)
      BY <1>2, <2>1, <2>5, <3>2, <3>3 DEF Sends
    <3> QED
      BY <3>4, <3>5
  <2> QED
    BY <1>7, <2>2, <2>3, <2>4, <2>5, SendCases
<1>8. CASE end_thread(f)
  <2> DEFINE q == SetErrRecv(queue[f], tret[f])
  <2>1. /\ UNCHANGED <<nb_input_files, main, pkt, nread, freed>> /\ tpc[f] = "fail"
        /\ queue' = [queue EXCEPT ![f] = q]
        /\ tpc' = [tpc EXCEPT ![f] = "exited"]
    BY <1>8 DEF end_thread
  <2>2. /\ q.nelem = queue[f].nelem /\ q.fifo = queue[f].fifo
        /\ q.err_send = queue[f].err_send /\ q.err_recv = tret[f]
        /\ q.cond_send = queue[f].cond_send /\ q.cond_recv = {}
    BY <1>1 DEF SetErrRecv, QueueType
  <2>3. tret[f] # NoError
    BY <1>2, <2>1 DEF AVERROR_EOF, AVERROR_EIO, NoError
  <2> HIDE DEF q
  <2>4. queue'[f] = q /\ \A g \in Files : g # f => queue'[g] = queue[g]
    BY <1>1, <2>1
  <2>5. Elsewhere(f)
    BY <1>2, <2>1, <2>4 DEF Elsewhere
  <2>6. Exits(f)
    BY <1>2, <2>1, <2>2, <2>3, <2>4 DEF Exits
  <2> QED
    BY <2>5, <2>6
<1>9. CASE SpuriousWakeup(f)
  <2>1. PICK t \in Asleep(queue[f]) : queue' = [queue EXCEPT ![f] = Woken(queue[f], t)]
    BY <1>9 DEF SpuriousWakeup
  <2>2. UNCHANGED <<nb_input_files, thread, nread, main, freed>>
    BY <1>9 DEF SpuriousWakeup
  <2>3. /\ queue'[f] = Woken(queue[f], t)
        /\ \A g \in Files : g # f => queue'[g] = queue[g]
    BY <1>1, <2>1
  <2>4. /\ SameMessages(f)
        /\ queue'[f].cond_send \subseteq queue[f].cond_send
        /\ queue'[f].cond_recv \subseteq queue[f].cond_recv
    BY <1>1, <2>3, WokenValue DEF SameMessages
  <2>5. tpc[f] # "none"
    BY <2>1 DEF ThreadQueue, NoQueue, Asleep
  <2> QED
    BY <2>2, <2>3, <2>4, <2>5 DEF Elsewhere, Waits, thread
<1> QED
  BY <1>6, <1>7, <1>8, <1>9 DEF input_thread

LEMMA ThreadStepFile ==
    ASSUME IInv, NEW f \in Files, input_thread(f) \/ SpuriousWakeup(f)
    PROVE  FileInv(f)'
<1>1. TypeInv /\ ThreadQueue(f) /\ SleepOk(f) /\ Accounted(f) /\ FeedOk(f)
  BY DEF IInv, FileInvs, FileInv
<1>2. /\ Elsewhere(f)
      /\ Waits(f) \/ Reads(f) \/ GivesUp(f) \/ Sends(f) \/ Exits(f)
  BY <1>1, ThreadCases
<1>3. UNCHANGED <<nb_input_files, mpc, cur, restarting, got>>
  BY <1>2 DEF Elsewhere, main
<1>4. /\ Threaded' = Threaded /\ Open' = Open /\ Closed' = Closed
      /\ got'[f] = got[f] /\ Delivered(f)' = Delivered(f)
  BY <1>3 DEF Threaded, Open, Closed, Delivered
<1>5. /\ nread[f] \in Nat /\ freed[f] \in Nat /\ pkt[f] \in Nat
      /\ queue[f].fifo \in Seq(Packets) /\ Queued(f) \in Nat
      /\ Delivered(f) \in Nat
      /\ tpc[f] = "send" => pkt[f] \in Packets
      /\ queue[f].cond_recv \subseteq {Main}
  <2>1. nread[f] \in 0..MaxPackets /\ pkt[f] \in 0..MaxPackets
    BY <1>1 DEF TypeInv, ThreadTypes
  <2>2. freed[f] \in Nat /\ got[f] \in Seq(Packets)
    BY <1>1, MainParts DEF TypeInv
  <2>3. queue[f].fifo \in Seq(Packets) /\ queue[f].cond_recv \subseteq {Main}
    BY <1>1 DEF TypeInv, QueueTypes, QueueType
  <2>4. tpc[f] = "send" => pkt[f] \in Packets
    BY <1>1 DEF TypeInv, ThreadTypes
  <2> QED
    BY <2>1, <2>2, <2>3, <2>4, InputAssumption DEF Queued, Delivered
<1>11. /\ pkt[f] = 0 => nread[f] = Delivered(f) + Queued(f) + freed[f]
       /\ pkt[f] # 0 => nread[f] = Delivered(f) + Queued(f) + freed[f] + 1
  BY <1>1, <1>5 DEF Accounted
<1>12. ASSUME \/ /\ pkt'[f] = 0
                 /\ nread'[f] = Delivered(f) + Queued(f)' + freed'[f]
              \/ /\ pkt'[f] # 0
                 /\ nread'[f] = Delivered(f) + Queued(f)' + freed'[f] + 1,
              freed'[f] \in Nat, Queued(f)' \in Nat
       PROVE  Accounted(f)'
  BY <1>4, <1>5, <1>12 DEF Accounted
<1>6. CASE Waits(f)
  <2>0. Queued(f)' = Queued(f)
    BY <1>6 DEF Waits, SameMessages, Queued
  <2>1. ThreadQueue(f)'
    BY <1>1, <1>4, <1>6 DEF ThreadQueue, Waits, SameMessages
  <2>2. SleepOk(f)'
    BY <1>1, <1>3, <1>6 DEF SleepOk, Waits, SameMessages, SendWaits, RecvWaits
  <2>3. Accounted(f)'
    BY <1>1, <1>4, <1>6, <2>0 DEF Accounted, Waits, SameMessages
  <2>4. FeedOk(f)'
    BY <1>1, <1>3, <1>4, <1>6, <2>0 DEF FeedOk, Waits, SameMessages
  <2> QED
    BY <2>1, <2>2, <2>3, <2>4 DEF FileInv
<1>7. CASE Reads(f)
  <2>0. Queued(f)' = Queued(f)
    BY <1>7 DEF Reads, Queued
  <2>1. ThreadQueue(f)'
    BY <1>1, <1>4, <1>5, <1>7 DEF ThreadQueue, Reads
  <2>2. SleepOk(f)'
    BY <1>1, <1>3, <1>7 DEF SleepOk, Reads
  <2>3. Accounted(f)'
    BY <1>1, <1>5, <1>7, <1>11, <1>12, <2>0 DEF Reads, ThreadQueue
  <2>4. FeedOk(f)'
    BY <1>1, <1>3, <1>4, <1>5, <1>7, <2>0 DEF FeedOk, Reads
  <2> QED
    BY <2>1, <2>2, <2>3, <2>4 DEF FileInv
<1>8. CASE GivesUp(f)
  <2>0. Queued(f)' = Queued(f)
    BY <1>8 DEF GivesUp, Queued
  <2>1. ThreadQueue(f)'
    BY <1>1, <1>4, <1>8 DEF ThreadQueue, GivesUp
  <2>2. SleepOk(f)'
    BY <1>1, <1>3, <1>8 DEF SleepOk, GivesUp, SendWaits
  <2>3. Accounted(f)'
    BY <1>1, <1>5, <1>8, <1>11, <1>12, <2>0 DEF GivesUp, ThreadQueue
  <2>4. FeedOk(f)'
    <3>1. tpc[f] = "send" /\ queue[f].err_send # NoError => Closed
      <4>1. Restarts /\ Phases
        BY DEF IInv, MainInv
      <4> QED
        BY <1>1, <4>1 DEF FeedOk, Restarts, Closed
    <3> QED
      BY <1>1, <1>3, <1>4, <1>5, <1>8, <2>0, <3>1 DEF FeedOk, GivesUp
  <2> QED
    BY <2>1, <2>2, <2>3, <2>4 DEF FileInv
<1>9. CASE Sends(f)
  <2>1. ThreadQueue(f)'
    BY <1>1, <1>4, <1>9 DEF ThreadQueue, Sends
  <2>2. queue[f].cond_send = {}
    BY <1>1, <1>5, <1>9 DEF SleepOk, SendWaits, Sends, TypeInv, QueueTypes, QueueType
  <2>3. SleepOk(f)'
    BY <1>9, <2>2 DEF SleepOk, Sends
  <2>4. /\ Queued(f)' = Queued(f) + 1
        /\ queue'[f].fifo[Queued(f) + 1] = pkt[f]
        /\ \A k \in 1..Queued(f) : queue'[f].fifo[k] = queue[f].fifo[k]
    BY <1>5, <1>9 DEF Sends, Queued
  <2>5. pkt[f] # 0 /\ pkt[f] = nread[f]
    BY <1>1, <1>9 DEF ThreadQueue, FeedOk, Sends
  <2>10. pkt'[f] = 0 /\ nread'[f] = nread[f] /\ freed'[f] = freed[f]
    BY <1>9 DEF Sends
  <2>6. Accounted(f)'
    BY <1>5, <1>11, <1>12, <2>4, <2>5, <2>10
  <2>7. freed[f] = 0 => pkt[f] = Delivered(f) + Queued(f) + 1
    BY <1>5, <1>11, <2>5
  <2>8. freed[f] = 0 => \A k \in 1..(Queued(f) + 1) :
                           queue'[f].fifo[k] = Delivered(f) + k
    <3> SUFFICES ASSUME freed[f] = 0, NEW k \in 1..(Queued(f) + 1)
                 PROVE  queue'[f].fifo[k] = Delivered(f) + k
      OBVIOUS
    <3>1. CASE k = Queued(f) + 1
      BY <1>5, <2>4, <2>7, <3>1
    <3>2. CASE k \in 1..Queued(f)
      BY <1>1, <2>4, <3>2 DEF FeedOk
    <3> QED
      BY <1>5, <3>1, <3>2
  <2>9. FeedOk(f)'
    BY <1>1, <1>3, <1>4, <1>9, <2>4, <2>8, <2>10 DEF FeedOk, Sends
  <2> QED
    BY <2>1, <2>3, <2>6, <2>9 DEF FileInv
<1>10. CASE Exits(f)
  <2>0. Queued(f)' = Queued(f)
    BY <1>10 DEF Exits, Queued
  <2>1. ThreadQueue(f)'
    BY <1>1, <1>4, <1>10 DEF ThreadQueue, Exits
  <2>2. SleepOk(f)'
    BY <1>1, <1>10 DEF SleepOk, Exits
  <2>3. Accounted(f)'
    BY <1>1, <1>4, <1>10, <2>0 DEF Accounted, Exits
  <2>4. FeedOk(f)'
    BY <1>1, <1>3, <1>4, <1>10, <2>0 DEF FeedOk, Exits
  <2> QED
    BY <2>1, <2>2, <2>3, <2>4 DEF FileInv
<1> QED
  BY <1>2, <1>6, <1>7, <1>8, <1>9, <1>10

LEMMA ThreadStepOther ==
    ASSUME IInv, NEW f \in Files, input_thread(f) \/ SpuriousWakeup(f),
           NEW g \in Files, g # f
    PROVE  FileInv(g)'
<1>1. TypeInv /\ ThreadQueue(f) /\ FileInv(g)
  BY DEF IInv, FileInvs, FileInv
<1>2. Elsewhere(f)
  BY <1>1, ThreadCases
<1>3. UNCHANGED <<nb_input_files, mpc, cur, restarting, got>>
  BY <1>2 DEF Elsewhere, main
<1>4. /\ Threaded' = Threaded /\ Open' = Open /\ Closed' = Closed
      /\ queue'[g] = queue[g] /\ tpc'[g] = tpc[g] /\ pkt'[g] = pkt[g]
      /\ nread'[g] = nread[g] /\ freed'[g] = freed[g]
      /\ Queued(g)' = Queued(g) /\ Delivered(g)' = Delivered(g)
  BY <1>2, <1>3 DEF Threaded, Open, Closed, Elsewhere, Queued, Delivered
<1>5. ThreadQueue(g)' /\ Accounted(g)'
  BY <1>1, <1>4 DEF FileInv, ThreadQueue, Accounted
<1>6. SleepOk(g)' /\ FeedOk(g)'
  BY <1>1, <1>3, <1>4 DEF FileInv, SleepOk, FeedOk
<1> QED
  BY <1>5, <1>6 DEF FileInv

LEMMA ThreadStepMain ==
    ASSUME IInv, NEW f \in Files, input_thread(f) \/ SpuriousWakeup(f)
    PROVE  MainInv'
<1>1. TypeInv /\ ThreadQueue(f) /\ Phases /\ Restarts
  BY DEF IInv, FileInvs, FileInv, MainInv
<1>2. /\ Elsewhere(f)
      /\ Waits(f) \/ Reads(f) \/ GivesUp(f) \/ Sends(f) \/ Exits(f)
  BY <1>1, ThreadCases
<1>3. UNCHANGED <<nb_input_files, mpc, cur, restarting, got, eof>>
  BY <1>2 DEF Elsewhere, main
<1>4. (tpc'[f] = "none" <=> tpc[f] = "none")
  BY <1>2 DEF Waits, Reads, GivesUp, Sends, Exits
<1>5. tpc[f] \in {"none", "exited"} =>
         tpc'[f] = tpc[f] /\ queue'[f].fifo = queue[f].fifo /\ nread'[f] = nread[f]
  BY <1>2 DEF Waits, Reads, GivesUp, Sends, Exits, SameMessages
<1>6. /\ \A g \in Files : (tpc'[g] = "none" <=> tpc[g] = "none")
      /\ \A g \in Files : tpc[g] \in {"none", "exited"} =>
            tpc'[g] = tpc[g] /\ queue'[g].fifo = queue[g].fifo /\ nread'[g] = nread[g]
  BY <1>2, <1>4, <1>5 DEF Elsewhere
<1>7. Threaded' = Threaded /\ Open' = Open
  BY <1>3 DEF Threaded, Open
<1>8. cur \in Files /\ Open \subseteq Files
  BY <1>1, OpenFiles DEF TypeInv
<1>9. Phases'
  BY <1>1, <1>3, <1>6, <1>7, <1>8 DEF Phases
<1>10. Restarts'
  BY <1>1, <1>3, <1>6, <1>8 DEF Restarts
<1> QED
  BY <1>9, <1>10 DEF MainInv

-----------------------------------------------------------------------------
(* Steps of the main thread                                                 *)

\* A file the step does not touch keeps its part of the invariant, unless its
\* sending end is closed and the main loop goes on.
LEMMA FileKept ==
    ASSUME IInv, NEW g \in Files, queue[g].cond_recv = {},
           UNCHANGED nb_input_files,
           queue'[g] = queue[g], tpc'[g] = tpc[g], pkt'[g] = pkt[g],
           nread'[g] = nread[g], got'[g] = got[g], freed'[g] = freed[g],
           Closed => Closed',
           queue[g].err_send # NoError /\ ~Closed' =>
             g = cur' /\ mpc' \in {"drain", "join"}
    PROVE  FileInv(g)'
<1>1. ThreadQueue(g) /\ SleepOk(g) /\ Accounted(g) /\ FeedOk(g)
  BY DEF IInv, FileInvs, FileInv
<1>2. /\ Threaded' = Threaded /\ Open' = Open
      /\ Queued(g)' = Queued(g) /\ Delivered(g)' = Delivered(g)
  BY DEF Threaded, Open, Queued, Delivered
<1>3. ThreadQueue(g)' /\ SleepOk(g)' /\ Accounted(g)'
  BY <1>1, <1>2 DEF ThreadQueue, SleepOk, Accounted, SendWaits
<1>4. FeedOk(g)'
  BY <1>1, <1>2 DEF FeedOk
<1> QED
  BY <1>3, <1>4 DEF FileInv

LEMMA OthersKept ==
    ASSUME IInv, NEW g \in Files, g # cur, UNCHANGED nb_input_files,
           queue'[g] = queue[g], tpc'[g] = tpc[g], pkt'[g] = pkt[g],
           nread'[g] = nread[g], got'[g] = got[g], freed'[g] = freed[g],
           Closed => Closed'
    PROVE  FileInv(g)'
<1>1. SleepOk(g) /\ FeedOk(g)
  BY DEF IInv, FileInvs, FileInv
<1>2. queue[g].cond_recv = {}
  BY <1>1 DEF SleepOk
<1>3. ~(queue[g].err_send # NoError /\ ~Closed')
  BY <1>1 DEF FeedOk
<1> QED
  BY <1>2, <1>3, FileKept

\* What the invariant says of one file, and of the main thread.
LEMMA AboutFile ==
    ASSUME IInv, NEW f \in Files
    PROVE  /\ ThreadQueue(f) /\ SleepOk(f) /\ Accounted(f) /\ FeedOk(f)
           /\ queue[f] \in QueueType
           /\ queue[f].cond_send \subseteq {f}
           /\ queue[f].cond_recv \subseteq {Main}
           /\ queue[f].fifo \in Seq(Packets) /\ got[f] \in Seq(Packets)
           /\ Queued(f) \in Nat /\ Delivered(f) \in Nat
           /\ freed[f] \in Nat /\ nread[f] \in Nat /\ pkt[f] \in Nat
           /\ pkt[f] = 0 => nread[f] = Delivered(f) + Queued(f) + freed[f]
           /\ pkt[f] # 0 => nread[f] = Delivered(f) + Queued(f) + freed[f] + 1
           /\ Queued(f) = 0 <=> queue[f].fifo = <<>>
<1>1. TypeInv /\ MainTypes
  BY DEF IInv, TypeInv
<1>3. ThreadQueue(f) /\ SleepOk(f) /\ Accounted(f) /\ FeedOk(f)
  BY DEF IInv, FileInvs, FileInv
<1>4. queue[f] \in QueueType /\ queue[f].cond_send \subseteq {f}
  BY <1>1 DEF TypeInv, QueueTypes
<1>5. queue[f].cond_recv \subseteq {Main} /\ queue[f].fifo \in Seq(Packets)
  BY <1>4 DEF QueueType
<1>6. got[f] \in Seq(Packets) /\ freed[f] \in Nat
  BY <1>1, MainParts
<1>7. nread[f] \in Nat /\ pkt[f] \in Nat
  BY <1>1, InputAssumption DEF TypeInv, ThreadTypes
<1>8. Queued(f) \in Nat /\ Delivered(f) \in Nat
  BY <1>5, <1>6 DEF Queued, Delivered
<1>9. Queued(f) = 0 <=> queue[f].fifo = <<>>
  BY <1>5, EmptySeq DEF Queued
<1>10. /\ pkt[f] = 0 => nread[f] = Delivered(f) + Queued(f) + freed[f]
       /\ pkt[f] # 0 => nread[f] = Delivered(f) + Queued(f) + freed[f] + 1
  BY <1>3, <1>6, <1>7, <1>8 DEF Accounted
<1> QED
  BY <1>3, <1>4, <1>5, <1>6, <1>7, <1>8, <1>9, <1>10

LEMMA AboutMain ==
    ASSUME IInv
    PROVE  /\ cur \in Files /\ cur \in Open /\ Open \subseteq Files /\ 0 \in Open
           /\ TypeInv /\ MainTypes /\ Phases /\ Restarts
           /\ nb_input_files \in Nat /\ cur \in Nat
<1>1. TypeInv /\ MainTypes /\ Phases /\ Restarts
  BY DEF IInv, MainInv, TypeInv
<1>2. /\ cur \in Files /\ cur \in Open /\ Open \subseteq Files /\ 0 \in Open
  BY <1>1, OpenFiles, MainParts
<1>3. nb_input_files \in Nat /\ cur \in Nat
  BY <1>1, <1>2, MainParts, InputAssumption DEF Files
<1> QED
  BY <1>1, <1>2, <1>3

\* The main thread takes a step only when it is awake.
LEMMA MainAwake ==
    ASSUME IInv, main_thread
    PROVE  queue[cur].cond_recv = {}
<1>1. SleepOk(cur) /\ ThreadQueue(cur) /\ queue[cur].cond_recv \subseteq {Main}
  BY AboutFile, AboutMain
<1>2. CASE mpc \notin {"recv", "drain"}
  BY <1>1, <1>2 DEF SleepOk
<1>3. CASE Main \notin Asleep(queue[cur])
  BY <1>1, <1>3 DEF Asleep
<1>4. CASE ~Threaded
  BY <1>1, <1>4 DEF ThreadQueue, NoQueue
<1>5. CASE queue[cur] = NoQueue
  BY <1>5 DEF NoQueue
<1> QED
  BY <1>2, <1>3, <1>4, <1>5 DEF main_thread, init_input_threads, choose_input,
     leave_loop, get_input_packet_mt, recv_freed_queue, get_input_packet, not_now, free_input_thread,
     drain_queue, join_thread, seek_to_start

\* A step that changes no queue, no thread and no packet.
LEMMA ControlStep ==
    ASSUME IInv, main_thread, UNCHANGED <<nb_input_files, queue, thread, nread, got, freed>>,
           Closed => Closed',
           queue[cur].err_send # NoError /\ ~Closed' =>
             cur = cur' /\ mpc' \in {"drain", "join"}
    PROVE  FileInvs'
<1> SUFFICES ASSUME NEW g \in Files PROVE FileInv(g)'
  BY DEF FileInvs
<1>1. /\ queue'[g] = queue[g] /\ tpc'[g] = tpc[g] /\ pkt'[g] = pkt[g]
      /\ nread'[g] = nread[g] /\ got'[g] = got[g] /\ freed'[g] = freed[g]
  BY DEF thread
<1>2. CASE g # cur
  BY <1>1, <1>2, OthersKept
<1>3. CASE g = cur
  BY <1>1, <1>3, MainAwake, FileKept
<1> QED
  BY <1>2, <1>3

\* A step that touches the file f the main thread works on.
LEMMA CurStep ==
    ASSUME IInv, NEW f \in Files, f = cur, UNCHANGED nb_input_files,
           \A g \in Files : g # f =>
             /\ queue'[g] = queue[g] /\ tpc'[g] = tpc[g] /\ pkt'[g] = pkt[g]
             /\ nread'[g] = nread[g] /\ got'[g] = got[g] /\ freed'[g] = freed[g],
           Closed => Closed', FileInv(f)'
    PROVE  FileInvs'
<1> SUFFICES ASSUME NEW g \in Files PROVE FileInv(g)'
  BY DEF FileInvs
<1>1. CASE g # f
  BY <1>1, OthersKept
<1>2. CASE g = f
  BY <1>2
<1> QED
  BY <1>1, <1>2

\* A new queue and a new thread for the file f, which had none.
LEMMA Started ==
    ASSUME IInv, NEW f \in Files, f = cur, Start(f), tpc[f] = "none",
           Threaded, UNCHANGED nb_input_files, ~Closed,
           \A g \in Files : g # f =>
             nread'[g] = nread[g] /\ got'[g] = got[g] /\ freed'[g] = freed[g],
           nread'[f] = Delivered(f)', freed'[f] = 0, Delivered(f)' \in Nat
    PROVE  /\ FileInvs'
           /\ tpc'[f] = "read" /\ \A g \in Files : g # f => tpc'[g] = tpc[g]
<1>1. /\ queue \in [Files -> QueueType]
      /\ tpc \in [Files -> {"none", "read", "send", "fail", "exited"}]
  BY DEF IInv, TypeInv, QueueTypes, ThreadTypes
<1>2. /\ queue'[f] = NewQueue(thread_queue_size) /\ tpc'[f] = "read"
      /\ \A g \in Files : g # f => queue'[g] = queue[g] /\ tpc'[g] = tpc[g]
      /\ pkt' = pkt
  BY <1>1 DEF Start
<1>3. pkt[f] = 0 /\ cur \in Open
  BY AboutFile, AboutMain DEF ThreadQueue
<1>4. Threaded' = Threaded /\ Open' = Open /\ Queued(f)' = 0
  BY <1>2 DEF Threaded, Open, Queued, NewQueue
<1>5. ThreadQueue(f)'
  BY <1>2, <1>3, <1>4 DEF ThreadQueue, NewQueue
<1>6. SleepOk(f)'
  BY <1>2 DEF SleepOk, NewQueue
<1>7. Accounted(f)'
  BY <1>2, <1>3, <1>4 DEF Accounted
<1>8. FeedOk(f)'
  <2>1. queue'[f].err_send = NoError
    BY <1>2 DEF NewQueue
  <2> QED
    BY <1>2, <1>3, <1>4, <2>1 DEF FeedOk
<1>9. FileInv(f)'
  BY <1>5, <1>6, <1>7, <1>8 DEF FileInv
<1> QED
  BY <1>2, <1>9, CurStep

LEMMA InitThreadsStep ==
    ASSUME IInv, init_input_threads
    PROVE  FileInvs' /\ MainInv'
<1>1. PICK f \in Files : f = cur
  BY AboutMain
<1>2. /\ mpc = "init" /\ ~restarting /\ ~Closed
      /\ UNCHANGED <<nb_input_files, nread, restarting, eof, got, freed>>
      /\ main_thread
  BY AboutMain, MainParts DEF init_input_threads, Closed, main_thread
<1>3. FeedOk(f) /\ Phases /\ freed[f] = 0 /\ queue[f].err_send = NoError
  BY <1>1, <1>2, AboutFile, AboutMain DEF FeedOk
<1>4. Threaded' = Threaded /\ Open' = Open
  BY <1>2 DEF Threaded, Open
<1>5. CASE /\ Threaded /\ Start(cur)
           /\ \/ cur' = 0 /\ mpc' = "loop" /\ cur + 1 = nb_input_files
              \/ cur' = cur + 1 /\ mpc' = "init"
  <2>1. tpc[f] = "none" /\ pkt[f] = 0 /\ Queued(f) = 0
    BY <1>1, <1>2, <1>3, AboutFile, AboutMain DEF Phases, ThreadQueue, NoQueue, Queued
  <2>2. Delivered(f)' = Delivered(f) /\ nread'[f] = Delivered(f) /\ Delivered(f) \in Nat
    BY <1>2, <1>3, <2>1, AboutFile DEF Delivered
  <2>3. /\ FileInvs'
        /\ tpc'[f] = "read" /\ \A g \in Files : g # f => tpc'[g] = tpc[g]
    BY <1>1, <1>2, <1>3, <1>5, <2>1, <2>2, Started
  <2>4. \A g \in Files : /\ g > cur => tpc'[g] = "none"
                         /\ g <= cur => tpc'[g] # "none"
    BY <1>1, <1>2, <1>3, <1>5, <2>3, AboutMain DEF Phases, Files
  <2>5. Phases'
    <3>1. CASE cur' = 0 /\ mpc' = "loop" /\ cur + 1 = nb_input_files
      <4>0. nb_input_files \in Nat /\ cur \in Nat /\ Open \subseteq Files
        BY AboutMain
      <4>2. \A g \in Open : g <= cur
        BY <3>1, <4>0 DEF Open
      <4>1. \A g \in Open : tpc'[g] # "none"
        BY <2>4, <4>0, <4>2
      <4> QED
        BY <1>2, <1>4, <3>1, <4>1 DEF Phases
    <3>2. CASE cur' = cur + 1 /\ mpc' = "init"
      <4>1. \A g \in Files : /\ g >= cur' => tpc'[g] = "none"
                             /\ g < cur' => tpc'[g] # "none"
        BY <2>4, <3>2, AboutMain DEF Files
      <4>2. ~restarting' /\ mpc' = "init"
        BY <1>2, <3>2
      <4> QED
        BY <4>1, <4>2 DEF Phases
    <3> QED
      BY <1>5, <3>1, <3>2
  <2>6. Restarts'
    BY <1>2, <1>5 DEF Restarts
  <2> QED
    BY <2>3, <2>5, <2>6 DEF MainInv
<1>6. CASE /\ UNCHANGED <<queue, thread>>
           /\ \/ cur' = 0 /\ mpc' = "free"
              \/ ~Threaded /\ mpc' = "loop" /\ cur' = cur
  <2>1. FileInvs'
    BY <1>1, <1>2, <1>3, <1>6, ControlStep DEF Closed
  <2>2. Phases'
    BY <1>2, <1>4, <1>6 DEF Phases, Files
  <2>3. Restarts'
    BY <1>2, <1>6 DEF Restarts
  <2> QED
    BY <2>1, <2>2, <2>3 DEF MainInv
<1> QED
  BY <1>5, <1>6, AboutMain DEF init_input_threads

LEMMA ChooseStep ==
    ASSUME IInv, choose_input \/ leave_loop
    PROVE  FileInvs' /\ MainInv'
<1>1. /\ mpc = "loop" /\ ~restarting /\ ~restarting' /\ ~Closed
      /\ UNCHANGED <<nb_input_files, queue, thread, nread, eof, got, freed>>
      /\ main_thread
  BY AboutMain, MainParts DEF choose_input, leave_loop, Closed, main_thread
<1>2. queue[cur].err_send = NoError
  BY <1>1, AboutMain, AboutFile DEF FeedOk
<1>3. FileInvs'
  BY <1>1, <1>2, ControlStep
<1>4. /\ mpc' \in {"recv", "loop", "free"}
      /\ mpc' = "recv" => ~eof[cur']
      /\ mpc' = "free" => cur' = 0
  BY <1>1 DEF choose_input, leave_loop, Readable
<1>5. Threaded' = Threaded /\ Open' = Open /\ tpc' = tpc /\ eof' = eof
  BY <1>1 DEF Threaded, Open, thread
<1>6. Phases'
  BY <1>1, <1>4, <1>5, AboutMain DEF Phases, Files
<1>7. Restarts'
  BY <1>1, <1>4, <1>5 DEF Restarts
<1> QED
  BY <1>3, <1>6, <1>7 DEF MainInv

\* get_input_packet gave no packet: EAGAIN, or an error once all the file
\* returned has been delivered.
LEMMA NoPacketStep ==
    ASSUME IInv, main_thread, mpc = "recv",
           UNCHANGED <<nb_input_files, queue, thread, nread, cur, freed>>,
           \/ GotEagain
           \/ /\ GotError
              /\ tpc[cur] = IF Threaded THEN "exited" ELSE "none"
              /\ queue[cur].fifo = <<>>
    PROVE  FileInvs' /\ MainInv'
<1>1. PICK f \in Files : f = cur
  BY AboutMain
<1>2. /\ ~Closed /\ got' = got
      /\ \/ mpc' = "loop" /\ ~restarting'
         \/ mpc' = "free" /\ restarting' /\ GotError
  BY DEF Closed, GotEagain, GotError
<1>3. queue[f].err_send = NoError /\ freed[f] = 0
  BY <1>1, <1>2, AboutFile DEF FeedOk
<1>4. FileInvs'
  BY <1>1, <1>2, <1>3, ControlStep
<1>5. Threaded' = Threaded /\ Open' = Open /\ tpc' = tpc
  BY DEF Threaded, Open, thread
<1>6. Phases'
  <2>1. restarting' /\ Threaded => tpc[cur] # "none"
    BY DEF GotEagain
  <2> QED
    BY <1>2, <1>5, <2>1, AboutMain DEF Phases
<1>7. Restarts'
  <2>1. CASE mpc' = "loop" /\ ~restarting'
    BY <2>1 DEF Restarts
  <2>2. CASE mpc' = "free" /\ restarting' /\ GotError
    <3>1. pkt[f] = 0 /\ Queued(f) = 0 /\ tpc[f] \in {"none", "exited"}
      BY <1>1, <2>2, AboutFile DEF ThreadQueue, GotEagain, GotError
    <3>2. nread[f] = Delivered(f)
      BY <1>3, <3>1, AboutFile
    <3>3. ~eof[f] /\ eof' = eof
      BY <1>1, <2>2, AboutMain DEF Restarts, GotError
    <3> QED
      BY <1>1, <1>2, <1>5, <3>1, <3>2, <3>3 DEF Restarts, Delivered
  <2> QED
    BY <1>2, <2>1, <2>2
<1> QED
  BY <1>4, <1>6, <1>7 DEF MainInv

\* The main thread reads from the queue of the file f it works on.
LEMMA ReadEffect ==
    ASSUME IInv, NEW f \in Files, queue[f].fifo # <<>>,
           NEW q \in Read(queue[f]), queue' = [queue EXCEPT ![f] = q]
    PROVE  /\ queue'[f] = q /\ \A g \in Files : g # f => queue'[g] = queue[g]
           /\ q.nelem = queue[f].nelem
           /\ q.err_send = queue[f].err_send /\ q.err_recv = queue[f].err_recv
           /\ q.cond_send = {} /\ q.cond_recv = queue[f].cond_recv
           /\ Queued(f) >= 1 /\ Queued(f)' = Queued(f) - 1
           /\ Head(queue[f].fifo) \in Packets
           /\ Head(queue[f].fifo) = queue[f].fifo[1]
           /\ \A k \in 1..(Queued(f) - 1) : q.fifo[k] = queue[f].fifo[k + 1]
           /\ tpc[f] # "none"
<1>1. queue \in [Files -> QueueType]
  BY DEF IInv, TypeInv, QueueTypes
<1>2. queue'[f] = q /\ \A g \in Files : g # f => queue'[g] = queue[g]
  BY <1>1
<1>3. /\ q.nelem = queue[f].nelem
      /\ Len(q.fifo) = Len(queue[f].fifo) - 1
      /\ Head(queue[f].fifo) \in Packets /\ Head(queue[f].fifo) = queue[f].fifo[1]
      /\ \A k \in 1..Len(q.fifo) : q.fifo[k] = queue[f].fifo[k + 1]
      /\ q.err_send = queue[f].err_send /\ q.err_recv = queue[f].err_recv
      /\ q.cond_recv = queue[f].cond_recv /\ q.cond_send = {}
  BY AboutFile, ReadValue
<1>4. Queued(f) \in Nat /\ Queued(f) # 0
  BY AboutFile
<1>5. tpc[f] # "none"
  BY AboutFile DEF ThreadQueue, NoQueue
<1>6. Queued(f)' = Queued(f) - 1
  BY <1>2, <1>3 DEF Queued
<1>7. \A k \in 1..(Queued(f) - 1) : q.fifo[k] = queue[f].fifo[k + 1]
  BY <1>3 DEF Queued
<1> QED
  BY <1>2, <1>3, <1>4, <1>5, <1>6, <1>7

\* A packet of f goes to the main thread.
LEMMA PacketStep ==
    ASSUME IInv, main_thread, mpc = "recv", Threaded,
           queue[cur].fifo # <<>>,
           NEW q \in Read(queue[cur]), queue' = [queue EXCEPT ![cur] = q],
           GotPacket(Head(queue[cur].fifo)),
           UNCHANGED <<nb_input_files, thread, nread, cur, freed>>
    PROVE  FileInvs' /\ MainInv'
<1>1. PICK f \in Files : f = cur
  BY AboutMain
<1>2. /\ ~Closed /\ ~Closed' /\ mpc' = "loop" /\ ~restarting'
      /\ tpc' = tpc /\ pkt' = pkt
      /\ got' = [got EXCEPT ![f] = Append(@, Head(queue[f].fifo))]
      /\ queue[f].cond_recv = {}
  BY <1>1, MainAwake DEF Closed, GotPacket, thread
<1>3. /\ queue'[f] = q /\ \A g \in Files : g # f => queue'[g] = queue[g]
      /\ q.nelem = queue[f].nelem
      /\ q.err_send = queue[f].err_send /\ q.err_recv = queue[f].err_recv
      /\ q.cond_send = {} /\ q.cond_recv = {}
      /\ Queued(f) >= 1 /\ Queued(f)' = Queued(f) - 1
      /\ Head(queue[f].fifo) \in Packets
      /\ \A k \in 1..(Queued(f) - 1) : q.fifo[k] = queue[f].fifo[k + 1]
      /\ tpc[f] # "none"
  <2>1. /\ q \in Read(queue[f]) /\ queue' = [queue EXCEPT ![f] = q]
        /\ queue[f].fifo # <<>>
    BY <1>1
  <2>2. /\ queue'[f] = q /\ \A g \in Files : g # f => queue'[g] = queue[g]
        /\ q.nelem = queue[f].nelem
        /\ q.err_send = queue[f].err_send /\ q.err_recv = queue[f].err_recv
        /\ q.cond_send = {} /\ q.cond_recv = queue[f].cond_recv
        /\ Queued(f) >= 1 /\ Queued(f)' = Queued(f) - 1
        /\ Head(queue[f].fifo) \in Packets
        /\ Head(queue[f].fifo) = queue[f].fifo[1]
        /\ \A k \in 1..(Queued(f) - 1) : q.fifo[k] = queue[f].fifo[k + 1]
        /\ tpc[f] # "none"
    BY <2>1, ReadEffect
  <2> QED
    BY <1>2, <2>2
<1>4. /\ Delivered(f)' = Delivered(f) + 1
      /\ \A g \in Files : g # f => got'[g] = got[g]
  <2>1. got \in [Files -> Seq(Packets)] /\ got[f] \in Seq(Packets)
    BY AboutMain, AboutFile, MainParts
  <2>2. got'[f] = Append(got[f], Head(queue[f].fifo))
    BY <1>2, <2>1
  <2>3. Len(Append(got[f], Head(queue[f].fifo))) = Len(got[f]) + 1
    BY <1>3, <2>1
  <2> QED
    BY <1>2, <2>1, <2>2, <2>3 DEF Delivered
<1>5. Threaded' = Threaded /\ Open' = Open
  BY DEF Threaded, Open
<1>6. /\ ThreadQueue(f) /\ FeedOk(f) /\ Queued(f) \in Nat /\ Delivered(f) \in Nat
      /\ freed[f] \in Nat /\ freed[f] = 0 /\ queue[f].err_send = NoError
      /\ pkt[f] = 0 => nread[f] = Delivered(f) + Queued(f) + freed[f]
      /\ pkt[f] # 0 => nread[f] = Delivered(f) + Queued(f) + freed[f] + 1
  BY <1>2, AboutFile DEF FeedOk
<1>7. ThreadQueue(f)'
  BY <1>2, <1>3, <1>5, <1>6 DEF ThreadQueue
<1>8. SleepOk(f)'
  BY <1>3 DEF SleepOk
<1>9. Accounted(f)'
  BY <1>2, <1>3, <1>4, <1>6 DEF Accounted
<1>10. FeedOk(f)'
  <2>1. \A k \in 1..(Queued(f) - 1) : q.fifo[k] = Delivered(f) + 1 + k
    BY <1>3, <1>6 DEF FeedOk
  <2> QED
    BY <1>2, <1>3, <1>4, <1>6, <2>1 DEF FeedOk
<1>11. FileInv(f)'
  BY <1>7, <1>8, <1>9, <1>10 DEF FileInv
<1>12. FileInvs'
  BY <1>1, <1>2, <1>3, <1>4, <1>11, CurStep
<1>13. Phases'
  BY <1>2, <1>5, AboutMain DEF Phases
<1>14. Restarts'
  BY <1>2 DEF Restarts
<1> QED
  BY <1>12, <1>13, <1>14 DEF MainInv

\* The main thread falls asleep on the queue of the file it works on.
LEMMA SleepStep ==
    ASSUME IInv, RecvWaits(queue[cur]), tpc[cur] # "none",
           mpc = "drain" \/ (mpc = "recv" /\ cur \notin NonBlocking),
           queue' = [queue EXCEPT ![cur] = SleepRecv(@, Main)],
           UNCHANGED <<nb_input_files, thread, nread, mpc, cur, restarting, eof,
                       got, freed>>
    PROVE  FileInvs' /\ MainInv'
<1>1. PICK f \in Files : f = cur
  BY AboutMain
<1>2. /\ queue \in [Files -> QueueType] /\ queue[f] \in QueueType
      /\ SleepRecv(queue[f], Main) = [queue[f] EXCEPT !.cond_recv = {Main}]
  <2>1. queue \in [Files -> QueueType]
    BY DEF IInv, TypeInv, QueueTypes
  <2> QED
    BY <2>1, AboutFile, SleepValue
<1>3. /\ queue'[f] = [queue[f] EXCEPT !.cond_recv = {Main}]
      /\ \A g \in Files : g # f => queue'[g] = queue[g]
  BY <1>1, <1>2
<1>4. /\ SameMessages(f) /\ queue'[f].cond_send = queue[f].cond_send
      /\ Queued(f)' = Queued(f) /\ Delivered(f)' = Delivered(f)
  BY <1>2, <1>3 DEF SameMessages, QueueType, Queued, Delivered
<1>5. /\ Threaded' = Threaded /\ Open' = Open /\ Closed' = Closed
      /\ tpc' = tpc /\ pkt' = pkt
  BY DEF Threaded, Open, Closed, thread
<1>6. ThreadQueue(f)'
  BY <1>1, <1>4, <1>5, AboutFile DEF ThreadQueue, SameMessages
<1>7. SleepOk(f)'
  BY <1>1, <1>4, <1>5, AboutFile DEF SleepOk, SameMessages, RecvWaits, SendWaits
<1>8. Accounted(f)'
  BY <1>4, <1>5, AboutFile DEF Accounted
<1>9. FeedOk(f)'
  BY <1>1, <1>4, <1>5, AboutFile DEF FeedOk, SameMessages
<1>10. FileInvs'
  BY <1>1, <1>3, <1>5, <1>6, <1>7, <1>8, <1>9, CurStep DEF FileInv
<1>11. Phases' /\ Restarts'
  BY <1>5, AboutMain DEF Phases, Restarts
<1> QED
  BY <1>10, <1>11 DEF MainInv

LEMMA GetPacketMtStep ==
    ASSUME IInv, get_input_packet_mt
    PROVE  FileInvs' /\ MainInv'
<1>1. PICK f \in Files : f = cur
  BY AboutMain
<1>2. /\ mpc = "recv" /\ Threaded /\ main_thread
      /\ UNCHANGED <<nb_input_files, thread, nread, cur, loop, freed>>
  BY DEF get_input_packet_mt, main_thread
<1>3. tpc[cur] # "none"
  BY <1>1, AboutFile DEF get_input_packet_mt, ThreadQueue
<1>4. CASE GotEagain /\ UNCHANGED queue
  BY <1>2, <1>4, NoPacketStep
<1>5. CASE /\ RecvWaits(queue[cur]) /\ cur \notin NonBlocking
           /\ queue' = [queue EXCEPT ![cur] = SleepRecv(@, Main)]
           /\ UNCHANGED <<mpc, restarting, eagain, eof, got>>
  BY <1>2, <1>3, <1>5, SleepStep
<1>6. CASE RecvFails(queue[cur]) /\ GotError /\ UNCHANGED queue
  <2>1. tpc[f] = "exited" /\ queue[f].fifo = <<>>
    BY <1>1, <1>6, AboutFile DEF RecvFails, ThreadQueue
  <2> QED
    BY <1>1, <1>2, <1>6, <2>1, NoPacketStep
<1>7. CASE /\ queue[cur].fifo # <<>>
           /\ \E q \in Read(queue[cur]) : queue' = [queue EXCEPT ![cur] = q]
           /\ GotPacket(Head(queue[cur].fifo))
  <2>1. PICK q \in Read(queue[cur]) : queue' = [queue EXCEPT ![cur] = q]
    BY <1>7
  <2> QED
    BY <1>2, <1>7, <2>1, PacketStep
<1> QED
  BY <1>4, <1>5, <1>6, <1>7 DEF get_input_packet_mt

LEMMA CrashStep ==
    ASSUME IInv, recv_freed_queue
    PROVE  FileInvs' /\ MainInv'
<1>1. /\ mpc = "recv" /\ Threaded /\ main_thread /\ ~Closed /\ Closed'
      /\ mpc' = "crashed" /\ ~restarting'
      /\ UNCHANGED <<nb_input_files, queue, thread, nread, cur, got, freed>>
  BY DEF recv_freed_queue, main_thread, Closed
<1>2. tpc[cur] = "none" /\ cur \in Open
  BY AboutFile, AboutMain, InputAssumption DEF recv_freed_queue, ThreadQueue, NoQueue
<1>3. FileInvs'
  BY <1>1, ControlStep
<1>4. Phases'
  BY <1>1, <1>2, AboutMain DEF Phases
<1> QED
  BY <1>1, <1>3, <1>4 DEF MainInv, Restarts

LEMMA NotNowStep ==
    ASSUME IInv, not_now
    PROVE  FileInvs' /\ MainInv'
<1>1. /\ mpc = "recv" /\ GotEagain /\ main_thread
      /\ UNCHANGED <<nb_input_files, queue, thread, nread, cur, freed>>
  BY DEF not_now, main_thread
<1> QED
  BY <1>1, NoPacketStep

LEMMA GetPacketStep ==
    ASSUME IInv, get_input_packet
    PROVE  FileInvs' /\ MainInv'
<1>1. PICK f \in Files : f = cur
  BY AboutMain
<1>2. /\ mpc = "recv" /\ ~Threaded /\ main_thread /\ ~Closed
      /\ UNCHANGED <<nb_input_files, queue, thread, cur, loop, freed>>
  BY DEF get_input_packet, main_thread, Closed
<1>3. tpc[f] = "none" /\ queue[f] = NoQueue
  BY <1>2, AboutFile DEF ThreadQueue
<1>4. queue[f].fifo = <<>> /\ queue[f].err_send = NoError /\ Queued(f) = 0 /\ pkt[f] = 0
  BY <1>3, AboutFile DEF NoQueue, ThreadQueue
<1>5. CASE GotError /\ UNCHANGED nread
  BY <1>1, <1>2, <1>3, <1>4, <1>5, NoPacketStep
<1>6. CASE /\ nread[cur] < MaxPackets
           /\ nread' = [nread EXCEPT ![cur] = @ + 1]
           /\ GotPacket(nread'[cur])
  <2>1. /\ nread \in [Files -> 0..MaxPackets] /\ got \in [Files -> Seq(Packets)]
        /\ MaxPackets \in Nat
    BY AboutMain, MainParts, InputAssumption DEF TypeInv, ThreadTypes
  <2>2. /\ nread'[f] = nread[f] + 1
        /\ \A g \in Files : g # f => nread'[g] = nread[g]
    BY <1>1, <1>6, <2>1
  <2>3. /\ got'[f] = Append(got[f], nread'[f])
        /\ \A g \in Files : g # f => got'[g] = got[g]
        /\ mpc' = "loop" /\ ~restarting'
    BY <1>1, <1>6, <2>1 DEF GotPacket
  <2>4. Delivered(f)' = Delivered(f) + 1
    <3>1. Len(Append(got[f], nread'[f])) = Len(got[f]) + 1
      <4>1. got[f] \in Seq(Packets)
        BY AboutFile
      <4>2. nread'[f] \in Packets
        BY <1>1, <1>6, <2>1, <2>2 DEF Packets
      <4> QED
        BY <4>1, <4>2
    <3> QED
      BY <2>3, <3>1 DEF Delivered
  <2>5. /\ Threaded' = Threaded /\ Open' = Open /\ Queued(f)' = Queued(f)
        /\ queue' = queue /\ tpc' = tpc /\ pkt' = pkt /\ freed' = freed
    BY <1>2 DEF Threaded, Open, Queued, thread
  <2>6. ThreadQueue(f)' /\ SleepOk(f)'
    BY <1>3, <1>4, <2>5 DEF ThreadQueue, SleepOk, NoQueue
  <2>7. Accounted(f)'
    <3>1. nread[f] = Delivered(f) + freed[f] /\ nread[f] \in Nat
          /\ Delivered(f) \in Nat /\ freed[f] \in Nat
      BY <1>4, AboutFile
    <3> QED
      BY <1>4, <2>2, <2>4, <2>5, <3>1 DEF Accounted
  <2>8. FeedOk(f)'
    BY <1>2, <1>4, <2>5, AboutFile DEF FeedOk
  <2>9. FileInv(f)'
    BY <2>6, <2>7, <2>8 DEF FileInv
  <2>10. FileInvs'
    BY <1>1, <1>2, <2>2, <2>3, <2>5, <2>9, CurStep
  <2>11. Phases'
    BY <1>2, <2>3, <2>5, AboutMain DEF Phases
  <2>12. Restarts'
    BY <2>3 DEF Restarts
  <2> QED
    BY <2>10, <2>11, <2>12 DEF MainInv
<1> QED
  BY <1>5, <1>6 DEF get_input_packet

\* What AfterFree leaves, once the file has no thread.
LEMMA AfterFreeStep ==
    ASSUME IInv, mpc \in {"free", "join"}, AfterFree,
           UNCHANGED <<nb_input_files, restarting, nread, got, eof>>,
           tpc'[cur] = "none",
           \A g \in Files : g # cur => tpc'[g] = tpc[g]
    PROVE  MainInv' /\ (Closed => Closed')
<1>1. /\ Phases /\ Restarts /\ cur \in Files /\ Open \subseteq Files
      /\ nb_input_files \in Nat /\ cur \in Nat /\ cur \in Open
  BY AboutMain
<1>2. Threaded' = Threaded /\ Open' = Open
  BY DEF Threaded, Open
<1>3. CASE restarting
  <2>1. mpc' = "seek" /\ cur' = cur /\ restarting' /\ ~Closed
    BY <1>3 DEF AfterFree, Closed
  <2>2. Phases'
    BY <1>1, <1>2, <1>3, <2>1 DEF Phases
  <2>3. Restarts'
    BY <1>1, <1>3, <2>1 DEF Restarts
  <2> QED
    BY <2>1, <2>2, <2>3 DEF MainInv
<1>4. CASE ~restarting
  <2>1. \A g \in Files : g <= cur => tpc'[g] = "none"
    BY <1>1, <1>4 DEF Phases, Files
  <2>2. \/ mpc' = "free" /\ cur' = cur + 1
        \/ mpc' = "done" /\ cur' = cur /\ ~(cur + 1 < nb_input_files)
    BY <1>4 DEF AfterFree
  <2>3. ~restarting' /\ Closed'
    BY <1>4, <2>2 DEF Closed
  <2>4. CASE mpc' = "free" /\ cur' = cur + 1
    <3>1. \A g \in Files : g < cur' => tpc'[g] = "none"
      BY <1>1, <2>1, <2>4 DEF Files
    <3> QED
      BY <2>3, <2>4, <3>1 DEF MainInv, Phases, Restarts
  <2>5. CASE mpc' = "done" /\ cur' = cur /\ ~(cur + 1 < nb_input_files)
    <3>1. \A g \in Open : g <= cur
      BY <1>1, <2>5 DEF Open
    <3>2. \A g \in Files : g \notin Open => tpc[g] = "none"
      BY AboutFile DEF ThreadQueue
    <3>3. \A g \in Files : tpc'[g] = "none"
      BY <1>1, <2>1, <3>1, <3>2
    <3> QED
      BY <2>3, <2>5, <3>3 DEF MainInv, Phases, Restarts
  <2> QED
    BY <2>2, <2>3, <2>4, <2>5
<1> QED
  BY <1>3, <1>4

LEMMA FreeStep ==
    ASSUME IInv, free_input_thread
    PROVE  FileInvs' /\ MainInv'
<1>1. PICK f \in Files : f = cur
  BY AboutMain
<1>2. /\ mpc = "free" /\ main_thread
      /\ UNCHANGED <<nb_input_files, thread, nread, restarting, eof, got, freed>>
  BY DEF free_input_thread, main_thread
<1>3. /\ ThreadQueue(f) /\ SleepOk(f) /\ Accounted(f) /\ FeedOk(f)
      /\ Phases /\ Restarts
  BY AboutFile, AboutMain
<1>4. tpc' = tpc /\ pkt' = pkt /\ Threaded' = Threaded /\ Open' = Open
  BY <1>2 DEF thread, Threaded, Open
<1>5. CASE queue[cur] = NoQueue /\ AfterFree /\ UNCHANGED queue
  <2>1. tpc[f] = "none"
    BY <1>1, <1>3, <1>5, InputAssumption DEF ThreadQueue, NoQueue
  <2>2. queue[f].err_send = NoError
    BY <1>1, <1>5 DEF NoQueue
  <2>3. MainInv' /\ (Closed => Closed')
    BY <1>1, <1>2, <1>4, <1>5, <2>1, AfterFreeStep
  <2>4. FileInvs'
    BY <1>1, <1>2, <1>5, <2>2, <2>3, ControlStep
  <2> QED
    BY <2>3, <2>4
<1>6. CASE /\ queue[cur] # NoQueue
           /\ queue' = [queue EXCEPT ![cur] = SetErrSend(@, AVERROR_EOF)]
           /\ mpc' = "drain"
           /\ UNCHANGED cur
  <2>1. queue \in [Files -> QueueType] /\ queue[f] \in QueueType
    BY AboutFile DEF IInv, TypeInv, QueueTypes
  <2>2. /\ queue'[f] = SetErrSend(queue[f], AVERROR_EOF)
        /\ \A g \in Files : g # f => queue'[g] = queue[g]
    BY <1>1, <1>6, <2>1
  <2>3. /\ queue'[f].nelem = queue[f].nelem
        /\ queue'[f].fifo = queue[f].fifo
        /\ queue'[f].err_recv = queue[f].err_recv
        /\ queue'[f].cond_send = {} /\ queue'[f].cond_recv = queue[f].cond_recv
        /\ Queued(f)' = Queued(f) /\ Delivered(f)' = Delivered(f)
    BY <1>2, <2>1, <2>2 DEF SetErrSend, QueueType, Queued, Delivered
  <2>4. tpc[f] # "none" /\ queue[f].cond_recv = {}
    BY <1>1, <1>2, <1>3, <1>6, MainAwake DEF ThreadQueue
  <2>5. Closed' = Closed
    BY <1>2, <1>6 DEF Closed
  <2>6. ThreadQueue(f)'
    BY <1>3, <1>4, <2>3, <2>4 DEF ThreadQueue
  <2>7. SleepOk(f)'
    BY <2>3, <2>4 DEF SleepOk
  <2>8. Accounted(f)'
    BY <1>2, <1>3, <1>4, <2>3 DEF Accounted
  <2>9. FeedOk(f)'
    BY <1>1, <1>2, <1>3, <1>4, <1>6, <2>3, <2>5 DEF FeedOk
  <2>10. FileInvs'
    BY <1>1, <1>2, <1>4, <2>2, <2>5, <2>6, <2>7, <2>8, <2>9, CurStep DEF FileInv
  <2>11. Phases' /\ Restarts'
    BY <1>1, <1>2, <1>3, <1>4, <1>6, <2>4 DEF Phases, Restarts
  <2> QED
    BY <2>10, <2>11 DEF MainInv
<1> QED
  BY <1>5, <1>6 DEF free_input_thread

LEMMA DrainStep ==
    ASSUME IInv, drain_queue
    PROVE  FileInvs' /\ MainInv'
<1>1. PICK f \in Files : f = cur
  BY AboutMain
<1>2. /\ mpc = "drain" /\ main_thread
      /\ UNCHANGED <<nb_input_files, thread, nread, cur, restarting, eof, got>>
  BY DEF drain_queue, main_thread
<1>3. /\ ThreadQueue(f) /\ SleepOk(f) /\ Accounted(f) /\ FeedOk(f)
      /\ Phases /\ Restarts
  BY AboutFile, AboutMain
<1>4. /\ tpc' = tpc /\ pkt' = pkt /\ Threaded' = Threaded /\ Open' = Open
      /\ Delivered(f)' = Delivered(f)
  BY <1>2 DEF thread, Threaded, Open, Delivered
<1>5. tpc[f] # "none" /\ queue[f].cond_recv = {}
  BY <1>1, <1>2, <1>3, MainAwake DEF Phases
<1>6. CASE /\ RecvWaits(queue[cur])
           /\ queue' = [queue EXCEPT ![cur] = SleepRecv(@, Main)]
           /\ UNCHANGED <<mpc, freed>>
  BY <1>1, <1>2, <1>5, <1>6, SleepStep
<1>7. CASE RecvFails(queue[cur]) /\ mpc' = "join" /\ UNCHANGED <<queue, freed>>
  <2>1. queue[f].fifo = <<>> /\ tpc[f] = "exited"
    BY <1>1, <1>3, <1>7 DEF RecvFails, ThreadQueue
  <2>2. Closed' = Closed
    BY <1>2, <1>7 DEF Closed
  <2>3. FileInvs'
    BY <1>2, <1>7, <2>2, ControlStep
  <2>4. Phases' /\ Restarts'
    BY <1>1, <1>2, <1>3, <1>4, <1>7, <2>1 DEF Phases, Restarts
  <2> QED
    BY <2>3, <2>4 DEF MainInv
<1>8. CASE /\ queue[cur].fifo # <<>>
           /\ \E q \in Read(queue[cur]) : queue' = [queue EXCEPT ![cur] = q]
           /\ freed' = [freed EXCEPT ![cur] = @ + 1]
           /\ UNCHANGED mpc
  <2>1. PICK q \in Read(queue[f]) : queue' = [queue EXCEPT ![f] = q]
    BY <1>1, <1>8
  <2>2. queue[f].fifo # <<>>
    BY <1>1, <1>8
  <2>3. /\ queue'[f] = q /\ \A g \in Files : g # f => queue'[g] = queue[g]
        /\ q.nelem = queue[f].nelem
        /\ q.err_send = queue[f].err_send /\ q.err_recv = queue[f].err_recv
        /\ q.cond_send = {} /\ q.cond_recv = queue[f].cond_recv
        /\ Queued(f) >= 1 /\ Queued(f)' = Queued(f) - 1
        /\ Head(queue[f].fifo) \in Packets
        /\ Head(queue[f].fifo) = queue[f].fifo[1]
        /\ \A k \in 1..(Queued(f) - 1) : q.fifo[k] = queue[f].fifo[k + 1]
        /\ tpc[f] # "none"
    BY <2>1, <2>2, ReadEffect
  <2>4. /\ Queued(f) \in Nat /\ Delivered(f) \in Nat /\ freed[f] \in Nat
        /\ pkt[f] = 0 => nread[f] = Delivered(f) + Queued(f) + freed[f]
        /\ pkt[f] # 0 => nread[f] = Delivered(f) + Queued(f) + freed[f] + 1
    BY AboutFile
  <2>5. freed'[f] = freed[f] + 1 /\ \A g \in Files : g # f => freed'[g] = freed[g]
    <3>1. freed \in [Files -> Nat]
      BY AboutMain, MainParts
    <3> QED
      BY <1>1, <1>8, <3>1
  <2>6. ~restarting
    <3>1. Delivered(f) # nread[f]
      BY <2>3, <2>4
    <3> QED
      BY <1>1, <1>2, <1>3, <3>1 DEF Restarts, Delivered
  <2>7. Closed /\ Closed'
    BY <1>2, <1>8, <2>6 DEF Closed
  <2>8. ThreadQueue(f)'
    BY <1>3, <1>4, <1>5, <2>3 DEF ThreadQueue
  <2>9. SleepOk(f)'
    BY <1>5, <2>3 DEF SleepOk
  <2>10. Accounted(f)'
    BY <1>2, <1>4, <2>3, <2>4, <2>5 DEF Accounted
  <2>11. FeedOk(f)'
    BY <1>2, <1>3, <1>4, <2>4, <2>5, <2>7 DEF FeedOk
  <2>12. FileInvs'
    BY <1>1, <1>2, <1>4, <2>3, <2>5, <2>7, <2>8, <2>9, <2>10, <2>11, CurStep DEF FileInv
  <2>13. Phases' /\ Restarts'
    BY <1>2, <1>3, <1>4, <1>8, <2>6 DEF Phases, Restarts
  <2> QED
    BY <2>12, <2>13 DEF MainInv
<1> QED
  BY <1>6, <1>7, <1>8 DEF drain_queue

LEMMA JoinStep ==
    ASSUME IInv, join_thread
    PROVE  FileInvs' /\ MainInv'
<1>1. PICK f \in Files : f = cur
  BY AboutMain
<1>2. /\ mpc = "join" /\ AfterFree
      /\ tpc' = [tpc EXCEPT ![f] = "none"]
      /\ queue' = [queue EXCEPT ![f] = NoQueue]
      /\ UNCHANGED <<nb_input_files, pkt, nread, restarting, eof, got, freed>>
  BY <1>1 DEF join_thread
<1>3. /\ ThreadQueue(f) /\ FeedOk(f) /\ Phases
      /\ Queued(f) = 0 /\ pkt[f] = 0
      /\ nread[f] = Delivered(f) + Queued(f) + freed[f]
      /\ Delivered(f) \in Nat /\ freed[f] \in Nat
  <2>1. queue[f].fifo = <<>> /\ tpc[f] = "exited"
    BY <1>1, <1>2, AboutMain DEF Phases
  <2> QED
    BY <2>1, AboutFile, AboutMain DEF ThreadQueue
<1>4. /\ tpc'[f] = "none" /\ queue'[f] = NoQueue
      /\ \A g \in Files : g # f => tpc'[g] = tpc[g] /\ queue'[g] = queue[g]
  <2>1. /\ queue \in [Files -> QueueType]
        /\ tpc \in [Files -> {"none", "read", "send", "fail", "exited"}]
    BY DEF IInv, TypeInv, QueueTypes, ThreadTypes
  <2> QED
    BY <1>2, <2>1
<1>5. MainInv' /\ (Closed => Closed')
  BY <1>1, <1>2, <1>4, AfterFreeStep
<1>6. /\ Queued(f)' = 0 /\ Delivered(f)' = Delivered(f)
      /\ queue'[f].err_recv = NoError /\ queue'[f].err_send = NoError
      /\ queue'[f].cond_send = {} /\ queue'[f].cond_recv = {}
  BY <1>2, <1>4 DEF Queued, Delivered, NoQueue
<1>7. ThreadQueue(f)' /\ SleepOk(f)'
  BY <1>2, <1>3, <1>4, <1>6 DEF ThreadQueue, SleepOk
<1>8. Accounted(f)'
  BY <1>2, <1>3, <1>6 DEF Accounted
<1>9. FeedOk(f)'
  BY <1>2, <1>3, <1>5, <1>6 DEF FeedOk
<1>10. FileInvs'
  BY <1>1, <1>2, <1>4, <1>5, <1>7, <1>8, <1>9, CurStep DEF FileInv
<1> QED
  BY <1>5, <1>10

\* The counts of f begin anew while f has neither queue nor thread.
LEMMA SoughtStep ==
    ASSUME IInv, NEW f \in Files, f = cur, mpc = "seek", ~Closed, Sought,
           UNCHANGED <<nb_input_files, queue, thread>>
    PROVE  FileInvs'
<1>1. /\ tpc[f] = "none" /\ queue[f] = NoQueue /\ pkt[f] = 0
  BY AboutFile, AboutMain DEF Phases, ThreadQueue
<1>2. /\ nread \in [Files -> 0..MaxPackets]
      /\ got \in [Files -> Seq(Packets)] /\ freed \in [Files -> Nat]
  BY AboutMain, MainParts DEF TypeInv, ThreadTypes
<1>3. /\ nread'[f] = 0 /\ got'[f] = <<>> /\ freed'[f] = 0
      /\ \A g \in Files : g # f =>
           nread'[g] = nread[g] /\ got'[g] = got[g] /\ freed'[g] = freed[g]
  BY <1>2 DEF Sought
<1>4. /\ queue' = queue /\ tpc' = tpc /\ pkt' = pkt
      /\ queue[f].err_send = NoError /\ Delivered(f)' = 0 /\ Queued(f)' = 0
  BY <1>1, <1>3 DEF thread, Delivered, Queued, NoQueue
<1>5. ThreadQueue(f)' /\ SleepOk(f)'
  BY <1>1, <1>4 DEF ThreadQueue, SleepOk, NoQueue
<1>6. Accounted(f)' /\ FeedOk(f)'
  BY <1>1, <1>3, <1>4 DEF Accounted, FeedOk
<1> QED
  BY <1>3, <1>4, <1>5, <1>6, CurStep DEF FileInv

LEMMA SeekStep ==
    ASSUME IInv, seek_to_start
    PROVE  FileInvs' /\ MainInv'
<1>1. PICK f \in Files : f = cur
  BY AboutMain
<1>2. /\ mpc = "seek" /\ restarting /\ main_thread /\ ~Closed
      /\ UNCHANGED nb_input_files
  BY AboutMain, MainParts DEF seek_to_start, main_thread, Closed
<1>3. /\ Phases /\ Restarts /\ FeedOk(f)
      /\ tpc[f] = "none" /\ queue[f] = NoQueue /\ pkt[f] = 0
      /\ ~eof[f] /\ Len(got[f]) = nread[f]
  BY <1>1, <1>2, AboutFile, AboutMain DEF Phases, Restarts, ThreadQueue
<1>4. /\ Threaded' = Threaded /\ Open' = Open
      /\ freed[f] = 0 /\ queue[f].err_send = NoError /\ Queued(f) = 0
  BY <1>2, <1>3 DEF Threaded, Open, FeedOk, NoQueue, Queued
<1>5. CASE /\ Sought
           /\ mpc' = "recv"
           /\ UNCHANGED <<cur, restarting, eof>>
           /\ IF Threaded THEN Start(cur) ELSE UNCHANGED <<queue, thread>>
  <2>1. /\ nread \in [Files -> 0..MaxPackets]
        /\ got \in [Files -> Seq(Packets)] /\ freed \in [Files -> Nat]
    BY AboutMain, MainParts DEF TypeInv, ThreadTypes
  <2>2. /\ nread'[f] = 0 /\ got'[f] = <<>> /\ freed'[f] = 0
        /\ \A g \in Files : g # f =>
             nread'[g] = nread[g] /\ got'[g] = got[g] /\ freed'[g] = freed[g]
    BY <1>1, <1>5, <2>1 DEF Sought
  <2>3. Delivered(f)' = 0 /\ Len(got'[f]) = 0
    BY <2>2 DEF Delivered
  <2>4. CASE Threaded
    <3>1. Start(f)
      BY <1>1, <1>5, <2>4
    <3>2. /\ FileInvs'
          /\ tpc'[f] = "read" /\ \A g \in Files : g # f => tpc'[g] = tpc[g]
      BY <1>1, <1>2, <1>3, <2>2, <2>3, <2>4, <3>1, Started
    <3>3. Phases'
      BY <1>1, <1>2, <1>3, <1>4, <1>5, <3>2, AboutMain DEF Phases
    <3>4. Restarts'
      BY <1>1, <1>2, <1>3, <1>5 DEF Restarts
    <3> QED
      BY <3>2, <3>3, <3>4 DEF MainInv
  <2>5. CASE ~Threaded
    <3>6. FileInvs'
      BY <1>1, <1>2, <1>5, <2>5, SoughtStep
    <3>7. Phases'
      BY <1>2, <1>4, <1>5, <2>5 DEF Phases
    <3>8. Restarts'
      BY <1>1, <1>2, <1>3, <1>5 DEF Restarts
    <3> QED
      BY <3>6, <3>7, <3>8 DEF MainInv
  <2> QED
    BY <2>4, <2>5
<1>6. CASE /\ mpc' = "loop" /\ restarting' = FALSE
           /\ UNCHANGED <<cur, loop, nread, got, freed>>
           /\ IF Threaded THEN Start(cur) ELSE UNCHANGED <<queue, thread>>
  <2>1. nread'[f] = Delivered(f)' /\ Delivered(f)' \in Nat /\ freed'[f] = 0
    <3>1. Delivered(f)' = Delivered(f)
      BY <1>6 DEF Delivered
    <3>2. nread[f] = Delivered(f)
      BY <1>3 DEF Delivered
    <3> QED
      BY <1>4, <1>6, <3>1, <3>2, AboutFile
  <2>2. CASE Threaded
    <3>1. Start(f)
      BY <1>1, <1>6, <2>2
    <3>2. \A g \in Files : g # f =>
             nread'[g] = nread[g] /\ got'[g] = got[g] /\ freed'[g] = freed[g]
      BY <1>6
    <3>3. /\ FileInvs'
          /\ tpc'[f] = "read" /\ \A g \in Files : g # f => tpc'[g] = tpc[g]
      BY <1>1, <1>2, <1>3, <2>1, <2>2, <3>1, <3>2, Started
    <3>4. Phases'
      BY <1>1, <1>2, <1>3, <1>4, <1>6, <3>3, AboutMain DEF Phases
    <3>5. Restarts'
      BY <1>6 DEF Restarts
    <3> QED
      BY <3>3, <3>4, <3>5 DEF MainInv
  <2>3. CASE ~Threaded
    <3>1. UNCHANGED <<queue, thread, nread, got, freed>>
      BY <1>6, <2>3
    <3>2. FileInvs'
      BY <1>1, <1>2, <1>4, <3>1, ControlStep
    <3>3. Phases'
      BY <1>4, <1>6, <2>3 DEF Phases
    <3>4. Restarts'
      BY <1>6 DEF Restarts
    <3> QED
      BY <3>2, <3>3, <3>4 DEF MainInv
  <2> QED
    BY <2>2, <2>3
<1>7. CASE /\ InitFails
           /\ Sought \/ UNCHANGED <<loop, nread, got, freed>>
           /\ Unstarted
           /\ UNCHANGED <<queue, thread, eof>>
  <2>1. FileInvs'
    <3>1. CASE Sought
      BY <1>1, <1>2, <1>7, <3>1, SoughtStep
    <3>2. CASE UNCHANGED <<loop, nread, got, freed>>
      BY <1>1, <1>2, <1>4, <1>7, <3>2, ControlStep
    <3> QED
      BY <1>7, <3>1, <3>2
  <2>2. ~restarting' /\ (mpc' = "loop" \/ (mpc' = "free" /\ cur' = 0))
    BY <1>7 DEF Unstarted
  <2>3. Phases' /\ Restarts'
    BY <1>4, <1>7, <2>2 DEF Phases, Restarts, Files
  <2> QED
    BY <2>1, <2>3 DEF MainInv
<1> QED
  BY <1>5, <1>6, <1>7 DEF seek_to_start

LEMMA IInvNext == IInv /\ [Next]_vars => IInv'
<1> SUFFICES ASSUME IInv, [Next]_vars PROVE IInv'
  OBVIOUS
<1>1. TypeInv'
  BY TypeInvNext DEF IInv
<1>2. CASE \E f \in Files : input_thread(f) \/ SpuriousWakeup(f)
  <2>1. PICK f \in Files : input_thread(f) \/ SpuriousWakeup(f)
    BY <1>2
  <2>2. \A g \in Files : FileInv(g)'
    BY <2>1, ThreadStepFile, ThreadStepOther
  <2>3. MainInv'
    BY <2>1, ThreadStepMain
  <2> QED
    BY <1>1, <2>2, <2>3 DEF IInv, FileInvs
<1>3. CASE main_thread
  <2>1. FileInvs' /\ MainInv'
    BY <1>3, InitThreadsStep, ChooseStep, GetPacketMtStep, CrashStep, GetPacketStep,
       NotNowStep, FreeStep, DrainStep, JoinStep, SeekStep DEF main_thread
  <2> QED
    BY <1>1, <2>1 DEF IInv
<1>4. CASE UNCHANGED vars
  <2>1. UNCHANGED <<nb_input_files, queue, tpc, pkt, nread, mpc, cur, restarting,
                    eof, got, freed>>
    BY <1>4 DEF vars, thread, main
  <2>2. \A g \in Files : FileInv(g)'
    <3> SUFFICES ASSUME NEW g \in Files PROVE FileInv(g)'
      OBVIOUS
    <3>1. /\ Threaded' = Threaded /\ Open' = Open /\ Closed' = Closed
          /\ Queued(g)' = Queued(g) /\ Delivered(g)' = Delivered(g)
      BY <2>1 DEF Threaded, Open, Closed, Queued, Delivered
    <3>2. ThreadQueue(g) /\ SleepOk(g) /\ Accounted(g) /\ FeedOk(g)
      BY AboutFile
    <3>3. ThreadQueue(g)' /\ SleepOk(g)' /\ Accounted(g)' /\ FeedOk(g)'
      BY <2>1, <3>1, <3>2 DEF ThreadQueue, SleepOk, Accounted, FeedOk
    <3> QED
      BY <3>3 DEF FileInv
  <2>3. MainInv'
    <3>1. Threaded' = Threaded /\ Open' = Open
      BY <2>1 DEF Threaded, Open
    <3> QED
      BY <2>1, <3>1, AboutMain DEF MainInv, Phases, Restarts
  <2> QED
    BY <1>1, <2>2, <2>3 DEF IInv, FileInvs
<1> QED
  BY <1>2, <1>3, <1>4 DEF Next

LEMMA Invariant == Spec => []IInv
BY IInvInit, IInvNext, PTL DEF Spec

\* Every packet a demuxer returned is delivered, queued, in its thread's hands
\* or freed, through aborts, restarts and the clean-up.
THEOREM NoPacketLost == Spec => []PacketsAccounted
BY Invariant, IInvImplies, PTL

\* No thread uses a queue that was freed, and the clean-up leaves none running.
THEOREM ThreadsJoined == Spec => []NoThreadWithoutQueue
BY Invariant, IInvImplies, PTL

\* Only a thread that could not be started again brings the process down.
THEOREM OnlyFailuresCrash ==
    ASSUME ~InitFails
    PROVE  Spec => [](mpc # "crashed")
<1>1. IInv => mpc # "crashed"
  BY DEF IInv, MainInv, Phases
<1> QED
  BY <1>1, Invariant, PTL

\* free_input_thread frees empty queues only.
THEOREM QueuesDrained == Spec => []FreedQueueEmpty
BY Invariant, IInvImplies, PTL

\* The main thread and an input thread never wait for each other.
THEOREM NoMutualWait == Spec => []NoBothAsleep
BY Invariant, IInvImplies, PTL

\* The main thread waits only for the thread of the file it works on, and that
\* one runs; it never has to wait in pthread_join; and an input thread that
\* waits has a full queue nobody else sleeps on, which the main thread reads or
\* closes.  So whoever waits, somebody goes on.
WaitsForRunner ==
    \A f \in Files :
        /\ Main \in Asleep(queue[f]) => f = cur /\ Alive(f) /\ Running(f)
        /\ mpc = "join" /\ f = cur => tpc[f] = "exited"
        /\ Alive(f) /\ ~Running(f) =>
              /\ SendWaits(queue[f]) /\ queue[f].fifo # <<>>
              /\ Main \notin Asleep(queue[f])
              /\ mpc # "done"

\* For any number of files no thread waits in vain.
THEOREM NobodyWaitsInVain == Spec => []WaitsForRunner
<1>1. IInv => WaitsForRunner
  <2> SUFFICES ASSUME IInv, NEW f \in Files
               PROVE  /\ Main \in Asleep(queue[f]) => f = cur /\ Alive(f) /\ Running(f)
                      /\ mpc = "join" /\ f = cur => tpc[f] = "exited"
                      /\ Alive(f) /\ ~Running(f) =>
                            /\ SendWaits(queue[f]) /\ queue[f].fifo # <<>>
                            /\ Main \notin Asleep(queue[f])
                            /\ mpc # "done"
    BY DEF WaitsForRunner
  <2>1. ThreadQueue(f) /\ SleepOk(f) /\ Phases /\ NoBothAsleep
    BY IInvImplies DEF IInv, FileInvs, FileInv, MainInv
  <2>2. /\ queue[f].cond_send \subseteq {f} /\ queue[f].cond_recv \subseteq {Main}
        /\ queue[f].fifo \in Seq(Packets)
    BY DEF IInv, TypeInv, QueueTypes, QueueType
  <2>3. Main # f
    BY InputAssumption DEF Main, Files
  <2>4. CASE Main \in Asleep(queue[f])
    <3>1. queue[f].cond_recv # {} /\ queue[f].cond_send = {}
      BY <2>1, <2>2, <2>3, <2>4 DEF Asleep, NoBothAsleep
    <3>2. f = cur /\ Alive(f) /\ f \notin Asleep(queue[f])
      BY <2>1, <2>2, <2>3, <3>1 DEF SleepOk, NoBothAsleep, Asleep
    <3> QED
      BY <2>1, <3>2 DEF Running, Phases
  <2>5. CASE Main \notin Asleep(queue[f]) /\ Alive(f) /\ ~Running(f)
    <3>1. queue[f].cond_send # {}
      BY <2>2, <2>3, <2>5 DEF Running, Asleep
    <3>2. SendWaits(queue[f]) /\ tpc[f] = "send"
      BY <2>1, <3>1 DEF SleepOk
    <3>3. queue[f].nelem = thread_queue_size /\ mpc # "done"
      BY <2>1, <3>2 DEF ThreadQueue, Phases
    <3>4. queue[f].fifo # <<>>
      BY <3>2, <3>3, InputAssumption DEF SendWaits
    <3> QED
      BY <2>1, <2>5, <3>2, <3>3, <3>4 DEF Phases
  <2> QED
    BY <2>1, <2>4, <2>5 DEF Phases
<1> QED
  BY <1>1, Invariant, PTL

-----------------------------------------------------------------------------
(* The threads implement the feed                                           *)

FeedSame == UNCHANGED <<nread, got, eof>> /\ Closed' = Closed

LEMMA FeedStutters == FeedSame => UNCHANGED Feed!vars
BY DEF FeedSame, Closed, Feed!vars

LEMMA FeedCloses ==
    ASSUME UNCHANGED <<nread, got, eof>>, Closed'
    PROVE  Feed!Next
BY DEF Closed, Feed!Next, Feed!Close

LEMMA FeedEnds ==
    ASSUME NEW f \in Files, ~Closed, ~Closed', ~eof[f], Len(got[f]) = nread[f],
           eof' = [eof EXCEPT ![f] = TRUE], UNCHANGED <<nread, got>>
    PROVE  Feed!Next
<1>1. Feed!End(f)
  BY DEF Closed, Feed!End
<1> QED
  BY <1>1 DEF Feed!Next

\* What the main thread finds when it reads the file f: nothing has been freed,
\* and all that was returned is delivered, but for the queue and the thread.
LEMMA ReadsFeed ==
    ASSUME IInv, NEW f \in Files, f = cur, mpc = "recv"
    PROVE  /\ ~Closed /\ ~eof[f] /\ freed[f] = 0
           /\ Queued(f) # 0 => /\ queue[f].fifo[1] = Len(got[f]) + 1
                               /\ Len(got[f]) < nread[f]
           /\ Queued(f) = 0 /\ pkt[f] = 0 => Len(got[f]) = nread[f]
<1>1. ~Closed /\ ~eof[f]
  BY AboutMain DEF Closed, Restarts
<1>2. freed[f] = 0 /\ FeedOk(f)
  BY <1>1, AboutFile DEF FeedOk
<1>3. /\ Queued(f) \in Nat /\ Delivered(f) \in Nat /\ nread[f] \in Nat
      /\ pkt[f] = 0 => nread[f] = Delivered(f) + Queued(f) + freed[f]
      /\ pkt[f] # 0 => nread[f] = Delivered(f) + Queued(f) + freed[f] + 1
  BY AboutFile
<1>4. Queued(f) # 0 => Delivered(f) < nread[f]
  BY <1>2, <1>3
<1>5. Queued(f) # 0 => queue[f].fifo[1] = Delivered(f) + 1
  BY <1>2, <1>3 DEF FeedOk
<1>6. Queued(f) = 0 /\ pkt[f] = 0 => Delivered(f) = nread[f]
  BY <1>2, <1>3
<1> QED
  BY <1>1, <1>2, <1>4, <1>5, <1>6 DEF Delivered

\* EAGAIN, or an error after the last packet.
LEMMA NoPacketFeeds ==
    ASSUME IInv, NEW f \in Files, f = cur, mpc = "recv", UNCHANGED nread,
           GotEagain \/ (GotError /\ Queued(f) = 0 /\ pkt[f] = 0)
    PROVE  Feed!Next \/ FeedSame
<1>1. ~Closed /\ ~eof[f]
  BY ReadsFeed
<1>2. CASE GotEagain
  BY <1>1, <1>2 DEF GotEagain, FeedSame, Closed
<1>3. CASE GotError /\ Queued(f) = 0 /\ pkt[f] = 0
  <2>1. Len(got[f]) = nread[f]
    BY <1>3, ReadsFeed
  <2>2. CASE mpc' = "free" /\ restarting' = TRUE /\ UNCHANGED <<eof, got>>
    BY <1>1, <2>2 DEF FeedSame, Closed
  <2>3. CASE /\ mpc' = "loop" /\ restarting' = FALSE /\ UNCHANGED got
             /\ eof' = [eof EXCEPT ![f] = TRUE]
    <3>1. ~Closed'
      BY <2>3 DEF Closed
    <3> QED
      BY <1>1, <2>1, <2>3, <3>1, FeedEnds
  <2> QED
    BY <1>3, <2>2, <2>3 DEF GotError
<1> QED
  BY <1>2, <1>3

LEMMA ThreadFeeds ==
    ASSUME IInv, NEW f \in Files, input_thread(f) \/ SpuriousWakeup(f)
    PROVE  Feed!Next \/ FeedSame
<1>1. UNCHANGED <<mpc, restarting, got, eof>>
  BY DEF input_thread, SpuriousWakeup, read_frame, send_packet, end_thread, main
<1>2. Closed' = Closed
  BY <1>1 DEF Closed
<1>3. CASE UNCHANGED nread
  BY <1>1, <1>2, <1>3 DEF FeedSame
<1>4. CASE nread[f] < MaxPackets /\ nread' = [nread EXCEPT ![f] = @ + 1]
  <2>1. Feed!Produce(f)
    BY <1>1, <1>2, <1>4 DEF Feed!Produce
  <2> QED
    BY <2>1 DEF Feed!Next
<1> QED
  BY <1>3, <1>4 DEF input_thread, SpuriousWakeup, read_frame, send_packet, end_thread

LEMMA PacketFeeds ==
    ASSUME IInv, NEW f \in Files, f = cur, get_input_packet_mt \/ get_input_packet
    PROVE  Feed!Next \/ FeedSame
<1>1. mpc = "recv"
  BY DEF get_input_packet_mt, get_input_packet
<1>2. ~Closed /\ ~eof[f]
  BY <1>1, ReadsFeed
<1>3. CASE get_input_packet_mt
  <2>1. UNCHANGED nread
    BY <1>3 DEF get_input_packet_mt
  <2>2. CASE GotEagain
    BY <1>1, <2>1, <2>2, NoPacketFeeds
  <2>3. CASE UNCHANGED <<mpc, restarting, eof, got>>
    BY <2>1, <2>3 DEF FeedSame, Closed
  <2>4. CASE RecvFails(queue[cur]) /\ GotError
    <3>1. Queued(f) = 0 /\ pkt[f] = 0
      BY <2>4, AboutFile DEF RecvFails, ThreadQueue
    <3> QED
      BY <1>1, <2>1, <2>4, <3>1, NoPacketFeeds
  <2>5. CASE queue[cur].fifo # <<>> /\ GotPacket(Head(queue[cur].fifo))
    <3>1. /\ Queued(f) # 0 /\ Len(got[f]) < nread[f]
          /\ queue[f].fifo[1] = Len(got[f]) + 1
      BY <1>1, <2>5, AboutFile, ReadsFeed
    <3>2. Head(queue[f].fifo) = Len(got[f]) + 1
      BY <3>1
    <3>3. /\ got' = [got EXCEPT ![f] = Append(@, Len(@) + 1)]
          /\ UNCHANGED <<eof, nread>> /\ mpc' = "loop"
      BY <2>1, <2>5, <3>2 DEF GotPacket
    <3>4. Feed!Deliver(f)
      BY <1>2, <3>1, <3>3 DEF Feed!Deliver, Closed
    <3> QED
      BY <3>4 DEF Feed!Next
  <2> QED
    BY <1>3, <2>2, <2>3, <2>4, <2>5 DEF get_input_packet_mt
<1>4. CASE get_input_packet
  <2>1. tpc[f] = "none" /\ queue[f] = NoQueue
    BY <1>4, AboutFile DEF get_input_packet, ThreadQueue
  <2>2. Queued(f) = 0 /\ pkt[f] = 0
    BY <2>1, AboutFile DEF ThreadQueue, NoQueue
  <2>3. Len(got[f]) = nread[f]
    BY <1>1, <2>2, ReadsFeed
  <2>4. CASE GotError /\ UNCHANGED nread
    BY <1>1, <2>2, <2>4, NoPacketFeeds
  <2>5. CASE /\ nread[cur] < MaxPackets
             /\ nread' = [nread EXCEPT ![cur] = @ + 1]
             /\ GotPacket(nread'[cur])
    <3>1. nread'[f] = Len(got[f]) + 1
      <4>1. nread \in [Files -> 0..MaxPackets]
        BY AboutMain DEF TypeInv, ThreadTypes
      <4> QED
        BY <2>3, <2>5, <4>1
    <3>2. /\ got' = [got EXCEPT ![f] = Append(@, Len(@) + 1)]
          /\ UNCHANGED eof /\ mpc' = "loop"
      BY <2>5, <3>1 DEF GotPacket
    <3>3. Feed!Pull(f)
      BY <1>2, <2>3, <2>5, <3>2 DEF Feed!Pull, Closed
    <3> QED
      BY <3>3 DEF Feed!Next
  <2> QED
    BY <1>4, <2>4, <2>5 DEF get_input_packet
<1> QED
  BY <1>3, <1>4

LEMMA SeekFeeds ==
    ASSUME IInv, NEW f \in Files, f = cur, seek_to_start
    PROVE  Feed!Next \/ FeedSame
<1>1. mpc = "seek" /\ restarting /\ ~Closed
  BY AboutMain, MainParts DEF seek_to_start, Closed
<1>2. ~eof[f] /\ Len(got[f]) = nread[f]
  BY <1>1, AboutMain DEF Restarts
<1>3. Closed' \in BOOLEAN
  BY DEF Closed
<1>4. CASE Sought /\ UNCHANGED eof
  <2>1. Feed!Rewind(f)
    BY <1>1, <1>2, <1>3, <1>4 DEF Feed!Rewind, Sought
  <2> QED
    BY <2>1 DEF Feed!Next
<1>5. CASE /\ eof' = [eof EXCEPT ![f] = TRUE] /\ mpc' = "loop"
           /\ UNCHANGED <<nread, got>>
  <2>1. ~Closed'
    BY <1>5 DEF Closed
  <2> QED
    BY <1>1, <1>2, <1>5, <2>1, FeedEnds
<1>6. CASE UNCHANGED <<nread, eof, got>>
  <2>1. CASE Closed'
    BY <1>6, <2>1, FeedCloses
  <2>2. CASE ~Closed'
    BY <1>1, <1>6, <2>2 DEF FeedSame, Closed
  <2> QED
    BY <2>1, <2>2
<1> QED
  BY <1>4, <1>5, <1>6 DEF seek_to_start

LEMMA FeedStep == IInv /\ [Next]_vars => [Feed!Next]_(Feed!vars)
<1> SUFFICES ASSUME IInv, [Next]_vars PROVE Feed!Next \/ FeedSame
  BY FeedStutters
<1>1. PICK f \in Files : f = cur
  BY AboutMain
<1>2. CASE \E g \in Files : input_thread(g) \/ SpuriousWakeup(g)
  BY <1>2, ThreadFeeds
<1>3. CASE init_input_threads \/ choose_input \/ leave_loop
  <2>1. UNCHANGED <<nread, eof, got>> /\ ~Closed
    BY <1>3 DEF init_input_threads, choose_input, leave_loop, Closed
  <2>2. CASE Closed'
    BY <2>1, <2>2, FeedCloses
  <2>3. CASE ~Closed'
    BY <2>1, <2>3 DEF FeedSame, Closed
  <2> QED
    BY <2>2, <2>3
<1>4. CASE get_input_packet_mt \/ get_input_packet
  BY <1>1, <1>4, PacketFeeds
<1>5. CASE not_now
  <2>1. mpc = "recv" /\ GotEagain /\ UNCHANGED nread
    BY <1>5 DEF not_now
  <2> QED
    BY <1>1, <2>1, NoPacketFeeds
<1>9. CASE recv_freed_queue
  BY <1>9, FeedCloses DEF recv_freed_queue, Closed
<1>6. CASE free_input_thread \/ drain_queue \/ join_thread
  <2>1. /\ mpc \in {"free", "drain", "join"}
        /\ UNCHANGED <<nread, eof, got, restarting>>
    BY <1>6 DEF free_input_thread, drain_queue, join_thread
  <2>2. restarting \in BOOLEAN
    BY AboutMain, MainParts
  <2>3. mpc' \in {"seek", "free", "drain", "join", "done"} /\ (mpc' = "seek" => restarting)
    BY <1>6 DEF free_input_thread, drain_queue, join_thread, AfterFree
  <2>4. Closed' = Closed
    <3>1. CASE restarting
      BY <2>1, <3>1 DEF Closed
    <3>2. CASE ~restarting
      BY <2>1, <2>3, <3>2 DEF Closed
    <3> QED
      BY <3>1, <3>2
  <2> QED
    BY <2>1, <2>4 DEF FeedSame
<1>7. CASE seek_to_start
  BY <1>1, <1>7, SeekFeeds
<1>8. CASE UNCHANGED vars
  BY <1>8 DEF vars, main, FeedSame, Closed
<1> QED
  BY <1>2, <1>3, <1>4, <1>5, <1>6, <1>7, <1>8, <1>9 DEF Next, main_thread

\* The main loop gets each file's packets in order, none left out, then its end,
\* as if it read the files itself.
THEOREM FeedImplemented == Spec => ImplementsFeed
<1>1. Init => Feed!Init
  BY DEF Init, Feed!Init, Closed
<1> QED
  BY <1>1, Invariant, FeedStep, PTL DEF Spec, ImplementsFeed, Feed!Spec

-----------------------------------------------------------------------------
(* Every step makes progress                                                *)

\* LosesNothing, but for what is lost of one file; and of all of them.
Keeps(g) ==
    /\ eof[g] => eof'[g]
    /\ loop'[g] <= loop[g]
    /\ loop'[g] = loop[g] =>
          /\ nread[g] <= nread'[g] /\ Handled(g) <= Handled(g)'
          /\ Len(got[g]) <= Len(got'[g]) /\ freed[g] <= freed'[g]

Keeping == (Closed => Closed') /\ \A g \in Files : Keeps(g)

LEMMA KeepsAll ==
    ASSUME Closed => Closed', \A g \in Files : Keeps(g)
    PROVE  Keeping
BY DEF Keeping

LEMMA HandledIs ==
    /\ \A g \in Files : Handled(g) = Delivered(g) + Queued(g) + freed[g]
    /\ \A g \in Files : Handled(g)' = Delivered(g)' + Queued(g)' + freed'[g]
BY DEF Handled, Delivered, Queued

\* A file whose counts stay or grow by one keeps what it has.
LEMMA FileKeeps ==
    ASSUME IInv, NEW g \in Files, loop'[g] = loop[g], eof[g] => eof'[g],
           Delivered(g)' = Delivered(g),
           nread'[g] \in {nread[g], nread[g] + 1},
           Queued(g)' \in {Queued(g), Queued(g) + 1},
           freed'[g] \in {freed[g], freed[g] + 1}
    PROVE  Keeps(g)
<1>1. /\ Queued(g) \in Nat /\ Delivered(g) \in Nat
      /\ freed[g] \in Nat /\ nread[g] \in Nat
  BY AboutFile
<1>2. loop[g] \in Nat
  BY AboutMain, MainParts
<1>3. Handled(g) <= Handled(g)'
  BY <1>1, HandledIs
<1>4. Len(got[g]) = Delivered(g) /\ Len(got'[g]) = Delivered(g)'
  BY DEF Delivered
<1> QED
  BY <1>1, <1>2, <1>3, <1>4 DEF Keeps

\* A packet that passes from one place to the next is still counted.
LEMMA FileMoves ==
    ASSUME IInv, NEW g \in Files, loop'[g] = loop[g], eof'[g] = eof[g],
           nread'[g] = nread[g], Queued(g)' = Queued(g) - 1,
           \/ Delivered(g)' = Delivered(g) + 1 /\ freed'[g] = freed[g]
           \/ Delivered(g)' = Delivered(g) /\ freed'[g] = freed[g] + 1
    PROVE  Keeps(g)
<1>1. /\ Queued(g) \in Nat /\ Delivered(g) \in Nat
      /\ freed[g] \in Nat /\ nread[g] \in Nat
  BY AboutFile
<1>2. loop[g] \in Nat
  BY AboutMain, MainParts
<1>3. Handled(g) <= Handled(g)'
  BY <1>1, HandledIs
<1>4. Len(got[g]) = Delivered(g) /\ Len(got'[g]) = Delivered(g)'
  BY DEF Delivered
<1> QED
  BY <1>1, <1>2, <1>3, <1>4 DEF Keeps

\* A step that touches none of the counts loses nothing.
LEMMA AllKeep ==
    ASSUME IInv, UNCHANGED <<loop, nread, got, freed>>, Closed => Closed',
           \A g \in Files : eof[g] => eof'[g],
           \A g \in Files : Queued(g)' = Queued(g)
    PROVE  Keeping
<1>1. \A g \in Files : Keeps(g)
  BY FileKeeps DEF Delivered
<1> QED
  BY <1>1, KeepsAll

LEMMA LeftValue ==
    /\ mpc = "init" => Left = 4 * nb_input_files + 5 + 4 * (nb_input_files - cur)
    /\ mpc = "loop" => Left = 4 * nb_input_files + 5
    /\ mpc = "recv" => Left = 4 * nb_input_files + 4
    /\ mpc = "free" => Left = 4 * (nb_input_files - cur) + 3
    /\ mpc = "drain" => Left = 4 * (nb_input_files - cur) + 2
    /\ mpc = "join" => Left = 4 * (nb_input_files - cur) + 1
    /\ mpc \in {"seek", "done", "crashed"} => Left = 0
BY DEF Left

LEMMA LeftNext ==
    ASSUME UNCHANGED nb_input_files
    PROVE  /\ mpc' = "init" => Left' = 4 * nb_input_files + 5 + 4 * (nb_input_files - cur')
           /\ mpc' = "loop" => Left' = 4 * nb_input_files + 5
           /\ mpc' = "recv" => Left' = 4 * nb_input_files + 4
           /\ mpc' = "free" => Left' = 4 * (nb_input_files - cur') + 3
           /\ mpc' = "drain" => Left' = 4 * (nb_input_files - cur') + 2
           /\ mpc' = "join" => Left' = 4 * (nb_input_files - cur') + 1
           /\ mpc' \in {"seek", "done", "crashed"} => Left' = 0
BY DEF Left

\* The control points of the main thread come in descending order.
LEMMA LeftDown ==
    ASSUME IInv, UNCHANGED nb_input_files,
           \/ /\ mpc = "init" /\ mpc' = "init" /\ cur' = cur + 1
           \/ /\ mpc = "init" /\ mpc' = "loop"
           \/ /\ mpc = "loop" /\ mpc' = "recv"
           \/ /\ mpc = "recv" /\ mpc' = "free" /\ cur' = cur
           \/ /\ mpc = "free" /\ mpc' = "drain" /\ cur' = cur
           \/ /\ mpc = "drain" /\ mpc' = "join" /\ cur' = cur
           \/ /\ mpc \in {"free", "join"} /\ mpc' = "free" /\ cur' = cur + 1
           \/ /\ mpc \in {"free", "join"} /\ mpc' \in {"seek", "done"}
    PROVE  Descends
<1>1. nb_input_files \in Nat /\ cur \in Nat /\ cur < nb_input_files
  BY AboutMain DEF Open
<1>2. Left' < Left
  BY <1>1, LeftValue, LeftNext
<1> QED
  BY <1>2 DEF Descends

\* One more thread sleeps, and nothing else has changed.
LEMMA FallsAsleep ==
    ASSUME NEW f \in Files, NEW t, t \notin Asleep(queue[f]),
           Asleep(queue'[f]) = Asleep(queue[f]) \cup {t},
           \A g \in Files : g # f => queue'[g] = queue[g],
           UNCHANGED <<nb_input_files, mpc, cur, tpc, flags>>
    PROVE  Descends
<1>1. Left' = Left
  BY DEF Left
<1>2. Patient' = Patient
  BY DEF Patient
<1>3. \A g \in Files : Asleep(queue[g]) \subseteq Asleep(queue'[g])
  BY DEF Asleep
<1>4. Sleepers \subseteq Sleepers'
  BY <1>3 DEF Sleepers
<1>5. <<f, t>> \in Sleepers' /\ <<f, t>> \notin Sleepers
  BY DEF Sleepers
<1> QED
  BY <1>1, <1>2, <1>4, <1>5 DEF Descends


-----------------------------------------------------------------------------
(* ... of the input threads                                                 *)

LEMMA ThreadKeeps ==
    ASSUME IInv, NEW f \in Files, input_thread(f) \/ SpuriousWakeup(f)
    PROVE  Keeping
<1>1. TypeInv /\ ThreadQueue(f)
  BY AboutMain, AboutFile
<1>2. /\ Elsewhere(f)
      /\ Waits(f) \/ Reads(f) \/ GivesUp(f) \/ Sends(f) \/ Exits(f)
  BY <1>1, ThreadCases
<1>3. UNCHANGED <<nb_input_files, mpc, cur, restarting, loop, got, eof>>
  BY <1>2 DEF Elsewhere, main
<1>4. /\ nread'[f] \in {nread[f], nread[f] + 1}
      /\ freed'[f] \in {freed[f], freed[f] + 1}
  BY <1>2 DEF Waits, Reads, GivesUp, Sends, Exits
<1>5. Queued(f)' \in {Queued(f), Queued(f) + 1}
  <2>1. CASE queue'[f].fifo = queue[f].fifo
    BY <2>1 DEF Queued
  <2>2. CASE Sends(f)
    <3>1. queue[f].fifo \in Seq(Packets) /\ pkt[f] \in Packets
      BY <2>2, AboutFile DEF Sends
    <3>2. Len(queue'[f].fifo) = Len(queue[f].fifo) + 1
      BY <2>2, <3>1 DEF Sends
    <3> QED
      BY <3>2 DEF Queued
  <2> QED
    BY <1>2, <2>1, <2>2 DEF Waits, SameMessages, Reads, GivesUp, Exits
<1>6. \A g \in Files : Delivered(g)' = Delivered(g)
  BY <1>3 DEF Delivered
<1>7. Keeps(f)
  BY <1>3, <1>4, <1>5, <1>6, FileKeeps
<1>8. \A g \in Files : g # f => Keeps(g)
  <2> SUFFICES ASSUME NEW g \in Files, g # f PROVE Keeps(g)
    OBVIOUS
  <2>1. /\ Queued(g)' = Queued(g) /\ nread'[g] = nread[g] /\ freed'[g] = freed[g]
    BY <1>2 DEF Elsewhere, Queued
  <2> QED
    BY <1>3, <1>6, <2>1, FileKeeps
<1>9. Closed' = Closed
  BY <1>3 DEF Closed
<1> QED
  BY <1>7, <1>8, <1>9, KeepsAll

\* A thread that gives up or is over is nearer its end.
LEMMA ThreadAhead ==
    ASSUME NEW f \in Files, UNCHANGED <<nb_input_files, mpc, cur>>,
           \A g \in Files : g # f => tpc'[g] = tpc[g],
           \/ tpc[f] \in {"read", "send"} /\ tpc'[f] = "fail"
           \/ tpc[f] = "fail" /\ tpc'[f] = "exited"
    PROVE  Descends
<1>1. Left' = Left
  BY DEF Left
<1>2. Ahead(f)' < Ahead(f)
  BY DEF Ahead
<1>3. \A g \in Files \ {f} : Ahead(g)' = Ahead(g)
  BY DEF Ahead
<1> QED
  BY <1>1, <1>2, <1>3 DEF Descends

\* A thread that has to wait gives up AV_THREAD_MESSAGE_NONBLOCK or sleeps.
LEMMA SendProgress ==
    ASSUME IInv, NEW f \in Files, send_packet(f), Waits(f)
    PROVE  Descends
<1>1. UNCHANGED <<nb_input_files, mpc, cur>> /\ tpc[f] = "send"
  BY DEF send_packet, main
<1>2. /\ queue[f] \in QueueType /\ queue[f].cond_send \subseteq {f}
      /\ queue \in [Files -> QueueType]
  BY AboutFile DEF IInv, TypeInv, QueueTypes
<1>3. /\ tpc \in [Files -> {"none", "read", "send", "fail", "exited"}]
      /\ flags \in [Files -> BOOLEAN]
  BY AboutMain DEF TypeInv, ThreadTypes
<1>4. tpc'[f] = "send"
  BY <1>1 DEF Waits
<1>5. CASE flags[f] /\ flags' = [flags EXCEPT ![f] = FALSE] /\ tpc' = tpc
  <2>1. Left' = Left
    BY <1>1 DEF Left
  <2>2. f \in Patient' /\ f \notin Patient
    BY <1>3, <1>5 DEF Patient
  <2>3. Patient \subseteq Patient'
    BY <1>3, <1>5 DEF Patient
  <2> QED
    BY <1>5, <2>1, <2>2, <2>3 DEF Descends
<1>6. CASE queue' = [queue EXCEPT ![f] = SleepSend(@, f)] /\ tpc' = tpc /\ flags' = flags
  <2>1. /\ queue'[f] = [queue[f] EXCEPT !.cond_send = {f}]
        /\ \A g \in Files : g # f => queue'[g] = queue[g]
    BY <1>2, <1>6, SleepValue
  <2>2. f \notin Asleep(queue[f])
    BY DEF send_packet, Running
  <2>3. Asleep(queue'[f]) = Asleep(queue[f]) \cup {f}
    BY <1>2, <2>1, <2>2 DEF Asleep, QueueType
  <2> QED
    BY <1>1, <1>6, <2>1, <2>2, <2>3, FallsAsleep
<1>7. tpc' # [tpc EXCEPT ![f] = "fail"] /\ tpc' # [tpc EXCEPT ![f] = "read"]
  BY <1>3, <1>4
<1> QED
  BY <1>5, <1>6, <1>7 DEF send_packet

LEMMA ThreadProgress ==
    ASSUME IInv, NEW f \in Files, input_thread(f)
    PROVE  Gains \/ Descends \/ UNCHANGED vars
<1>1. TypeInv /\ ThreadQueue(f)
  BY AboutMain, AboutFile
<1>2. /\ Elsewhere(f)
      /\ Waits(f) \/ Reads(f) \/ GivesUp(f) \/ Sends(f) \/ Exits(f)
  BY <1>1, ThreadCases
<1>3. UNCHANGED <<nb_input_files, mpc, cur, got>>
  BY <1>2 DEF Elsewhere, main
<1>4. \A g \in Files : g # f => tpc'[g] = tpc[g]
  BY <1>2 DEF Elsewhere
<1>5. CASE Reads(f)
  <2>1. nread'[f] > nread[f]
    BY <1>5, AboutFile DEF Reads
  <2> QED
    BY <2>1 DEF Gains
<1>6. CASE GivesUp(f) \/ Exits(f)
  BY <1>3, <1>4, <1>6, ThreadAhead DEF GivesUp, Exits
<1>7. CASE Sends(f)
  <2>1. /\ queue[f].fifo \in Seq(Packets) /\ pkt[f] \in Packets
        /\ Queued(f) \in Nat /\ Delivered(f) \in Nat /\ freed[f] \in Nat
    BY <1>7, AboutFile DEF Sends
  <2>2. Len(queue'[f].fifo) = Len(queue[f].fifo) + 1
    BY <1>7, <2>1 DEF Sends
  <2>3. /\ Queued(f)' = Queued(f) + 1 /\ Delivered(f)' = Delivered(f)
        /\ freed'[f] = freed[f]
    BY <1>3, <1>7, <2>2 DEF Queued, Delivered, Sends
  <2>4. Handled(f)' > Handled(f)
    BY <2>1, <2>3, HandledIs
  <2> QED
    BY <2>4 DEF Gains
<1>8. CASE Waits(f)
  <2>1. CASE send_packet(f)
    BY <1>8, <2>1, SendProgress
  <2>2. CASE read_frame(f)
    <3>1. /\ tpc[f] = "read" /\ tpc'[f] = "read"
          /\ UNCHANGED <<nb_input_files, queue, flags, main, freed>>
      BY <1>8, <2>2 DEF read_frame, Waits
    <3>2. tpc \in [Files -> {"none", "read", "send", "fail", "exited"}]
      BY <1>1 DEF TypeInv, ThreadTypes
    <3>3. tpc' # [tpc EXCEPT ![f] = "fail"] /\ tpc' # [tpc EXCEPT ![f] = "send"]
      BY <3>1, <3>2
    <3>4. UNCHANGED <<nread, pkt, tpc, tret>>
      BY <2>2, <3>3 DEF read_frame
    <3> QED
      BY <3>1, <3>4 DEF vars, thread
  <2>3. CASE end_thread(f)
    <3>1. tpc \in [Files -> {"none", "read", "send", "fail", "exited"}]
      BY <1>1 DEF TypeInv, ThreadTypes
    <3>2. tpc[f] = "fail" /\ tpc'[f] = "exited"
      BY <2>3, <3>1 DEF end_thread
    <3> QED
      BY <1>8, <3>2 DEF Waits
  <2> QED
    BY <2>1, <2>2, <2>3 DEF input_thread
<1> QED
  BY <1>2, <1>5, <1>6, <1>7, <1>8

-----------------------------------------------------------------------------
(* ... and of the main thread                                               *)

Goes == Keeping /\ (Gains \/ Descends \/ Idles)

\* A new queue is as empty as no queue.
LEMMA StartKeeps ==
    ASSUME IInv, NEW f \in Files, tpc[f] = "none", Start(f)
    PROVE  \A g \in Files : Queued(g)' = Queued(g)
<1>1. queue \in [Files -> QueueType] /\ queue[f] = NoQueue
  BY AboutFile DEF IInv, TypeInv, QueueTypes, ThreadQueue
<1>2. /\ queue'[f] = NewQueue(thread_queue_size)
      /\ \A g \in Files : g # f => queue'[g] = queue[g]
  BY <1>1 DEF Start
<1>3. Queued(f)' = 0 /\ Queued(f) = 0
  BY <1>1, <1>2 DEF Queued, NewQueue, NoQueue
<1> QED
  BY <1>2, <1>3 DEF Queued

LEMMA SameQueues ==
    ASSUME UNCHANGED queue
    PROVE  \A g \in Files : Queued(g)' = Queued(g)
BY DEF Queued

\* The last part of the clean-up of a file.
LEMMA AfterFreeProgress ==
    ASSUME IInv, mpc \in {"free", "join"}, AfterFree,
           UNCHANGED <<nb_input_files, restarting>>
    PROVE  Descends /\ (Closed => Closed')
<1>1. CASE restarting
  <2>1. mpc' = "seek" /\ ~Closed
    BY <1>1 DEF AfterFree, Closed
  <2> QED
    BY <2>1, LeftDown
<1>2. CASE ~restarting
  <2>1. \/ mpc' = "free" /\ cur' = cur + 1
        \/ mpc' = "done"
    BY <1>2 DEF AfterFree
  <2>2. Closed'
    BY <1>2, <2>1 DEF Closed
  <2> QED
    BY <2>1, <2>2, LeftDown
<1> QED
  BY <1>1, <1>2

\* The main thread sleeps only while it is awake.
LEMMA MainSleeps ==
    ASSUME IInv, main_thread,
           queue' = [queue EXCEPT ![cur] = SleepRecv(@, Main)],
           UNCHANGED <<nb_input_files, thread, nread, main, freed>>
    PROVE  Goes
<1>1. PICK f \in Files : f = cur
  BY AboutMain
<1>2. /\ queue \in [Files -> QueueType] /\ queue[f] \in QueueType
      /\ queue[f].cond_send \subseteq {f} /\ queue[f].cond_recv = {}
  BY <1>1, AboutFile, MainAwake DEF IInv, TypeInv, QueueTypes
<1>3. /\ queue'[f] = [queue[f] EXCEPT !.cond_recv = {Main}]
      /\ \A g \in Files : g # f => queue'[g] = queue[g]
  BY <1>1, <1>2, SleepValue
<1>4. Main # f
  BY InputAssumption DEF Main, Files
<1>5. Main \notin Asleep(queue[f])
  BY <1>2, <1>4 DEF Asleep
<1>6. Asleep(queue'[f]) = Asleep(queue[f]) \cup {Main}
  BY <1>2, <1>3 DEF Asleep, QueueType
<1>7. UNCHANGED <<mpc, cur, restarting, loop, eof, got, tpc, flags>>
  BY DEF main, thread
<1>8. Descends
  BY <1>3, <1>5, <1>6, <1>7, FallsAsleep
<1>9. queue'[f].fifo = queue[f].fifo
  BY <1>2, <1>3 DEF QueueType
<1>10. \A g \in Files : Queued(g)' = Queued(g)
  BY <1>3, <1>9 DEF Queued
<1>11. Closed' = Closed
  BY <1>7 DEF Closed
<1>12. Keeping
  BY <1>7, <1>10, <1>11, AllKeep
<1> QED
  BY <1>8, <1>12 DEF Goes

LEMMA InitThreadsGo ==
    ASSUME IInv, init_input_threads
    PROVE  Goes
<1>1. /\ mpc = "init" /\ ~restarting /\ ~Closed
      /\ UNCHANGED <<nb_input_files, nread, restarting, loop, eof, got, freed>>
      /\ cur \in Files /\ tpc[cur] = "none" /\ cur \in Nat /\ cur \in Open
      /\ nb_input_files \in Nat
  BY AboutMain, MainParts DEF init_input_threads, Closed, Phases
<1>2. \A g \in Files : Queued(g)' = Queued(g)
  <2>1. CASE Start(cur)
    BY <1>1, <2>1, StartKeeps
  <2>2. CASE UNCHANGED queue
    BY <2>2, SameQueues
  <2> QED
    BY <2>1, <2>2 DEF init_input_threads
<1>3. Keeping
  BY <1>1, <1>2, AllKeep
<1>4. CASE mpc' = "free"
  <2>1. Closed'
    BY <1>1, <1>4 DEF Closed
  <2> QED
    BY <1>1, <1>3, <2>1 DEF Goes, Gains
<1>5. CASE mpc' = "loop"
  BY <1>1, <1>3, <1>5, LeftDown DEF Goes
<1>6. CASE mpc' = "init" /\ cur' = cur + 1
  BY <1>1, <1>3, <1>6, LeftDown DEF Goes
<1> QED
  BY <1>1, <1>4, <1>5, <1>6 DEF init_input_threads

LEMMA ChooseGoes ==
    ASSUME IInv, choose_input \/ leave_loop
    PROVE  Goes
<1>1. /\ mpc = "loop" /\ ~restarting /\ ~Closed
      /\ UNCHANGED <<nb_input_files, queue, nread, restarting, loop, eof, got, freed>>
  BY AboutMain, MainParts DEF choose_input, leave_loop, Closed
<1>2. Keeping
  BY <1>1, SameQueues, AllKeep
<1>3. CASE mpc' = "recv"
  BY <1>1, <1>2, <1>3, LeftDown DEF Goes
<1>4. CASE mpc' = mpc /\ \E f \in Files : eagain[f]
  BY <1>1, <1>2, <1>4 DEF Goes, Idles
<1>5. CASE mpc' = "free"
  <2>1. Closed'
    BY <1>1, <1>5 DEF Closed
  <2> QED
    BY <1>1, <1>2, <2>1 DEF Goes, Gains
<1> QED
  BY <1>3, <1>4, <1>5 DEF choose_input, leave_loop

LEMMA NoPacketGoes ==
    ASSUME IInv, mpc = "recv", GotEagain \/ GotError,
           UNCHANGED <<nb_input_files, queue, nread, cur, loop, freed>>
    PROVE  Goes
<1>1. PICK f \in Files : f = cur
  BY AboutMain
<1>2. ~Closed /\ ~eof[f] /\ eof \in [Files -> BOOLEAN]
  BY <1>1, AboutMain, MainParts DEF Closed, Restarts
<1>3. got' = got /\ \A g \in Files : eof[g] => eof'[g]
  BY <1>1, <1>2 DEF GotEagain, GotError
<1>4. Keeping
  BY <1>2, <1>3, SameQueues, AllKeep
<1>5. CASE GotEagain
  BY <1>4, <1>5 DEF Goes, Idles
<1>6. CASE GotError /\ mpc' = "free"
  BY <1>4, <1>6, LeftDown DEF Goes
<1>7. CASE GotError /\ eof' = [eof EXCEPT ![cur] = TRUE]
  <2>1. eof'[f] /\ ~eof[f]
    BY <1>1, <1>2, <1>7
  <2> QED
    BY <1>4, <2>1 DEF Goes, Gains
<1> QED
  BY <1>5, <1>6, <1>7 DEF GotError

\* The packet of one file has reached the main thread.
LEMMA PacketGot ==
    ASSUME IInv, NEW f \in Files, f = cur, NEW p \in Packets, GotPacket(p)
    PROVE  /\ Delivered(f)' = Delivered(f) + 1
           /\ \A g \in Files : g # f => Delivered(g)' = Delivered(g)
           /\ Gains
<1>1. got \in [Files -> Seq(Packets)] /\ got[f] \in Seq(Packets)
  BY AboutMain, MainParts
<1>2. got'[f] = Append(got[f], p) /\ \A g \in Files : g # f => got'[g] = got[g]
  BY <1>1 DEF GotPacket
<1>3. Len(got'[f]) = Len(got[f]) + 1 /\ Len(got[f]) \in Nat
  BY <1>1, <1>2
<1>4. Len(got'[f]) > Len(got[f])
  BY <1>3
<1> QED
  BY <1>2, <1>3, <1>4 DEF Delivered, Gains

LEMMA GetPacketMtGoes ==
    ASSUME IInv, get_input_packet_mt
    PROVE  Goes
<1>1. PICK f \in Files : f = cur
  BY AboutMain
<1>2. /\ mpc = "recv" /\ main_thread
      /\ UNCHANGED <<nb_input_files, thread, nread, cur, loop, freed>>
  BY DEF get_input_packet_mt, main_thread
<1>3. CASE (GotEagain \/ GotError) /\ UNCHANGED queue
  BY <1>2, <1>3, NoPacketGoes
<1>4. CASE /\ queue' = [queue EXCEPT ![cur] = SleepRecv(@, Main)]
           /\ UNCHANGED <<mpc, restarting, eagain, eof, got>>
  <2>1. UNCHANGED main
    BY <1>2, <1>4 DEF main
  <2> QED
    BY <1>2, <1>4, <2>1, MainSleeps
<1>5. CASE /\ queue[cur].fifo # <<>>
           /\ \E q \in Read(queue[cur]) : queue' = [queue EXCEPT ![cur] = q]
           /\ GotPacket(Head(queue[cur].fifo))
  <2>1. PICK q \in Read(queue[f]) : queue' = [queue EXCEPT ![f] = q]
    BY <1>1, <1>5
  <2>2. queue[f].fifo # <<>>
    BY <1>1, <1>5
  <2>3. /\ queue'[f] = q /\ \A g \in Files : g # f => queue'[g] = queue[g]
        /\ q.nelem = queue[f].nelem
        /\ q.err_send = queue[f].err_send /\ q.err_recv = queue[f].err_recv
        /\ q.cond_send = {} /\ q.cond_recv = queue[f].cond_recv
        /\ Queued(f) >= 1 /\ Queued(f)' = Queued(f) - 1
        /\ Head(queue[f].fifo) \in Packets
        /\ Head(queue[f].fifo) = queue[f].fifo[1]
        /\ \A k \in 1..(Queued(f) - 1) : q.fifo[k] = queue[f].fifo[k + 1]
        /\ tpc[f] # "none"
    BY <2>1, <2>2, ReadEffect
  <2>4. /\ Delivered(f)' = Delivered(f) + 1
        /\ \A g \in Files : g # f => Delivered(g)' = Delivered(g)
        /\ Gains
    BY <1>1, <1>5, <2>3, PacketGot
  <2>5. eof' = eof /\ ~Closed
    BY <1>2, <1>5 DEF GotPacket, Closed
  <2>6. Keeps(f)
    BY <1>2, <2>3, <2>4, <2>5, FileMoves
  <2>7. \A g \in Files : g # f => Queued(g)' = Queued(g)
    BY <2>3 DEF Queued
  <2>8. \A g \in Files : g # f => Keeps(g)
    BY <1>2, <2>4, <2>5, <2>7, FileKeeps
  <2>9. Keeping
    BY <2>5, <2>6, <2>8, KeepsAll
  <2> QED
    BY <2>4, <2>9 DEF Goes
<1> QED
  BY <1>3, <1>4, <1>5 DEF get_input_packet_mt

LEMMA GetPacketGoes ==
    ASSUME IInv, get_input_packet
    PROVE  Goes
<1>1. PICK f \in Files : f = cur
  BY AboutMain
<1>2. /\ mpc = "recv" /\ UNCHANGED <<nb_input_files, queue, thread, cur, loop, freed>>
  BY DEF get_input_packet
<1>3. CASE GotError /\ UNCHANGED nread
  BY <1>2, <1>3, NoPacketGoes
<1>4. CASE /\ nread[cur] < MaxPackets
           /\ nread' = [nread EXCEPT ![cur] = @ + 1]
           /\ GotPacket(nread'[cur])
  <2>1. nread \in [Files -> 0..MaxPackets] /\ nread[f] \in Nat /\ MaxPackets \in Nat
    BY AboutMain, AboutFile, InputAssumption DEF TypeInv, ThreadTypes
  <2>2. nread'[f] = nread[f] + 1 /\ \A g \in Files : g # f => nread'[g] = nread[g]
    BY <1>1, <1>4, <2>1
  <2>3. nread'[f] \in Packets
    BY <1>1, <1>4, <2>1, <2>2 DEF Packets
  <2>4. /\ Delivered(f)' = Delivered(f) + 1
        /\ \A g \in Files : g # f => Delivered(g)' = Delivered(g)
        /\ Gains
    BY <1>1, <1>4, <2>3, PacketGot
  <2>5. eof' = eof /\ ~Closed
    BY <1>2, <1>4 DEF GotPacket, Closed
  <2>6. \A g \in Files : Queued(g)' = Queued(g)
    BY <1>2, SameQueues
  <2>7. \A g \in Files : g # f => Keeps(g)
    BY <1>2, <2>2, <2>4, <2>5, <2>6, FileKeeps
  <2>8. Keeps(f)
    <3>1. /\ Queued(f) \in Nat /\ Delivered(f) \in Nat /\ freed[f] \in Nat
      BY AboutFile
    <3>2. loop[f] \in Nat
      BY AboutMain, MainParts
    <3>3. Handled(f) <= Handled(f)'
      BY <1>2, <2>4, <2>6, <3>1, HandledIs
    <3>4. Len(got[f]) = Delivered(f) /\ Len(got'[f]) = Delivered(f)'
      BY DEF Delivered
    <3>5. nread[f] <= nread'[f] /\ Len(got[f]) <= Len(got'[f]) /\ freed[f] <= freed'[f]
      BY <1>2, <2>1, <2>2, <2>4, <3>1, <3>4
    <3>6. eof'[f] = eof[f] /\ loop'[f] = loop[f]
      BY <1>2, <2>5
    <3> QED
      BY <3>2, <3>3, <3>5, <3>6 DEF Keeps
  <2>9. Keeping
    BY <2>5, <2>7, <2>8, KeepsAll
  <2> QED
    BY <2>4, <2>9 DEF Goes
<1> QED
  BY <1>3, <1>4 DEF get_input_packet

LEMMA NotNowGoes ==
    ASSUME IInv, not_now
    PROVE  Goes
BY NoPacketGoes DEF not_now

LEMMA FreeGoes ==
    ASSUME IInv, free_input_thread
    PROVE  Goes
<1>1. PICK f \in Files : f = cur
  BY AboutMain
<1>2. /\ mpc = "free"
      /\ UNCHANGED <<nb_input_files, nread, restarting, loop, eof, got, freed>>
  BY DEF free_input_thread
<1>3. CASE AfterFree /\ UNCHANGED queue
  <2>1. Descends /\ (Closed => Closed')
    BY <1>2, <1>3, AfterFreeProgress
  <2>2. Keeping
    BY <1>2, <1>3, <2>1, SameQueues, AllKeep
  <2> QED
    BY <2>1, <2>2 DEF Goes
<1>4. CASE /\ queue' = [queue EXCEPT ![cur] = SetErrSend(@, AVERROR_EOF)]
           /\ mpc' = "drain" /\ cur' = cur
  <2>1. queue \in [Files -> QueueType] /\ queue[f] \in QueueType
    BY AboutFile DEF IInv, TypeInv, QueueTypes
  <2>2. /\ queue'[f] = SetErrSend(queue[f], AVERROR_EOF)
        /\ \A g \in Files : g # f => queue'[g] = queue[g]
    BY <1>1, <1>4, <2>1
  <2>3. queue'[f].fifo = queue[f].fifo
    BY <2>1, <2>2 DEF SetErrSend, QueueType
  <2>4. \A g \in Files : Queued(g)' = Queued(g)
    BY <2>2, <2>3 DEF Queued
  <2>5. Closed' = Closed
    BY <1>2, <1>4 DEF Closed
  <2>6. Keeping
    BY <1>2, <2>4, <2>5, AllKeep
  <2> QED
    BY <1>2, <1>4, <2>6, LeftDown DEF Goes
<1> QED
  BY <1>3, <1>4 DEF free_input_thread

LEMMA DrainGoes ==
    ASSUME IInv, drain_queue
    PROVE  Goes
<1>1. PICK f \in Files : f = cur
  BY AboutMain
<1>2. /\ mpc = "drain" /\ main_thread
      /\ UNCHANGED <<nb_input_files, thread, nread, cur, restarting, loop, eagain, eof, got>>
  BY DEF drain_queue, main_thread
<1>3. CASE /\ queue' = [queue EXCEPT ![cur] = SleepRecv(@, Main)]
           /\ UNCHANGED <<mpc, freed>>
  <2>1. UNCHANGED main
    BY <1>2, <1>3 DEF main
  <2> QED
    BY <1>2, <1>3, <2>1, MainSleeps
<1>4. CASE mpc' = "join" /\ UNCHANGED <<queue, freed>>
  <2>1. Closed' = Closed
    BY <1>2, <1>4 DEF Closed
  <2>2. Keeping
    BY <1>2, <1>4, <2>1, SameQueues, AllKeep
  <2> QED
    BY <1>2, <1>4, <2>2, LeftDown DEF Goes
<1>5. CASE /\ queue[cur].fifo # <<>>
           /\ \E q \in Read(queue[cur]) : queue' = [queue EXCEPT ![cur] = q]
           /\ freed' = [freed EXCEPT ![cur] = @ + 1]
           /\ UNCHANGED mpc
  <2>1. PICK q \in Read(queue[f]) : queue' = [queue EXCEPT ![f] = q]
    BY <1>1, <1>5
  <2>2. queue[f].fifo # <<>>
    BY <1>1, <1>5
  <2>3. /\ queue'[f] = q /\ \A g \in Files : g # f => queue'[g] = queue[g]
        /\ q.nelem = queue[f].nelem
        /\ q.err_send = queue[f].err_send /\ q.err_recv = queue[f].err_recv
        /\ q.cond_send = {} /\ q.cond_recv = queue[f].cond_recv
        /\ Queued(f) >= 1 /\ Queued(f)' = Queued(f) - 1
        /\ Head(queue[f].fifo) \in Packets
        /\ Head(queue[f].fifo) = queue[f].fifo[1]
        /\ \A k \in 1..(Queued(f) - 1) : q.fifo[k] = queue[f].fifo[k + 1]
        /\ tpc[f] # "none"
    BY <2>1, <2>2, ReadEffect
  <2>4. freed \in [Files -> Nat] /\ freed[f] \in Nat
    BY AboutMain, MainParts
  <2>5. freed'[f] = freed[f] + 1 /\ \A g \in Files : g # f => freed'[g] = freed[g]
    BY <1>1, <1>5, <2>4
  <2>6. freed'[f] > freed[f]
    BY <2>4, <2>5
  <2>7. /\ Closed' = Closed
        /\ \A g \in Files : Delivered(g)' = Delivered(g)
    BY <1>2, <1>5 DEF Closed, Delivered
  <2>8. Keeps(f)
    BY <1>2, <2>3, <2>5, <2>7, FileMoves
  <2>9. \A g \in Files : g # f => Queued(g)' = Queued(g)
    BY <2>3 DEF Queued
  <2>10. \A g \in Files : g # f => Keeps(g)
    BY <1>2, <2>5, <2>7, <2>9, FileKeeps
  <2>11. Keeping
    BY <2>7, <2>8, <2>10, KeepsAll
  <2> QED
    BY <2>6, <2>11 DEF Goes, Gains
<1> QED
  BY <1>3, <1>4, <1>5 DEF drain_queue

\* The queue that join_thread frees is empty.
LEMMA JoinGoes ==
    ASSUME IInv, join_thread
    PROVE  Goes
<1>1. PICK f \in Files : f = cur
  BY AboutMain
<1>2. /\ mpc = "join" /\ AfterFree
      /\ queue' = [queue EXCEPT ![f] = NoQueue]
      /\ UNCHANGED <<nb_input_files, nread, restarting, loop, eof, got, freed>>
  BY <1>1 DEF join_thread
<1>3. Queued(f) = 0
  <2>1. queue[f].fifo = <<>>
    BY <1>1, <1>2, AboutMain DEF Phases
  <2> QED
    BY <2>1, AboutFile
<1>4. /\ queue'[f] = NoQueue
      /\ \A g \in Files : g # f => queue'[g] = queue[g]
  <2>1. queue \in [Files -> QueueType]
    BY DEF IInv, TypeInv, QueueTypes
  <2> QED
    BY <1>2, <2>1
<1>5. Queued(f)' = 0
  BY <1>4 DEF Queued, NoQueue
<1>6. \A g \in Files : Queued(g)' = Queued(g)
  BY <1>3, <1>4, <1>5 DEF Queued
<1>7. Descends /\ (Closed => Closed')
  BY <1>2, AfterFreeProgress
<1>8. Keeping
  BY <1>2, <1>6, <1>7, AllKeep
<1> QED
  BY <1>7, <1>8 DEF Goes

LEMMA SeekGoes ==
    ASSUME IInv, seek_to_start
    PROVE  Goes
<1>1. PICK f \in Files : f = cur
  BY AboutMain
<1>2. mpc = "seek" /\ restarting /\ ~Closed /\ UNCHANGED nb_input_files
  BY AboutMain, MainParts DEF seek_to_start, Closed
<1>3. tpc[f] = "none" /\ ~eof[f] /\ eof \in [Files -> BOOLEAN]
  BY <1>1, <1>2, AboutMain, MainParts DEF Phases, Restarts
<1>4. CASE Start(cur) \/ UNCHANGED <<queue, thread>>
  <2>1. \A g \in Files : Queued(g)' = Queued(g)
    <3>1. CASE Start(cur)
      BY <1>1, <1>3, <3>1, StartKeeps
    <3>2. CASE UNCHANGED <<queue, thread>>
      BY <3>2, SameQueues
    <3> QED
      BY <1>4, <3>1, <3>2
  <2>2. CASE Sought /\ eof' = eof
    <3>1. /\ loop \in [Files -> Nat] /\ loop[f] \in Nat
          /\ got \in [Files -> Seq(Packets)] /\ freed \in [Files -> Nat]
      BY AboutMain, MainParts
    <3>2. loop'[f] = loop[f] - 1 /\ \A g \in Files : g # f => loop'[g] = loop[g]
      BY <1>1, <2>2, <3>1 DEF Sought
    <3>3. loop'[f] < loop[f] /\ loop'[f] <= loop[f] /\ loop'[f] # loop[f]
      BY <3>1, <3>2
    <3>4. Keeps(f)
      BY <2>2, <3>3 DEF Keeps
    <3>5. \A g \in Files : g # f => Delivered(g)' = Delivered(g)
      BY <1>1, <2>2, <3>1 DEF Delivered, Sought
    <3>6. nread \in [Files -> 0..MaxPackets]
      BY AboutMain DEF TypeInv, ThreadTypes
    <3>7. \A g \in Files : g # f => nread'[g] = nread[g] /\ freed'[g] = freed[g]
      BY <1>1, <2>2, <3>1, <3>6 DEF Sought
    <3>8. \A g \in Files : g # f => Keeps(g)
      BY <2>1, <2>2, <3>2, <3>5, <3>7, FileKeeps
    <3>9. Keeping
      BY <1>2, <3>4, <3>8, KeepsAll
    <3> QED
      BY <3>3, <3>9 DEF Goes, Gains
  <2>3. CASE eof' = [eof EXCEPT ![cur] = TRUE] /\ UNCHANGED <<loop, nread, got, freed>>
    <3>1. eof'[f] /\ \A g \in Files : eof[g] => eof'[g]
      BY <1>1, <1>3, <2>3
    <3>2. Keeping
      BY <1>2, <2>1, <2>3, <3>1, AllKeep
    <3> QED
      BY <1>3, <3>1, <3>2 DEF Goes, Gains
  <2>4. CASE /\ Threaded /\ Unstarted
             /\ UNCHANGED <<queue, loop, nread, eof, got, freed>>
    <3>1. Keeping
      BY <1>2, <2>1, <2>4, AllKeep
    <3>2. CASE mpc' = "free"
      BY <1>2, <2>4, <3>1, <3>2 DEF Goes, Gains, Closed, Unstarted
    <3>3. CASE mpc' = "loop"
      <4>1. queue'[f] = NoQueue
        BY <1>3, <2>4, AboutFile DEF ThreadQueue
      <4>2. Threaded' /\ f \in Open' /\ ~Closed'
        BY <1>1, <1>2, <2>4, <3>3, AboutMain DEF Threaded, Open, Closed
      <4>3. Lost(f)' /\ ~Lost(f)
        BY <1>1, <1>2, <3>3, <4>1, <4>2 DEF Lost
      <4> QED
        BY <3>1, <4>3 DEF Goes, Gains
    <3> QED
      BY <2>4, <3>2, <3>3 DEF Unstarted
  <2> QED
    BY <2>2, <2>3, <2>4 DEF seek_to_start
<1> QED
  BY <1>4 DEF seek_to_start

LEMMA CrashGoes ==
    ASSUME IInv, recv_freed_queue
    PROVE  Goes
<1>1. /\ ~Closed /\ Closed'
      /\ UNCHANGED <<queue, nread, loop, eof, got, freed>>
  BY DEF recv_freed_queue, Closed
<1>2. Keeping
  BY <1>1, SameQueues, AllKeep
<1> QED
  BY <1>1, <1>2 DEF Goes, Gains

LEMMA StepGoes == IInv /\ [Next]_vars => Goes \/ UNCHANGED vars
<1> SUFFICES ASSUME IInv, [Next]_vars PROVE Goes \/ UNCHANGED vars
  OBVIOUS
<1>1. CASE \E f \in Files : input_thread(f)
  BY <1>1, ThreadKeeps, ThreadProgress DEF Goes
<1>2. CASE \E f \in Files : SpuriousWakeup(f)
  BY <1>2, ThreadKeeps DEF Goes, Idles
<1>3. CASE main_thread
  BY <1>3, InitThreadsGo, ChooseGoes, GetPacketMtGoes, GetPacketGoes, NotNowGoes,
     CrashGoes, FreeGoes, DrainGoes, JoinGoes, SeekGoes DEF main_thread
<1> QED
  BY <1>1, <1>2, <1>3 DEF Next

\* A file whose thread could not be started again stays without one.
LEMMA LostStays ==
    ASSUME IInv, [Next]_vars, NEW f \in Files, Lost(f)
    PROVE  Lost(f)' \/ Closed'
<1>1. /\ Threaded /\ f \in Open /\ queue[f] = NoQueue /\ tpc[f] = "none"
      /\ mpc # "init" /\ ~Closed /\ ~(mpc = "seek" /\ cur = f)
  BY AboutFile, InputAssumption DEF Lost, ThreadQueue, NoQueue
<1>2. Phases /\ queue \in [Files -> QueueType]
  BY AboutMain DEF TypeInv, QueueTypes
<1>3. UNCHANGED nb_input_files
  BY DEF Next, input_thread, read_frame, send_packet, end_thread, SpuriousWakeup,
     main_thread, init_input_threads, choose_input, leave_loop,
     get_input_packet_mt, recv_freed_queue, get_input_packet, not_now,
     free_input_thread, drain_queue, join_thread, seek_to_start, vars
<1> SUFFICES ASSUME ~Closed'
             PROVE  /\ queue'[f] = NoQueue
                    /\ mpc' # "init" /\ ~(mpc' = "seek" /\ cur' = f)
  BY <1>1, <1>3 DEF Lost, Threaded, Open
<1>4. ASSUME NEW g \in Files, input_thread(g) \/ SpuriousWakeup(g)
      PROVE  queue'[f] = NoQueue /\ mpc' = mpc /\ cur' = cur
  <2>1. g # f
    BY <1>1, <1>4 DEF input_thread, read_frame, send_packet, end_thread,
       SpuriousWakeup, Asleep, NoQueue
  <2>2. Elsewhere(g)
    BY <1>4, AboutMain, AboutFile, ThreadCases
  <2> QED
    BY <1>1, <2>1, <2>2 DEF Elsewhere, main
<1>5. CASE init_input_threads
  BY <1>1, <1>5 DEF init_input_threads
<1>6. CASE choose_input \/ leave_loop
  BY <1>1, <1>6 DEF choose_input, leave_loop
<1>7. CASE get_input_packet_mt
  <2>1. cur # f /\ queue'[f] = queue[f]
    BY <1>1, <1>2, <1>7 DEF get_input_packet_mt
  <2>2. mpc' \in {"loop", "free", "recv"}
    BY <1>7 DEF get_input_packet_mt, GotEagain, GotError, GotPacket
  <2> QED
    BY <1>1, <2>1, <2>2
<1>8. CASE recv_freed_queue
  BY <1>8 DEF recv_freed_queue, Closed
<1>9. CASE get_input_packet
  BY <1>1, <1>9 DEF get_input_packet
<1>10. CASE not_now
  BY <1>1, <1>10 DEF not_now, GotEagain
<1>11. CASE free_input_thread \/ drain_queue \/ join_thread
  <2>1. restarting /\ tpc[cur] # "none"
    BY <1>1, <1>2, <1>11, AboutMain, MainParts
       DEF free_input_thread, drain_queue, join_thread, Phases, Closed
  <2>2. cur # f
    BY <1>1, <2>1
  <2>3. queue'[f] = queue[f] /\ cur' = cur
    BY <1>2, <1>11, <2>1, <2>2
       DEF free_input_thread, drain_queue, join_thread, AfterFree
  <2>4. mpc' # "init"
    BY <1>11, <2>1 DEF free_input_thread, drain_queue, join_thread, AfterFree
  <2> QED
    BY <1>1, <2>2, <2>3, <2>4
<1>12. CASE seek_to_start
  <2>1. queue'[f] = queue[f]
    BY <1>1, <1>2, <1>12 DEF seek_to_start, Start
  <2>2. mpc' \in {"recv", "loop", "free"}
    BY <1>12 DEF seek_to_start, Unstarted
  <2> QED
    BY <1>1, <2>1, <2>2
<1>13. CASE UNCHANGED vars
  BY <1>1, <1>13 DEF vars, main
<1> QED
  BY <1>1, <1>4, <1>5, <1>6, <1>7, <1>8, <1>9, <1>10, <1>11, <1>12, <1>13
     DEF Next, main_thread

\* For any number of files, packets and loops, every step of the threads gains
\* something for good or is one of boundedly many before the next gain, but for
\* those that idle.
THEOREM InputsProgress == Spec => InputProgress
<1>1. IInv /\ [Next]_vars => [LosesNothing /\ (Gains \/ Descends \/ Idles)]_vars
  <2> SUFFICES ASSUME IInv, [Next]_vars, ~UNCHANGED vars
               PROVE  LosesNothing /\ (Gains \/ Descends \/ Idles)
    OBVIOUS
  <2>1. Goes
    BY StepGoes
  <2>2. LosesNothing
    BY <2>1, LostStays DEF Goes, Keeping, Keeps, LosesNothing
  <2> QED
    BY <2>1, <2>2 DEF Goes
<1> QED
  BY <1>1, Invariant, PTL DEF Spec, InputProgress

-----------------------------------------------------------------------------
(* What can be gained is bounded                                            *)

\* The counts that InputsProgress speaks of have bounds, and so has what is
\* left of the main thread's work until it gains something.
Bounded ==
    /\ \A f \in Files :
          /\ loop[f] \in 0..Loops[f]
          /\ nread[f] \in 0..MaxPackets
          /\ Handled(f) \in 0..nread[f]
          /\ Len(got[f]) \in 0..Handled(f)
          /\ freed[f] \in 0..Handled(f)
    /\ Left \in 0..(8 * MaxFiles + 5)

LoopsLeft == \A f \in Files : loop[f] <= Loops[f]

\* No file is started over more often than its loop count says.
LEMMA LoopsLeftAlways == Spec => []LoopsLeft
<1>1. Init => LoopsLeft
  BY InputAssumption DEF Init, LoopsLeft
<1>2. IInv /\ IInv' /\ LoopsLeft /\ [Next]_vars => LoopsLeft'
  <2> SUFFICES ASSUME IInv, IInv', LoopsLeft, [Next]_vars, NEW f \in Files
               PROVE  loop'[f] <= Loops[f]
    BY DEF LoopsLeft
  <2>1. loop[f] <= Loops[f] /\ Loops[f] \in Nat
    BY InputAssumption DEF LoopsLeft
  <2>2. loop[f] \in Nat /\ loop'[f] \in Nat
    <3>1. loop \in [Files -> Nat]
      BY AboutMain, MainParts
    <3>2. loop' \in [Files -> Nat]
      BY DEF IInv, TypeInv, MainTypes
    <3> QED
      BY <3>1, <3>2
  <2>3. loop'[f] <= loop[f]
    <3>1. CASE Goes
      BY <3>1 DEF Goes, Keeping, Keeps
    <3>2. CASE UNCHANGED vars
      BY <2>2, <3>2 DEF vars, main
    <3> QED
      BY <3>1, <3>2, StepGoes
  <2> QED
    BY <2>1, <2>2, <2>3
<1> QED
  BY <1>1, <1>2, Invariant, PTL DEF Spec

\* So a command of any size reads, delivers, frees, ends and starts over only
\* so much, whatever the threads do.
THEOREM GainsBounded == Spec => []Bounded
<1>1. IInv /\ LoopsLeft => Bounded
  <2> SUFFICES ASSUME IInv, LoopsLeft PROVE Bounded
    OBVIOUS
  <2>1. ASSUME NEW f \in Files
        PROVE  /\ loop[f] \in 0..Loops[f] /\ nread[f] \in 0..MaxPackets
               /\ Handled(f) \in 0..nread[f] /\ Len(got[f]) \in 0..Handled(f)
               /\ freed[f] \in 0..Handled(f)
    <3>1. /\ Queued(f) \in Nat /\ Delivered(f) \in Nat
          /\ freed[f] \in Nat /\ nread[f] \in Nat
          /\ pkt[f] = 0 => nread[f] = Delivered(f) + Queued(f) + freed[f]
          /\ pkt[f] # 0 => nread[f] = Delivered(f) + Queued(f) + freed[f] + 1
      BY AboutFile
    <3>2. Handled(f) = Delivered(f) + Queued(f) + freed[f]
      BY HandledIs
    <3>3. Len(got[f]) = Delivered(f)
      BY DEF Delivered
    <3>4. /\ Handled(f) \in 0..nread[f] /\ Len(got[f]) \in 0..Handled(f)
          /\ freed[f] \in 0..Handled(f)
      BY <3>1, <3>2, <3>3
    <3>5. loop[f] \in 0..Loops[f]
      BY AboutMain, MainParts, InputAssumption DEF LoopsLeft
    <3>6. nread[f] \in 0..MaxPackets
      BY DEF IInv, TypeInv, ThreadTypes
    <3> QED
      BY <3>4, <3>5, <3>6
  <2>2. Left \in 0..(8 * MaxFiles + 5)
    <3>1. /\ nb_input_files \in Nat /\ cur \in Nat /\ cur < nb_input_files
          /\ nb_input_files <= MaxFiles /\ MaxFiles \in Nat
          /\ mpc \in {"init", "loop", "recv", "free", "drain", "join", "seek", "done",
                     "crashed"}
      BY AboutMain, MainParts, InputAssumption DEF MainTypes, Open
    <3> QED
      BY <3>1, LeftValue
  <2> QED
    BY <2>1, <2>2 DEF Bounded
<1> QED
  BY <1>1, Invariant, LoopsLeftAlways, PTL
=============================================================================
