---------------------- MODULE ThreadMessageQueueProofs ----------------------
(* Proofs about ThreadMessageQueue, for any threads and any queue size.     *)
EXTENDS ThreadMessageQueue, FiniteSetTheorems, SequenceTheorems, TLAPS

QueueType ==
    [nelem : {Capacity}, fifo : Seq(1..MaxSends),
     err_send : {NoError, AVERROR_EOF}, err_recv : {NoError, AVERROR_EOF},
     cond_send : SUBSET Threads, cond_recv : SUBSET Threads]

\* A signal leaves a smaller wait set.
LEMMA SignalShrinks ==
    ASSUME NEW cond, NEW c \in AfterSignal(cond)
    PROVE  c \subseteq cond
BY DEF AfterSignal

\* Each step of the queue keeps its type.
LEMMA WrittenType ==
    ASSUME NEW q \in QueueType, NEW m \in 1..MaxSends, NEW p \in Written(q, m)
    PROVE  /\ p \in QueueType
           /\ p.fifo = Append(q.fifo, m)
           /\ p.err_send = q.err_send /\ p.err_recv = q.err_recv
           /\ p.cond_send = q.cond_send
           /\ p.cond_recv \in AfterSignal(q.cond_recv)
<1>1. PICK c \in AfterSignal(q.cond_recv) :
          p = [q EXCEPT !.fifo = Append(@, m), !.cond_recv = c]
  BY DEF Written
<1>2. c \subseteq Threads
  BY SignalShrinks DEF QueueType
<1>3. Append(q.fifo, m) \in Seq(1..MaxSends)
  BY DEF QueueType
<1> QED
  BY <1>1, <1>2, <1>3 DEF QueueType

LEMMA ReadType ==
    ASSUME NEW q \in QueueType, q.fifo # <<>>, NEW p \in Read(q)
    PROVE  /\ p \in QueueType
           /\ p.fifo = Tail(q.fifo)
           /\ p.err_send = q.err_send /\ p.err_recv = q.err_recv
           /\ p.cond_recv = q.cond_recv
           /\ p.cond_send \in AfterSignal(q.cond_send)
<1>1. PICK c \in AfterSignal(q.cond_send) :
          p = [q EXCEPT !.fifo = Tail(@), !.cond_send = c]
  BY DEF Read
<1>2. c \subseteq Threads
  BY SignalShrinks DEF QueueType
<1>3. Tail(q.fifo) \in Seq(1..MaxSends)
  BY HeadTailProperties DEF QueueType
<1> QED
  BY <1>1, <1>2, <1>3 DEF QueueType

LEMMA OtherTypes ==
    ASSUME NEW q \in QueueType, NEW t \in Threads
    PROVE  /\ SetErrSend(q, AVERROR_EOF) \in QueueType
           /\ SetErrRecv(q, AVERROR_EOF) \in QueueType
           /\ Flushed(q) \in QueueType
           /\ SleepSend(q, t) \in QueueType
           /\ SleepRecv(q, t) \in QueueType
           /\ Woken(q, t) \in QueueType
<1>1. <<>> \in Seq(1..MaxSends)
  OBVIOUS
<1> QED
  BY <1>1 DEF QueueType, SetErrSend, SetErrRecv, Flushed, SleepSend, SleepRecv,
     Woken

\* TypeOK with the facts about calls it needs: a message in a send call is a
\* real one, and only threads inside a call sleep.
TypeInv ==
    /\ TypeOK
    /\ mq \in QueueType
    /\ \A t \in Threads : call[t] = "send" => msg[t] \in 1..MaxSends
    /\ \A t \in mq.cond_send : call[t] = "send"
    /\ \A t \in mq.cond_recv : call[t] = "recv"

LEMMA TypeInvInit == Init => TypeInv
<1> SUFFICES ASSUME Init PROVE TypeInv
  OBVIOUS
<1> USE QueueAssumption DEF Init
<1>1. mq \in QueueType
  BY DEF NewQueue, QueueType
<1> QED
  BY <1>1 DEF TypeInv, TypeOK, NewQueue, QueueType

LEMMA TypeInvNext == TypeInv /\ [Next]_vars => TypeInv'
<1> SUFFICES ASSUME TypeInv, [Next]_vars PROVE TypeInv'
  OBVIOUS
<1> USE QueueAssumption
<1>1. ASSUME NEW t \in Threads, CallSend(t) PROVE TypeInv'
  <2>1. calls' \in 1..MaxSends /\ calls' \in 0..MaxSends
    BY <1>1 DEF CallSend, TypeInv, TypeOK
  <2> QED
    BY <1>1, <2>1 DEF CallSend, TypeInv, TypeOK
<1>2. ASSUME NEW t \in Threads, CallRecv(t) PROVE TypeInv'
  BY <1>2 DEF CallRecv, TypeInv, TypeOK
<1>3. ASSUME NEW t \in Threads, send_locked(t) PROVE TypeInv'
  <2>1. t \notin mq.cond_send /\ t \notin mq.cond_recv /\ call[t] = "send"
        /\ msg[t] \in 1..MaxSends
    BY <1>3 DEF send_locked, Running, Asleep, TypeInv
  <2>2. CASE Return(t) /\ UNCHANGED <<mq, sent>>
    BY <1>3, <2>1, <2>2 DEF send_locked, Return, TypeInv, TypeOK
  <2>3. CASE mq' = SleepSend(mq, t) /\ UNCHANGED <<call, nonblock, msg, sent>>
    <3>1. mq' \in QueueType
      BY <2>3, OtherTypes DEF TypeInv
    <3>2. /\ mq'.cond_send = mq.cond_send \cup {t}
          /\ mq'.cond_recv = mq.cond_recv
      BY <2>3 DEF SleepSend, TypeInv, QueueType
    <3> QED
      BY <1>3, <2>1, <2>3, <3>1, <3>2 DEF send_locked, TypeInv, TypeOK, QueueType
  <2>4. CASE mq' \in Written(mq, msg[t]) /\ sent' = Append(sent, msg[t]) /\ Return(t)
    <3>1. /\ mq' \in QueueType
          /\ mq'.cond_send = mq.cond_send
          /\ mq'.cond_recv \subseteq mq.cond_recv
      BY <2>1, <2>4, WrittenType, SignalShrinks DEF TypeInv
    <3>2. sent' \in Seq(1..MaxSends)
      BY <2>1, <2>4 DEF TypeInv, TypeOK
    <3> QED
      BY <1>3, <2>1, <2>4, <3>1, <3>2
         DEF send_locked, Return, TypeInv, TypeOK, QueueType
  <2> QED
    BY <1>3, <2>2, <2>3, <2>4 DEF send_locked
<1>4. ASSUME NEW t \in Threads, recv_locked(t) PROVE TypeInv'
  <2>1. t \notin mq.cond_send /\ t \notin mq.cond_recv /\ call[t] = "recv"
    BY <1>4 DEF recv_locked, Running, Asleep
  <2>2. CASE Return(t) /\ UNCHANGED <<mq, taken>>
    BY <1>4, <2>1, <2>2 DEF recv_locked, Return, TypeInv, TypeOK
  <2>3. CASE mq' = SleepRecv(mq, t) /\ UNCHANGED <<call, nonblock, msg, taken>>
    <3>1. mq' \in QueueType
      BY <2>3, OtherTypes DEF TypeInv
    <3>2. /\ mq'.cond_recv = mq.cond_recv \cup {t}
          /\ mq'.cond_send = mq.cond_send
      BY <2>3 DEF SleepRecv, TypeInv, QueueType
    <3> QED
      BY <1>4, <2>1, <2>3, <3>1, <3>2 DEF recv_locked, TypeInv, TypeOK, QueueType
  <2>4. CASE mq.fifo # <<>> /\ mq' \in Read(mq) /\ taken' = taken + 1 /\ Return(t)
    <3>1. /\ mq' \in QueueType
          /\ mq'.cond_recv = mq.cond_recv
          /\ mq'.cond_send \subseteq mq.cond_send
      BY <2>1, <2>4, ReadType, SignalShrinks DEF TypeInv
    <3>2. taken' \in Nat
      BY <2>4 DEF TypeInv, TypeOK
    <3> QED
      BY <1>4, <2>1, <2>4, <3>1, <3>2
         DEF recv_locked, Return, TypeInv, TypeOK, QueueType
  <2> QED
    BY <1>4, <2>2, <2>3, <2>4 DEF recv_locked
<1>5. ASSUME NEW t \in Threads, set_err_send(t) PROVE TypeInv'
  <2>1. mq' \in QueueType
    BY <1>5, OtherTypes DEF set_err_send, TypeInv
  <2>2. mq'.cond_send = {} /\ mq'.cond_recv = mq.cond_recv
    BY <1>5 DEF set_err_send, SetErrSend, TypeInv, QueueType
  <2> QED
    BY <1>5, <2>1, <2>2 DEF set_err_send, TypeInv, TypeOK, QueueType
<1>6. ASSUME NEW t \in Threads, set_err_recv(t) PROVE TypeInv'
  <2>1. mq' \in QueueType
    BY <1>6, OtherTypes DEF set_err_recv, TypeInv
  <2>2. mq'.cond_recv = {} /\ mq'.cond_send = mq.cond_send
    BY <1>6 DEF set_err_recv, SetErrRecv, TypeInv, QueueType
  <2> QED
    BY <1>6, <2>1, <2>2 DEF set_err_recv, TypeInv, TypeOK, QueueType
<1>7. ASSUME NEW t \in Threads, flush(t) PROVE TypeInv'
  <2>1. mq' \in QueueType /\ taken' \in Nat
    BY <1>7, OtherTypes DEF flush, TypeInv, TypeOK
  <2>2. mq'.cond_send = {} /\ mq'.cond_recv = mq.cond_recv
    BY <1>7 DEF flush, Flushed, TypeInv, QueueType
  <2> QED
    BY <1>7, <2>1, <2>2 DEF flush, TypeInv, TypeOK, QueueType
<1>8. ASSUME NEW t \in Threads, SpuriousWakeup(t) PROVE TypeInv'
  <2>1. mq' \in QueueType
    BY <1>8, OtherTypes DEF SpuriousWakeup, TypeInv
  <2>2. mq'.cond_send \subseteq mq.cond_send /\ mq'.cond_recv \subseteq mq.cond_recv
    BY <1>8 DEF SpuriousWakeup, Woken, TypeInv, QueueType
  <2> QED
    BY <1>8, <2>1, <2>2 DEF SpuriousWakeup, TypeInv, TypeOK, QueueType
<1>9. CASE UNCHANGED vars
  BY <1>9 DEF vars, TypeInv, TypeOK
<1> QED
  BY <1>1, <1>2, <1>3, <1>4, <1>5, <1>6, <1>7, <1>8, <1>9 DEF Next, Step

\* The queue, its callers and its history always have their types.
THEOREM TypeCorrect == Spec => []TypeOK
<1>1. Spec => []TypeInv
  BY TypeInvInit, TypeInvNext, PTL DEF Spec
<1>2. TypeInv => TypeOK
  BY DEF TypeInv
<1> QED
  BY <1>1, <1>2, PTL
-----------------------------------------------------------------------------
(* No wake-up is lost                                                       *)

\* The set of threads awake in a call is finite, so it can be counted.
LEMMA AwakeFinite ==
    ASSUME NEW what
    PROVE  IsFiniteSet(Awake(what)) /\ Cardinality(Awake(what)) \in Nat
<1>1. Awake(what) \in SUBSET Threads
  BY DEF Awake
<1> QED
  BY <1>1, QueueAssumption, FS_Subset, FS_CardinalityType

\* How a step changes the number of threads awake in a call.
LEMMA AwakeGrows ==
    ASSUME NEW what, Awake(what) \subseteq Awake(what)'
    PROVE  Cardinality(Awake(what)) <= Cardinality(Awake(what)')
<1>1. Awake(what)' \in SUBSET Threads
  BY DEF Awake
<1>2. IsFiniteSet(Awake(what)')
  BY <1>1, QueueAssumption, FS_Subset
<1> QED
  BY <1>2, FS_Subset

LEMMA AwakeLosesOne ==
    ASSUME NEW what, NEW t, t \in Awake(what), Awake(what)' = Awake(what) \ {t}
    PROVE  Cardinality(Awake(what)') = Cardinality(Awake(what)) - 1
BY AwakeFinite, FS_RemoveElement

LEMMA AwakeGainsOne ==
    ASSUME NEW what, NEW t, t \notin Awake(what), Awake(what)' = Awake(what) \cup {t}
    PROVE  Cardinality(Awake(what)') = Cardinality(Awake(what)) + 1
BY AwakeFinite, FS_AddElement

WakeInv == TypeInv /\ NoLostReceiver /\ NoLostSender

\* A thread that returns from its call is no longer awake in it; the threads
\* awake in the other call are the same and those just woken.
LEMMA ReturnWakes ==
    ASSUME TypeInv, TypeInv', NEW t \in Threads, Return(t), t \notin Asleep(mq),
           mq'.cond_send \subseteq mq.cond_send,
           mq'.cond_recv \subseteq mq.cond_recv
    PROVE  /\ call[t] = "send" /\ mq'.cond_send = mq.cond_send
                => Awake("send")' = Awake("send") \ {t}
           /\ call[t] = "recv" /\ mq'.cond_recv = mq.cond_recv
                => Awake("recv")' = Awake("recv") \ {t}
           /\ call[t] = "send"
                => Awake("recv")' = Awake("recv") \cup (mq.cond_recv \ mq'.cond_recv)
           /\ call[t] = "recv"
                => Awake("send")' = Awake("send") \cup (mq.cond_send \ mq'.cond_send)
BY DEF Return, Awake, Running, Asleep, TypeInv, TypeOK, QueueType

\* A signal that leaves sleepers behind woke exactly one.
LEMMA SignalWakesOne ==
    ASSUME NEW cond, NEW c \in AfterSignal(cond), c # {}
    PROVE  \E u \in cond : c = cond \ {u} /\ cond \ c = {u}
BY DEF AfterSignal

LEMMA WakeInvSend ==
    ASSUME WakeInv, TypeInv', NEW t \in Threads, send_locked(t)
    PROVE  NoLostReceiver' /\ NoLostSender'
<1> USE QueueAssumption
<1>1. t \notin Asleep(mq) /\ call[t] = "send" /\ mq \in QueueType
      /\ t \in Awake("send") /\ mq' \in QueueType
      /\ Len(mq.fifo) \in Nat /\ msg[t] \in 1..MaxSends
      /\ mq.nelem = Capacity
  BY DEF send_locked, Running, Asleep, WakeInv, TypeInv, Awake, QueueType
<1>2. Cardinality(Awake("send")) \in Nat /\ Cardinality(Awake("recv")) \in Nat
      /\ Cardinality(Awake("send")') \in Nat /\ Cardinality(Awake("recv")') \in Nat
  <2>1. Awake("send")' \in SUBSET Threads /\ Awake("recv")' \in SUBSET Threads
    BY DEF Awake
  <2> QED
    BY <2>1, AwakeFinite, FS_Subset, FS_CardinalityType
<1>3. CASE SendWaits(mq) /\ Return(t) /\ UNCHANGED <<mq, sent>>
  <2>1. Awake("recv") \subseteq Awake("recv")'
    BY <1>1, <1>3, ReturnWakes DEF WakeInv
  <2>2. NoLostReceiver'
    BY <1>2, <1>3, <2>1, AwakeGrows DEF WakeInv, NoLostReceiver
  <2>3. NoLostSender'
    BY <1>1, <1>2, <1>3 DEF NoLostSender, SendWaits
  <2> QED
    BY <2>2, <2>3
<1>4. CASE SendWaits(mq) /\ mq' = SleepSend(mq, t)
           /\ UNCHANGED <<call, nonblock, msg, sent>>
  <2>1. /\ mq'.fifo = mq.fifo /\ mq'.err_send = mq.err_send
        /\ mq'.err_recv = mq.err_recv /\ mq'.cond_recv = mq.cond_recv
        /\ mq'.cond_send = mq.cond_send \cup {t}
    BY <1>1, <1>4 DEF SleepSend, QueueType
  <2>2. Awake("recv") \subseteq Awake("recv")'
    BY <1>1, <1>4, <2>1 DEF Awake, Running, Asleep
  <2>3. NoLostReceiver'
    BY <1>2, <2>1, <2>2, AwakeGrows DEF WakeInv, NoLostReceiver
  <2>4. NoLostSender'
    BY <1>1, <1>2, <1>4, <2>1 DEF NoLostSender, SendWaits
  <2> QED
    BY <2>3, <2>4
<1>5. CASE mq.err_send # NoError /\ Return(t) /\ UNCHANGED <<mq, sent>>
  <2>1. Awake("recv") \subseteq Awake("recv")'
    BY <1>1, <1>5, ReturnWakes DEF WakeInv
  <2>2. NoLostReceiver'
    BY <1>2, <1>5, <2>1, AwakeGrows DEF WakeInv, NoLostReceiver
  <2>3. NoLostSender'
    BY <1>5 DEF NoLostSender, WakeInv
  <2> QED
    BY <2>2, <2>3
<1>6. CASE ~SendWaits(mq) /\ mq.err_send = NoError /\ mq' \in Written(mq, msg[t])
           /\ Return(t)
  <2>1. /\ mq'.fifo = Append(mq.fifo, msg[t])
        /\ mq'.err_send = mq.err_send /\ mq'.err_recv = mq.err_recv
        /\ mq'.cond_send = mq.cond_send
        /\ mq'.cond_recv \in AfterSignal(mq.cond_recv)
    BY <1>1, <1>6, WrittenType
  <2>2. Len(mq'.fifo) = Len(mq.fifo) + 1
    BY <1>1, <2>1 DEF QueueType
  <2>3. NoLostSender'
    <3>1. Awake("send")' = Awake("send") \ {t}
      BY <1>1, <1>6, <2>1, ReturnWakes, SignalShrinks DEF WakeInv
    <3>2. Cardinality(Awake("send")') = Cardinality(Awake("send")) - 1
      BY <1>1, <3>1, AwakeLosesOne
    <3> QED
      BY <1>1, <1>2, <2>1, <2>2, <3>2 DEF NoLostSender, WakeInv
  <2>4. NoLostReceiver'
    <3> SUFFICES ASSUME mq'.cond_recv # {}
                 PROVE  /\ mq'.err_recv = NoError
                        /\ Len(mq'.fifo) <= Cardinality(Awake("recv")')
      BY DEF NoLostReceiver
    <3>1. PICK u \in mq.cond_recv : mq.cond_recv \ mq'.cond_recv = {u}
      BY <2>1, SignalWakesOne
    <3>2. Awake("recv")' = Awake("recv") \cup {u}
      BY <1>1, <1>6, <2>1, <3>1, ReturnWakes, SignalShrinks DEF WakeInv
    <3>3. u \notin Awake("recv")
      BY <3>1 DEF Awake, Running, Asleep
    <3>4. Cardinality(Awake("recv")') = Cardinality(Awake("recv")) + 1
      BY <3>2, <3>3, AwakeGainsOne
    <3>5. /\ mq.err_recv = NoError
          /\ Len(mq.fifo) <= Cardinality(Awake("recv"))
      BY <3>1 DEF NoLostReceiver, WakeInv
    <3> QED
      BY <1>1, <1>2, <2>1, <2>2, <3>4, <3>5
  <2> QED
    BY <2>3, <2>4
<1> QED
  BY <1>3, <1>4, <1>5, <1>6 DEF send_locked

LEMMA WakeInvRecv ==
    ASSUME WakeInv, TypeInv', NEW t \in Threads, recv_locked(t)
    PROVE  NoLostReceiver' /\ NoLostSender'
<1> USE QueueAssumption
<1>1. t \notin Asleep(mq) /\ call[t] = "recv" /\ mq \in QueueType
      /\ t \in Awake("recv") /\ mq' \in QueueType
      /\ Len(mq.fifo) \in Nat
  BY DEF recv_locked, Running, Asleep, WakeInv, TypeInv, Awake, QueueType
<1>2. Cardinality(Awake("send")) \in Nat /\ Cardinality(Awake("recv")) \in Nat
      /\ Cardinality(Awake("send")') \in Nat /\ Cardinality(Awake("recv")') \in Nat
  <2>1. Awake("send")' \in SUBSET Threads /\ Awake("recv")' \in SUBSET Threads
    BY DEF Awake
  <2> QED
    BY <2>1, AwakeFinite, FS_Subset, FS_CardinalityType
<1>3. CASE RecvWaits(mq) /\ Return(t) /\ UNCHANGED <<mq, taken>>
  <2>1. Awake("send") \subseteq Awake("send")'
    BY <1>1, <1>3, ReturnWakes DEF WakeInv
  <2>2. NoLostSender'
    BY <1>1, <1>2, <1>3, <2>1, AwakeGrows DEF WakeInv, NoLostSender
  <2>3. NoLostReceiver'
    BY <1>1, <1>2, <1>3 DEF NoLostReceiver, RecvWaits
  <2> QED
    BY <2>2, <2>3
<1>4. CASE RecvWaits(mq) /\ mq' = SleepRecv(mq, t)
           /\ UNCHANGED <<call, nonblock, msg, taken>>
  <2>1. /\ mq'.fifo = mq.fifo /\ mq'.err_send = mq.err_send
        /\ mq'.err_recv = mq.err_recv /\ mq'.cond_send = mq.cond_send
        /\ mq'.cond_recv = mq.cond_recv \cup {t}
    BY <1>1, <1>4 DEF SleepRecv, QueueType
  <2>2. Awake("send") \subseteq Awake("send")'
    BY <1>1, <1>4, <2>1 DEF Awake, Running, Asleep
  <2>3. NoLostSender'
    BY <1>1, <1>2, <2>1, <2>2, AwakeGrows DEF WakeInv, NoLostSender
  <2>4. NoLostReceiver'
    BY <1>1, <1>2, <1>4, <2>1 DEF NoLostReceiver, RecvWaits
  <2> QED
    BY <2>3, <2>4
<1>5. CASE RecvFails(mq) /\ Return(t)
           /\ UNCHANGED <<mq, taken>>
  <2>1. Awake("send") \subseteq Awake("send")'
    BY <1>1, <1>5, ReturnWakes DEF WakeInv
  <2>2. NoLostSender'
    BY <1>1, <1>2, <1>5, <2>1, AwakeGrows DEF WakeInv, NoLostSender
  <2>3. NoLostReceiver'
    BY <1>5 DEF RecvFails, NoLostReceiver, WakeInv
  <2> QED
    BY <2>2, <2>3
<1>6. CASE mq.fifo # <<>> /\ mq' \in Read(mq) /\ Return(t)
  <2>1. /\ mq'.fifo = Tail(mq.fifo)
        /\ mq'.err_send = mq.err_send /\ mq'.err_recv = mq.err_recv
        /\ mq'.cond_recv = mq.cond_recv
        /\ mq'.cond_send \in AfterSignal(mq.cond_send)
    BY <1>1, <1>6, ReadType
  <2>2. Len(mq'.fifo) = Len(mq.fifo) - 1
    BY <1>1, <1>6, <2>1, HeadTailProperties DEF QueueType
  <2>3. NoLostReceiver'
    <3>1. Awake("recv")' = Awake("recv") \ {t}
      BY <1>1, <1>6, <2>1, ReturnWakes, SignalShrinks DEF WakeInv
    <3>2. Cardinality(Awake("recv")') = Cardinality(Awake("recv")) - 1
      BY <1>1, <3>1, AwakeLosesOne
    <3> QED
      BY <1>1, <1>2, <2>1, <2>2, <3>2 DEF NoLostReceiver, WakeInv
  <2>4. NoLostSender'
    <3> SUFFICES ASSUME mq'.cond_send # {}
                 PROVE  /\ mq'.err_send = NoError
                        /\ Capacity - Len(mq'.fifo) <= Cardinality(Awake("send")')
      BY DEF NoLostSender
    <3>1. PICK u \in mq.cond_send : mq.cond_send \ mq'.cond_send = {u}
      BY <2>1, SignalWakesOne
    <3>2. Awake("send")' = Awake("send") \cup {u}
      BY <1>1, <1>6, <2>1, <3>1, ReturnWakes, SignalShrinks DEF WakeInv
    <3>3. u \notin Awake("send")
      BY <3>1 DEF Awake, Running, Asleep
    <3>4. Cardinality(Awake("send")') = Cardinality(Awake("send")) + 1
      BY <3>2, <3>3, AwakeGainsOne
    <3>5. /\ mq.err_send = NoError
          /\ Capacity - Len(mq.fifo) <= Cardinality(Awake("send"))
      BY <3>1 DEF NoLostSender, WakeInv
    <3> QED
      BY <1>1, <1>2, <2>1, <2>2, <3>4, <3>5
  <2> QED
    BY <2>3, <2>4
<1> QED
  BY <1>3, <1>4, <1>5, <1>6 DEF recv_locked

\* A step that keeps or shrinks the wait sets, and grows neither queue nor free
\* space beyond the set it empties, keeps the counts right.
LEMMA WakeInvKept ==
    ASSUME WakeInv, TypeInv',
           Awake("send") \subseteq Awake("send")',
           Awake("recv") \subseteq Awake("recv")',
           mq'.cond_recv # {} =>
               /\ mq.cond_recv # {} /\ mq'.err_recv = mq.err_recv
               /\ mq'.fifo = mq.fifo \/ mq'.fifo = <<>>,
           mq'.cond_send # {} =>
               mq.cond_send # {} /\ mq'.err_send = mq.err_send /\ mq'.fifo = mq.fifo
    PROVE  NoLostReceiver' /\ NoLostSender'
<1>1. Cardinality(Awake("send")) <= Cardinality(Awake("send")')
      /\ Cardinality(Awake("recv")) <= Cardinality(Awake("recv")')
  BY AwakeGrows
<1>2. Cardinality(Awake("send")) \in Nat /\ Cardinality(Awake("recv")) \in Nat
      /\ Cardinality(Awake("send")') \in Nat /\ Cardinality(Awake("recv")') \in Nat
  <2>1. Awake("send")' \in SUBSET Threads /\ Awake("recv")' \in SUBSET Threads
    BY DEF Awake
  <2> QED
    BY <2>1, AwakeFinite, QueueAssumption, FS_Subset, FS_CardinalityType
<1>3. Len(mq.fifo) \in Nat /\ Len(<<>>) = 0
  BY DEF WakeInv, TypeInv, QueueType
<1> QED
  BY <1>1, <1>2, <1>3, QueueAssumption DEF WakeInv, NoLostReceiver, NoLostSender

LEMMA WakeInvNext == WakeInv /\ [Next]_vars => WakeInv'
<1> SUFFICES ASSUME WakeInv, [Next]_vars PROVE WakeInv'
  OBVIOUS
<1>0. TypeInv'
  BY TypeInvNext DEF WakeInv
<1>1. ASSUME NEW t \in Threads, CallSend(t) PROVE NoLostReceiver' /\ NoLostSender'
  <2>1. Awake("send") \subseteq Awake("send")' /\ Awake("recv") \subseteq Awake("recv")'
    BY <1>1 DEF CallSend, Awake, Running, Asleep, WakeInv, TypeInv, TypeOK
  <2> QED
    BY <1>0, <1>1, <2>1, WakeInvKept DEF CallSend
<1>2. ASSUME NEW t \in Threads, CallRecv(t) PROVE NoLostReceiver' /\ NoLostSender'
  <2>1. Awake("send") \subseteq Awake("send")' /\ Awake("recv") \subseteq Awake("recv")'
    BY <1>2 DEF CallRecv, Awake, Running, Asleep, WakeInv, TypeInv, TypeOK
  <2> QED
    BY <1>0, <1>2, <2>1, WakeInvKept DEF CallRecv
<1>3. ASSUME NEW t \in Threads, set_err_send(t)
      PROVE  NoLostReceiver' /\ NoLostSender'
  <2>1. /\ mq'.cond_send = {} /\ mq'.cond_recv = mq.cond_recv
        /\ mq'.err_recv = mq.err_recv /\ mq'.fifo = mq.fifo
    BY <1>3 DEF set_err_send, SetErrSend, WakeInv, TypeInv, QueueType
  <2>2. Awake("send") \subseteq Awake("send")' /\ Awake("recv") \subseteq Awake("recv")'
    BY <1>3, <2>1 DEF set_err_send, Awake, Running, Asleep
  <2> QED
    BY <1>0, <2>1, <2>2, WakeInvKept
<1>4. ASSUME NEW t \in Threads, set_err_recv(t)
      PROVE  NoLostReceiver' /\ NoLostSender'
  <2>1. /\ mq'.cond_recv = {} /\ mq'.cond_send = mq.cond_send
        /\ mq'.err_send = mq.err_send /\ mq'.fifo = mq.fifo
    BY <1>4 DEF set_err_recv, SetErrRecv, WakeInv, TypeInv, QueueType
  <2>2. Awake("send") \subseteq Awake("send")' /\ Awake("recv") \subseteq Awake("recv")'
    BY <1>4, <2>1 DEF set_err_recv, Awake, Running, Asleep
  <2> QED
    BY <1>0, <2>1, <2>2, WakeInvKept
<1>5. ASSUME NEW t \in Threads, flush(t) PROVE NoLostReceiver' /\ NoLostSender'
  <2>1. /\ mq'.cond_send = {} /\ mq'.cond_recv = mq.cond_recv
        /\ mq'.err_recv = mq.err_recv /\ mq'.fifo = <<>>
    BY <1>5 DEF flush, Flushed, WakeInv, TypeInv, QueueType
  <2>2. Awake("send") \subseteq Awake("send")' /\ Awake("recv") \subseteq Awake("recv")'
    BY <1>5, <2>1 DEF flush, Awake, Running, Asleep
  <2> QED
    BY <1>0, <2>1, <2>2, WakeInvKept
<1>6. ASSUME NEW t \in Threads, SpuriousWakeup(t)
      PROVE  NoLostReceiver' /\ NoLostSender'
  <2>1. /\ mq'.cond_send = mq.cond_send \ {t} /\ mq'.cond_recv = mq.cond_recv \ {t}
        /\ mq'.err_send = mq.err_send /\ mq'.err_recv = mq.err_recv
        /\ mq'.fifo = mq.fifo
    BY <1>6 DEF SpuriousWakeup, Woken, WakeInv, TypeInv, QueueType
  <2>2. Awake("send") \subseteq Awake("send")' /\ Awake("recv") \subseteq Awake("recv")'
    BY <1>6, <2>1 DEF SpuriousWakeup, Awake, Running, Asleep
  <2> QED
    BY <1>0, <2>1, <2>2, WakeInvKept
<1>7. CASE UNCHANGED vars
  BY <1>0, <1>7 DEF vars, WakeInv, NoLostReceiver, NoLostSender, Awake, Running, Asleep
<1> QED
  BY <1>0, <1>1, <1>2, <1>3, <1>4, <1>5, <1>6, <1>7, WakeInvSend, WakeInvRecv
     DEF Next, Step, WakeInv

LEMMA WakeInvAlways == Spec => []WakeInv
<1>1. Init => WakeInv
  BY TypeInvInit DEF Init, NewQueue, WakeInv, NoLostReceiver, NoLostSender
<1> QED
  BY <1>1, WakeInvNext, PTL DEF Spec

\* One signal per message, and one broadcast per error, lose no receiver.
THEOREM ReceiverNeverLost == Spec => []NoLostReceiver
<1>1. WakeInv => NoLostReceiver
  BY DEF WakeInv
<1> QED
  BY <1>1, WakeInvAlways, PTL

\* One signal per free slot, and one broadcast per error or flush, lose no
\* sender.
THEOREM SenderNeverLost == Spec => []NoLostSender
<1>1. WakeInv => NoLostSender
  BY DEF WakeInv
<1> QED
  BY <1>1, WakeInvAlways, PTL

\* When every thread inside the queue's functions is asleep, those asleep have
\* nothing to do, and they are senders only or receivers only: the users of a
\* queue never all wait for each other.
AsleepForAReason ==
    Awake("send") = {} /\ Awake("recv") = {} =>
        /\ mq.cond_send # {} => SendWaits(mq)
        /\ mq.cond_recv # {} => RecvWaits(mq)
        /\ mq.cond_send = {} \/ mq.cond_recv = {}

THEOREM NeverAllAsleep == Spec => []AsleepForAReason
<1>1. WakeInv => AsleepForAReason
  <2> SUFFICES ASSUME WakeInv, Awake("send") = {}, Awake("recv") = {}
               PROVE  /\ mq.cond_send # {} => SendWaits(mq)
                      /\ mq.cond_recv # {} => RecvWaits(mq)
                      /\ mq.cond_send = {} \/ mq.cond_recv = {}
    BY DEF AsleepForAReason
  <2>1. Cardinality(Awake("send")) = 0 /\ Cardinality(Awake("recv")) = 0
    BY FS_EmptySet
  <2>2. mq.nelem = Capacity /\ Len(mq.fifo) \in Nat /\ (Len(mq.fifo) = 0 => mq.fifo = <<>>)
    BY DEF WakeInv, TypeInv, TypeOK
  <2>3. Capacity \in Nat \ {0}
    BY QueueAssumption
  <2>4. mq.cond_send # {} => SendWaits(mq)
    BY <2>1, <2>2, <2>3 DEF WakeInv, NoLostSender, SendWaits
  <2>5. mq.cond_recv # {} => RecvWaits(mq)
    BY <2>1, <2>2 DEF WakeInv, NoLostReceiver, RecvWaits
  <2>6. ~(SendWaits(mq) /\ RecvWaits(mq))
    BY <2>2, <2>3 DEF SendWaits, RecvWaits
  <2> QED
    BY <2>4, <2>5, <2>6
<1> QED
  BY <1>1, WakeInvAlways, PTL
-----------------------------------------------------------------------------
(* First in, first out, within the size                                     *)

FifoInv == TypeInv /\ QueueIsRestOfSent

LEMMA FifoSend ==
    ASSUME FifoInv, TypeInv', NEW t \in Threads, send_locked(t)
    PROVE  QueueIsRestOfSent'
<1>1. mq \in QueueType /\ msg[t] \in 1..MaxSends /\ taken \in Nat /\ taken' = taken
      /\ sent \in Seq(1..MaxSends)
  BY DEF send_locked, Running, FifoInv, TypeInv, TypeOK
<1>2. CASE UNCHANGED sent /\ mq'.fifo = mq.fifo
  BY <1>1, <1>2 DEF FifoInv, QueueIsRestOfSent
<1>3. CASE ~SendWaits(mq) /\ mq.err_send = NoError /\ mq' \in Written(mq, msg[t])
           /\ sent' = Append(sent, msg[t])
  <2>1. mq'.fifo = Append(mq.fifo, msg[t])
    BY <1>1, <1>3, WrittenType
  <2>2. /\ Len(mq'.fifo) = Len(mq.fifo) + 1 /\ Len(sent') = Len(sent) + 1
        /\ Len(mq.fifo) \in Nat /\ Len(sent) \in Nat
        /\ Len(mq.fifo) < Capacity
    BY <1>1, <1>3, <2>1, QueueAssumption DEF QueueType, SendWaits
  <2>3. taken + Len(mq.fifo) = Len(sent)
    BY DEF FifoInv, QueueIsRestOfSent
  <2>4. ASSUME NEW i \in 1..Len(mq'.fifo) PROVE mq'.fifo[i] = sent'[taken' + i]
    <3>1. CASE i \in 1..Len(mq.fifo)
      <4>1. mq'.fifo[i] = mq.fifo[i]
        BY <1>1, <2>1, <3>1 DEF QueueType
      <4>2. taken + i \in 1..Len(sent)
        BY <1>1, <2>2, <2>3, <3>1
      <4>3. sent'[taken + i] = sent[taken + i]
        BY <1>1, <1>3, <4>2
      <4> QED
        BY <1>1, <3>1, <4>1, <4>3 DEF FifoInv, QueueIsRestOfSent
    <3>2. CASE i = Len(mq.fifo) + 1
      <4>1. mq'.fifo[i] = msg[t]
        BY <1>1, <2>1, <3>2 DEF QueueType
      <4>2. taken' + i = Len(sent) + 1
        BY <1>1, <2>2, <2>3, <3>2
      <4> QED
        BY <1>1, <1>3, <4>1, <4>2
    <3> QED
      BY <2>2, <3>1, <3>2
  <2>5. Len(mq'.fifo) <= Capacity
    BY <2>2, QueueAssumption
  <2>6. taken' + Len(mq'.fifo) = Len(sent')
    <3> DEFINE n == Len(mq.fifo)
               s == Len(sent)
    <3>1. n \in Nat /\ s \in Nat /\ taken \in Nat /\ taken + n = s
      BY <1>1, <2>2, <2>3
    <3>2. Len(mq'.fifo) = n + 1 /\ Len(sent') = s + 1 /\ taken' = taken
      BY <1>1, <2>2 DEF n, s
    <3> HIDE DEF n, s
    <3>3. taken + (n + 1) = s + 1
      BY <3>1
    <3> QED
      BY <3>2, <3>3
  <2> QED
    BY <2>4, <2>5, <2>6 DEF QueueIsRestOfSent
<1>4. ASSUME mq' = SleepSend(mq, t) PROVE mq'.fifo = mq.fifo
  BY <1>1, <1>4 DEF SleepSend, QueueType
<1> QED
  BY <1>2, <1>3, <1>4 DEF send_locked

LEMMA FifoRecv ==
    ASSUME FifoInv, TypeInv', NEW t \in Threads, recv_locked(t)
    PROVE  QueueIsRestOfSent'
<1>1. mq \in QueueType /\ taken \in Nat /\ sent' = sent
      /\ sent \in Seq(1..MaxSends)
  BY DEF recv_locked, FifoInv, TypeInv, TypeOK
<1>2. CASE UNCHANGED taken /\ mq'.fifo = mq.fifo
  BY <1>1, <1>2 DEF FifoInv, QueueIsRestOfSent
<1>3. CASE mq.fifo # <<>> /\ mq' \in Read(mq) /\ taken' = taken + 1
  <2>1. mq'.fifo = Tail(mq.fifo)
    BY <1>1, <1>3, ReadType
  <2>2. Len(mq'.fifo) = Len(mq.fifo) - 1 /\ Len(mq.fifo) \in Nat \ {0}
    BY <1>1, <1>3, <2>1 DEF QueueType
  <2>3. ASSUME NEW i \in 1..Len(mq'.fifo) PROVE mq'.fifo[i] = sent'[taken' + i]
    <3>1. mq'.fifo[i] = mq.fifo[i + 1] /\ i + 1 \in 1..Len(mq.fifo)
      BY <1>1, <1>3, <2>1, <2>2 DEF QueueType
    <3>2. taken' + i = taken + (i + 1)
      BY <1>1, <1>3, <2>2
    <3> QED
      BY <1>1, <3>1, <3>2 DEF FifoInv, QueueIsRestOfSent
  <2>4. taken + Len(mq.fifo) = Len(sent) /\ Len(mq.fifo) <= Capacity
    BY DEF FifoInv, QueueIsRestOfSent
  <2>5. taken' = taken + 1 /\ taken \in Nat /\ Len(sent') = Len(sent)
    BY <1>1, <1>3
  <2>6. Len(mq'.fifo) <= Capacity
    BY <2>2, <2>4, QueueAssumption
  <2>7. taken' + Len(mq'.fifo) = Len(sent')
    <3> DEFINE n == Len(mq.fifo)
               s == Len(sent)
    <3>1. n \in Nat /\ s \in Nat /\ taken + n = s
      BY <1>1, <2>2, <2>4
    <3> HIDE DEF n, s
    <3>2. (taken + 1) + (n - 1) = s
      BY <2>5, <3>1
    <3>3. Len(mq'.fifo) = n - 1 /\ Len(sent') = s
      BY <2>2, <2>5 DEF n, s
    <3> QED
      BY <2>5, <3>2, <3>3
  <2> QED
    BY <2>3, <2>6, <2>7 DEF QueueIsRestOfSent
<1>4. ASSUME mq' = SleepRecv(mq, t) PROVE mq'.fifo = mq.fifo
  BY <1>1, <1>4 DEF SleepRecv, QueueType
<1> QED
  BY <1>2, <1>3, <1>4 DEF recv_locked

LEMMA FifoNext == FifoInv /\ [Next]_vars => FifoInv'
<1> SUFFICES ASSUME FifoInv, [Next]_vars PROVE FifoInv'
  OBVIOUS
<1>0. TypeInv' /\ mq \in QueueType /\ sent \in Seq(1..MaxSends)
  BY TypeInvNext DEF FifoInv, TypeInv, TypeOK
<1>1. CASE UNCHANGED <<sent, taken>> /\ mq'.fifo = mq.fifo
  BY <1>0, <1>1 DEF FifoInv, QueueIsRestOfSent
<1>2. ASSUME NEW t \in Threads, CallSend(t) \/ CallRecv(t)
      PROVE  UNCHANGED <<sent, taken>> /\ mq'.fifo = mq.fifo
  BY <1>2 DEF CallSend, CallRecv
<1>3. ASSUME NEW t \in Threads,
             set_err_send(t) \/ set_err_recv(t) \/ SpuriousWakeup(t)
      PROVE  UNCHANGED <<sent, taken>> /\ mq'.fifo = mq.fifo
  BY <1>0, <1>3 DEF set_err_send, set_err_recv, SpuriousWakeup, SetErrSend,
     SetErrRecv, Woken, QueueType
<1>4. ASSUME NEW t \in Threads, flush(t) PROVE QueueIsRestOfSent'
  <2>1. mq'.fifo = <<>> /\ taken' = Len(sent) /\ sent' = sent
    BY <1>0, <1>4 DEF flush, Flushed, QueueType
  <2>2. Len(mq'.fifo) = 0 /\ Len(sent) \in Nat
    BY <1>0, <2>1
  <2> QED
    BY <2>1, <2>2, QueueAssumption DEF QueueIsRestOfSent
<1>5. CASE UNCHANGED vars
  BY <1>1, <1>5 DEF vars
<1> QED
  BY <1>0, <1>1, <1>2, <1>3, <1>4, <1>5, FifoSend, FifoRecv
     DEF Next, Step, FifoInv

LEMMA FifoAlways == Spec => []FifoInv
<1>1. Init => FifoInv
  <2> SUFFICES ASSUME Init PROVE FifoInv
    OBVIOUS
  <2>1. Len(mq.fifo) = 0 /\ taken = 0 /\ Len(sent) = 0
    BY DEF Init, NewQueue
  <2> QED
    BY <2>1, TypeInvInit, QueueAssumption DEF FifoInv, QueueIsRestOfSent
<1> QED
  BY <1>1, FifoNext, PTL DEF Spec

\* Nothing a sender got a success for is lost, duplicated or reordered, and no
\* interleaving fills the queue past nelem.
THEOREM QueueInOrder == Spec => []QueueIsRestOfSent
<1>1. FifoInv => QueueIsRestOfSent
  BY DEF FifoInv
<1> QED
  BY <1>1, FifoAlways, PTL
-----------------------------------------------------------------------------
(* The queue implements a bounded channel                                   *)

LEMMA ChannelStep ==
    TypeInv /\ [Next]_vars => [Channel!Next]_<<mq.fifo, mq.err_send # NoError>>
<1> SUFFICES ASSUME TypeInv, [Next]_vars
             PROVE  [Channel!Next]_<<mq.fifo, mq.err_send # NoError>>
  OBVIOUS
<1>0. mq \in QueueType
  BY DEF TypeInv
<1>1. CASE mq'.fifo = mq.fifo /\ mq'.err_send = mq.err_send
  BY <1>1
<1>2. ASSUME NEW t \in Threads, send_locked(t)
      PROVE  \/ mq'.fifo = mq.fifo /\ mq'.err_send = mq.err_send
             \/ Channel!Put
  <2>1. msg[t] \in 1..MaxSends
    BY <1>2 DEF send_locked, Running, TypeInv
  <2>2. CASE mq' = SleepSend(mq, t)
    BY <1>0, <2>2 DEF SleepSend, QueueType
  <2>3. CASE ~SendWaits(mq) /\ mq.err_send = NoError /\ mq' \in Written(mq, msg[t])
    <3>1. mq'.fifo = Append(mq.fifo, msg[t]) /\ mq'.err_send = mq.err_send
      BY <1>0, <2>1, <2>3, WrittenType
    <3>2. Len(mq.fifo) < Capacity
      BY <1>0, <2>3, QueueAssumption DEF SendWaits, QueueType
    <3> QED
      BY <2>1, <2>3, <3>1, <3>2 DEF Channel!Put
  <2> QED
    BY <1>2, <2>2, <2>3 DEF send_locked
<1>3. ASSUME NEW t \in Threads, recv_locked(t)
      PROVE  \/ mq'.fifo = mq.fifo /\ mq'.err_send = mq.err_send
             \/ Channel!Take
  <2>1. CASE mq' = SleepRecv(mq, t)
    BY <1>0, <2>1 DEF SleepRecv, QueueType
  <2>2. CASE mq.fifo # <<>> /\ mq' \in Read(mq)
    BY <1>0, <2>2, ReadType DEF Channel!Take
  <2> QED
    BY <1>3, <2>1, <2>2 DEF recv_locked
<1>4. ASSUME NEW t \in Threads, set_err_send(t) PROVE Channel!Close
  BY <1>0, <1>4 DEF set_err_send, SetErrSend, QueueType, Channel!Close, NoError,
     AVERROR_EOF
<1>5. ASSUME NEW t \in Threads, flush(t) PROVE Channel!Empty
  BY <1>0, <1>5 DEF flush, Flushed, QueueType, Channel!Empty
<1>6. ASSUME NEW t \in Threads,
             CallSend(t) \/ CallRecv(t) \/ set_err_recv(t) \/ SpuriousWakeup(t)
      PROVE  mq'.fifo = mq.fifo /\ mq'.err_send = mq.err_send
  BY <1>0, <1>6 DEF CallSend, CallRecv, set_err_recv, SpuriousWakeup,
     SetErrRecv, Woken, QueueType
<1>7. CASE UNCHANGED vars
  BY <1>1, <1>7 DEF vars
<1> QED
  BY <1>1, <1>2, <1>3, <1>4, <1>5, <1>6, <1>7 DEF Next, Step, Channel!Next

\* Whatever its threads do, the queue is a bounded first-in first-out channel
\* that accepts nothing after av_thread_message_queue_set_err_send.
THEOREM ChannelImplemented == Spec => ImplementsChannel
<1>1. Init => Channel!Init
  BY DEF Init, NewQueue, Channel!Init
<1>2. Spec => []TypeInv
  BY TypeInvInit, TypeInvNext, PTL DEF Spec
<1> QED
  BY <1>1, <1>2, ChannelStep, PTL DEF Spec, ImplementsChannel, Channel!Spec
=============================================================================
