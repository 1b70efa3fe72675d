--------------------------- MODULE MuxQueueProofs ---------------------------
(***************************************************************************)
(* Proofs about MuxQueue, for any streams, limits, sizes and times.        *)
(***************************************************************************)
EXTENDS MuxQueue, TLAPS

-----------------------------------------------------------------------------
(* One packet's times                                                       *)

\* Any of a packet's own times in the muxer's time base.
LEMMA StampsType ==
    ASSUME NEW s \in Streams, NEW src \in Packets, NEW p \in Stamps(s, src)
    PROVE  p \in Muxed
<1>1. src.pts \in Times \cup {NoPts} /\ src.dts \in Times
  BY DEF Packets
<1>2. Rescaled(s, src) \in Muxed
  <2>1. \A t \in Times : Rescale[s][t] \in Int
    BY MuxAssumption
  <2> QED
    BY <1>1, <2>1 DEF Rescaled, Muxed
<1>3. ASSUME NEW n \in Lowest[s][src.dts]..Highest[s][src.dts], s \in Coarse
      PROVE  Both(FromSamples[s][n]) \in Muxed
  <2>1. FromSamples[s][n] \in Int
    BY <1>1, <1>3, MuxAssumption
  <2> QED
    BY <2>1 DEF Both, Muxed
<1> QED
  BY <1>2, <1>3 DEF Stamps

\* The guess gives times that are in order, and leaves those that were alone.
LEMMA GuessedFacts ==
    ASSUME NEW p \in Muxed, NEW last \in Int \cup {NoPts}
    PROVE  /\ Guessed(p, last) \in Muxed
           /\ WellTimed(Guessed(p, last))
           /\ WellTimed(p) => Guessed(p, last) = p
<1>1. p.pts \in Int \cup {NoPts} /\ p.dts \in Int
  BY DEF Muxed
<1>2. CASE WellTimed(p)
  <2>1. ~(p.pts # NoPts /\ p.dts > p.pts)
    BY <1>1, <1>2 DEF WellTimed
  <2> QED
    BY <1>2, <2>1 DEF Guessed
<1>3. CASE ~WellTimed(p)
  <2>1. p.pts \in Int /\ p.pts # NoPts /\ p.dts > p.pts
    BY <1>1, <1>3 DEF WellTimed
  <2>2. PICK t \in Int : Guessed(p, last) = Both(t)
    <3>1. CASE last = NoPts
      BY <1>1, <2>1, <3>1 DEF Guessed
    <3>2. CASE last \in Int /\ last # NoPts
      BY <1>1, <2>1, <3>2 DEF Guessed
    <3> QED
      BY <3>1, <3>2
  <2> QED
    BY <1>3, <2>2 DEF Muxed, WellTimed, Both
<1> QED
  BY <1>2, <1>3

\* Raising the dts keeps the times in order.
LEMMA RaisedFacts ==
    ASSUME NEW p \in Muxed, WellTimed(p), NEW least \in Int
    PROVE  /\ Raised(p, least) \in Muxed
           /\ WellTimed(Raised(p, least))
           /\ Raised(p, least).dts = Larger(p.dts, least)
           /\ Raised(p, least).dts >= least
<1>1. p.pts \in Int \cup {NoPts} /\ p.dts \in Int
  BY DEF Muxed
<1>2. CASE p.dts < least
  <2>1. CASE p.pts = NoPts
    BY <1>1, <1>2, <2>1 DEF Raised, WellTimed, Muxed, Larger
  <2>2. CASE p.pts # NoPts
    <3>1. p.pts \in Int /\ p.pts >= p.dts
      BY <1>1, <2>2 DEF WellTimed
    <3> QED
      BY <1>1, <1>2, <2>2, <3>1 DEF Raised, WellTimed, Muxed, Larger
  <2> QED
    BY <2>1, <2>2
<1>3. CASE ~(p.dts < least)
  BY <1>1, <1>3 DEF Raised, Larger
<1> QED
  BY <1>2, <1>3

\* What the muxer gets of a packet that came with the times of src, when the
\* last dts was last.
Given(s, src, last, q) ==
    /\ q \in Muxed
    /\ WellTimed(q)
    /\ s \in Checked /\ last # NoPts => q.dts >= last + Strict
    /\ \E p \in Stamps(s, src) :
          WellTimed(p) =>
              q.dts = IF last = NoPts \/ s \notin Checked THEN p.dts
                      ELSE Larger(p.dts, last + Strict)

LEMMA RepairedFacts ==
    ASSUME NEW s \in Streams, NEW src \in Packets, NEW p \in Stamps(s, src),
           last_mux_dts[s] \in Int \cup {NoPts}
    PROVE  Given(s, src, last_mux_dts[s], Repaired(s, p))
<1> DEFINE last == last_mux_dts[s]
           g    == Guessed(p, last)
<1>1. p \in Muxed /\ last \in Int \cup {NoPts}
  BY StampsType
<1>2. g \in Muxed /\ WellTimed(g) /\ (WellTimed(p) => g = p)
  BY <1>1, GuessedFacts
<1>3. Repaired(s, p) = IF s \in Checked /\ last # NoPts THEN Raised(g, last + Strict) ELSE g
  BY DEF Repaired
<1> HIDE DEF last, g
<1>4. CASE s \in Checked /\ last # NoPts
  <2>1. last + Strict \in Int
    BY <1>1, <1>4, MuxAssumption
  <2>2. /\ Raised(g, last + Strict) \in Muxed
        /\ WellTimed(Raised(g, last + Strict))
        /\ Raised(g, last + Strict).dts = Larger(g.dts, last + Strict)
        /\ Raised(g, last + Strict).dts >= last + Strict
    BY <1>2, <2>1, RaisedFacts
  <2> QED
    BY <1>2, <1>3, <1>4, <2>2 DEF Given, last
<1>5. CASE ~(s \in Checked /\ last # NoPts)
  BY <1>2, <1>3, <1>5 DEF Given, last
<1> QED
  BY <1>4, <1>5
-----------------------------------------------------------------------------
(* One stream's history                                                     *)

\* What holds of one stream: A was accepted, M given to the muxer, Q waits.
History(s, A, M, Q, last) ==
    /\ Len(M) + Len(Q) = Len(A)
    /\ \A i \in 1..Len(Q) : Q[i] = A[Len(M) + i]
    /\ last = IF M = <<>> THEN NoPts ELSE M[Len(M)].dts
    /\ s \in Checked => \A i \in 2..Len(M) : M[i].dts >= M[i - 1].dts + Strict
    /\ \A i \in 1..Len(M) : WellTimed(M[i])
    /\ \A i \in 1..Len(M) :
          \E p \in Stamps(s, A[i]) :
              WellTimed(p) =>
                  M[i].dts = IF i = 1 \/ s \notin Checked THEN p.dts
                             ELSE Larger(p.dts, M[i - 1].dts + Strict)

\* A packet joins those that wait.
LEMMA HistoryEnqueued ==
    ASSUME NEW s \in Streams, NEW A \in Seq(Packets), NEW M \in Seq(Muxed),
           NEW Q \in Seq(Packets), NEW last, NEW src \in Packets,
           History(s, A, M, Q, last)
    PROVE  History(s, Append(A, src), M, Append(Q, src), last)
<1> DEFINE B == Append(A, src)
           R == Append(Q, src)
<1>1. /\ Len(B) = Len(A) + 1 /\ Len(R) = Len(Q) + 1
      /\ Len(A) \in Nat /\ Len(M) \in Nat /\ Len(Q) \in Nat
      /\ Len(M) + Len(Q) = Len(A)
  BY DEF History
<1>2. /\ \A i \in 1..Len(A) : B[i] = A[i]
      /\ B[Len(A) + 1] = src
      /\ \A i \in 1..Len(Q) : R[i] = Q[i]
      /\ R[Len(Q) + 1] = src
  OBVIOUS
<1> HIDE DEF B, R
<1>3. ASSUME NEW i \in 1..Len(R) PROVE R[i] = B[Len(M) + i]
  <2>1. CASE i \in 1..Len(Q)
    <3>1. Len(M) + i \in 1..Len(A)
      BY <1>1, <2>1
    <3> QED
      BY <1>2, <2>1, <3>1 DEF History
  <2>2. CASE i = Len(Q) + 1
    <3>1. Len(M) + i = Len(A) + 1
      BY <1>1, <2>2
    <3> QED
      BY <1>2, <2>2, <3>1
  <2> QED
    BY <1>1, <2>1, <2>2
<1>4. \A i \in 1..Len(M) : i \in 1..Len(A)
  BY <1>1
<1>5. Len(M) + Len(R) = Len(B)
  BY <1>1
<1> QED
  BY <1>2, <1>3, <1>4, <1>5 DEF History, B, R

\* The muxer gets the packet that is next, from the queue or directly.
LEMMA HistoryMuxed ==
    ASSUME NEW s \in Streams, NEW A \in Seq(Packets), NEW M \in Seq(Muxed),
           NEW last, NEW q,
           NEW B \in Seq(Packets), NEW R \in Seq(Packets),
           NEW Q \in Seq(Packets), History(s, A, M, Q, last),
           Len(M) + 1 <= Len(B), Given(s, B[Len(M) + 1], last, q),
           \A i \in 1..Len(M) : B[i] = A[i],
           Len(M) + 1 + Len(R) = Len(B),
           \A i \in 1..Len(R) : R[i] = B[Len(M) + 1 + i]
    PROVE  History(s, B, Append(M, q), R, q.dts)
<1> DEFINE N == Append(M, q)
<1>1. /\ q \in Muxed /\ q.dts \in Int
      /\ Len(M) \in Nat /\ Len(N) = Len(M) + 1 /\ N # <<>>
      /\ \A i \in 1..Len(M) : N[i] = M[i]
      /\ N[Len(M) + 1] = q
      /\ \A i \in 1..Len(M) : M[i] \in Muxed /\ M[i].dts \in Int
  <2>1. q \in Muxed /\ q.dts \in Int
    BY DEF Given, Muxed
  <2>2. /\ Len(M) \in Nat /\ Len(N) = Len(M) + 1
        /\ \A i \in 1..Len(M) : N[i] = M[i]
        /\ N[Len(M) + 1] = q
    BY <2>1
  <2>3. N # <<>>
    BY <2>1, <2>2
  <2>4. \A i \in 1..Len(M) : M[i] \in Muxed
    OBVIOUS
  <2>5. \A x \in Muxed : x.dts \in Int
    BY DEF Muxed
  <2> QED
    BY <2>1, <2>2, <2>3, <2>4, <2>5
<1>2. last = IF Len(M) = 0 THEN NoPts ELSE M[Len(M)].dts
  BY DEF History
<1>3. Len(M) # 0 => last = M[Len(M)].dts /\ last \in Int /\ last # NoPts
  <2> SUFFICES ASSUME Len(M) # 0 PROVE last = M[Len(M)].dts /\ last \in Int /\ last # NoPts
    OBVIOUS
  <2>1. Len(M) \in 1..Len(M)
    BY <1>1
  <2> QED
    BY <1>1, <1>2, <2>1, MuxAssumption
<1> HIDE DEF N
<1>4. s \in Checked => \A i \in 2..Len(N) : N[i].dts >= N[i - 1].dts + Strict
  <2> SUFFICES ASSUME s \in Checked, NEW i \in 2..Len(N)
               PROVE  N[i].dts >= N[i - 1].dts + Strict
    OBVIOUS
  <2>1. CASE i \in 2..Len(M)
    <3>1. i \in 1..Len(M) /\ i - 1 \in 1..Len(M)
      BY <1>1, <2>1
    <3> QED
      BY <1>1, <2>1, <3>1 DEF History
  <2>2. CASE i = Len(M) + 1
    <3>1. Len(M) # 0 /\ i - 1 = Len(M) /\ Len(M) \in 1..Len(M)
      BY <1>1, <2>2
    <3>2. N[i - 1] = M[Len(M)] /\ N[i] = q
      BY <1>1, <2>2, <3>1
    <3>3. q.dts >= last + Strict
      BY <1>3, <3>1 DEF Given
    <3> QED
      BY <1>3, <3>1, <3>2, <3>3
  <2> QED
    BY <1>1, <2>1, <2>2
<1>5. \A i \in 1..Len(N) : WellTimed(N[i])
  <2> SUFFICES ASSUME NEW i \in 1..Len(N) PROVE WellTimed(N[i])
    OBVIOUS
  <2>1. CASE i \in 1..Len(M)
    BY <1>1, <2>1 DEF History
  <2>2. CASE i = Len(M) + 1
    BY <1>1, <2>2 DEF Given
  <2> QED
    BY <1>1, <2>1, <2>2
<1>6. \A i \in 1..Len(N) :
          \E p \in Stamps(s, B[i]) :
              WellTimed(p) =>
                  N[i].dts = IF i = 1 \/ s \notin Checked THEN p.dts
                             ELSE Larger(p.dts, N[i - 1].dts + Strict)
  <2> SUFFICES ASSUME NEW i \in 1..Len(N)
               PROVE  \E p \in Stamps(s, B[i]) :
                          WellTimed(p) =>
                              N[i].dts = IF i = 1 \/ s \notin Checked THEN p.dts
                                         ELSE Larger(p.dts, N[i - 1].dts + Strict)
    OBVIOUS
  <2>1. CASE i \in 1..Len(M)
    <3>1. N[i] = M[i] /\ B[i] = A[i]
      BY <1>1, <2>1
    <3>2. i # 1 => N[i - 1] = M[i - 1]
      <4>1. i # 1 => i - 1 \in 1..Len(M)
        BY <1>1, <2>1
      <4> QED
        BY <1>1, <4>1
    <3>3. PICK p \in Stamps(s, A[i]) :
             WellTimed(p) =>
                 M[i].dts = IF i = 1 \/ s \notin Checked THEN p.dts
                            ELSE Larger(p.dts, M[i - 1].dts + Strict)
      BY <2>1 DEF History
    <3>4. /\ p \in Stamps(s, B[i])
          /\ WellTimed(p) =>
                 N[i].dts = IF i = 1 \/ s \notin Checked THEN p.dts
                            ELSE Larger(p.dts, N[i - 1].dts + Strict)
      BY <3>1, <3>2, <3>3
    <3> QED
      BY <3>4
  <2>2. CASE i = Len(M) + 1
    <3>1. PICK p \in Stamps(s, B[i]) :
             WellTimed(p) =>
                 q.dts = IF last = NoPts \/ s \notin Checked THEN p.dts
                         ELSE Larger(p.dts, last + Strict)
      BY <2>2 DEF Given
    <3>2. N[i] = q
      BY <1>1, <2>2
    <3>3. CASE Len(M) = 0
      <4>1. i = 1 /\ last = NoPts
        BY <1>2, <2>2, <3>3
      <4> QED
        BY <3>1, <3>2, <4>1
    <3>4. CASE Len(M) # 0
      <4>1. i # 1 /\ i - 1 = Len(M) /\ Len(M) \in 1..Len(M)
        BY <1>1, <2>2, <3>4
      <4>2. N[i - 1].dts = last /\ last # NoPts
        BY <1>1, <1>3, <3>4, <4>1
      <4> QED
        BY <3>1, <3>2, <4>1, <4>2
    <3> QED
      BY <3>3, <3>4
  <2> QED
    BY <1>1, <2>1, <2>2
<1>7. q.dts = IF N = <<>> THEN NoPts ELSE N[Len(N)].dts
  BY <1>1
<1>8. /\ Len(N) + Len(R) = Len(B)
      /\ \A i \in 1..Len(R) : R[i] = B[Len(N) + i]
  BY <1>1
<1> QED
  BY <1>4, <1>5, <1>6, <1>7, <1>8 DEF History, N
-----------------------------------------------------------------------------
(* The invariant                                                            *)

\* Before the header nothing is rescaled early; after it only streams whose
\* turn has not come have packets, in the source's time base; and no packet
\* is produced while the queues are emptied.
ControlInv ==
    /\ ~header_written => /\ init \in {"no", "header"}
                          /\ \A s \in Streams : time_base[s] = "source"
    /\ header_written => init # "header" /\ \A s \in Streams : initialized[s]
    /\ init = "header" => \A s \in Streams : initialized[s]
    /\ busy # 0 => init = "no" /\ phase \in {"loop", "dead"}
    /\ header_written =>
          \A s \in Streams : muxing_queue[s] # <<>> =>
              init \in {"turn", "drain"} /\ s >= turn /\ time_base[s] = "source"

StreamInv ==
    \A s \in Streams :
        History(s, accepted[s], muxed[s], muxing_queue[s], last_mux_dts[s])

MuxInv == TypeOK /\ ControlInv /\ StreamInv

\* The last dts is a time, or there was none.
LEMMA LastType ==
    ASSUME TypeOK, NEW s \in Streams
    PROVE  last_mux_dts[s] \in Int \cup {NoPts}
  BY DEF TypeOK

\* p are times of src in mux_timebase: one of its own once it is in the
\* stream's time base, and those it came with until then.
Timed(s, src, p) ==
    /\ InStreamTime(s, p) \in Stamps(s, src)
    /\ time_base[s] # "stream" => p = src

\* Whichever side rescales, a packet is rescaled exactly once.
LEMMA RescaledOnce ==
    ASSUME NEW s \in Streams, NEW src
    PROVE  Timed(s, src, InMuxTimebase(s, src))
  BY DEF Timed, InStreamTime, InMuxTimebase, Stamps

\* Copied audio is given a time of its own, whatever the samples before it.
LEMMA DeltaTimed ==
    ASSUME TypeOK, NEW s \in Streams, NEW t \in Times, NEW duration \in Durations
    PROVE  /\ Both(t) \in Packets
           /\ Timed(s, Both(t), Delta(s, t, duration))
           /\ [delta_last EXCEPT ![s] = Start(s, t, duration) + duration]
                  \in [Streams -> Int \cup {NoPts}]
<1>1. Both(t) \in Packets
  BY DEF Both, Packets
<1>2. duration \in Int /\ Samples[s][t] \in Int
  BY MuxAssumption
<1>3. CASE ~Continues(s, t, duration)
  <2>1. Delta(s, t, duration) = InMuxTimebase(s, Both(t))
        /\ Start(s, t, duration) = Samples[s][t]
    BY <1>3 DEF Delta, Start
  <2>2. Timed(s, Both(t), InMuxTimebase(s, Both(t)))
    BY RescaledOnce
  <2>3. Timed(s, Both(t), Delta(s, t, duration))
    BY <2>1, <2>2
  <2>4. Start(s, t, duration) + duration \in Int
    BY <1>2, <2>1
  <2>5. [delta_last EXCEPT ![s] = Start(s, t, duration) + duration]
           \in [Streams -> Int \cup {NoPts}]
    BY <2>4 DEF TypeOK
  <2> QED
    BY <1>1, <2>3, <2>5
<1>4. CASE Continues(s, t, duration)
  <2> DEFINE n == Start(s, t, duration)
  <2>1. /\ s \in Coarse /\ time_base[s] = "stream" /\ delta_last[s] \in Int
        /\ Lowest[s][t] \in Int /\ Highest[s][t] \in Int
        /\ Lowest[s][t] <= Highest[s][t]
    BY <1>4, MuxAssumption DEF Continues, TypeOK
  <2>2. n \in Lowest[s][t]..Highest[s][t]
    BY <1>4, <2>1 DEF Start, Clipped
  <2>3. Delta(s, t, duration) = Both(FromSamples[s][n])
    BY <1>4 DEF Delta
  <2>4. n + duration \in Int
    BY <1>2, <2>2
  <2> HIDE DEF n
  <2>5. Both(t).pts = t /\ Both(t).dts = t
    BY DEF Both
  <2>6. Both(FromSamples[s][n]) \in Stamps(s, Both(t))
    <3>1. Both(FromSamples[s][n])
             \in {Both(FromSamples[s][k]) : k \in Lowest[s][t]..Highest[s][t]}
      BY <2>2
    <3> QED
      BY <2>1, <2>5, <3>1 DEF Stamps
  <2>7. Timed(s, Both(t), Delta(s, t, duration))
    BY <2>1, <2>3, <2>6 DEF Timed, InStreamTime
  <2> QED
    BY <1>1, <2>4, <2>7 DEF TypeOK, n
<1> QED
  BY <1>3, <1>4

LEMMA MuxEffect ==
    ASSUME TypeOK, NEW s \in Streams, NEW src \in Packets, NEW p,
           InStreamTime(s, p) \in Stamps(s, src), mux(s, p)
    PROVE  \E q :
             /\ Given(s, src, last_mux_dts[s], q)
             /\ muxed' = [muxed EXCEPT ![s] = Append(@, q)]
             /\ last_mux_dts' = [last_mux_dts EXCEPT ![s] = q.dts]
             /\ muxed' \in [Streams -> Seq(Muxed)]
             /\ last_mux_dts' \in [Streams -> Int \cup {NoPts}]
             /\ finished' \in [Streams -> SUBSET {"encoder", "muxer"}]
             /\ main_return_code' \in {0, 1}
             /\ time_base' = time_base
<1> DEFINE q == Repaired(s, InStreamTime(s, p))
<1>1. Given(s, src, last_mux_dts[s], q)
  BY RepairedFacts, LastType
<1>2. q \in Muxed /\ q.dts \in Int
  BY <1>1 DEF Given, Muxed
<1>3. muxed' = [muxed EXCEPT ![s] = Append(@, q)]
      /\ last_mux_dts' = [last_mux_dts EXCEPT ![s] = q.dts]
      /\ time_base' = time_base
  BY DEF mux
<1> HIDE DEF q
<1>4. muxed' \in [Streams -> Seq(Muxed)]
  BY <1>2, <1>3 DEF TypeOK
<1>5. last_mux_dts' \in [Streams -> Int \cup {NoPts}]
  BY <1>2, <1>3 DEF TypeOK
<1>6. /\ finished' \in [Streams -> SUBSET {"encoder", "muxer"}]
      /\ main_return_code' \in {0, 1}
  <2>1. Closed(s) \in [Streams -> SUBSET {"encoder", "muxer"}]
    BY DEF TypeOK, Closed
  <2> QED
    BY <2>1 DEF mux, TypeOK, flags
<1> QED
  BY <1>1, <1>3, <1>4, <1>5, <1>6

\* A new packet reaches the muxer.
LEMMA DirectInv ==
    ASSUME MuxInv, NEW s \in Streams, NEW src \in Packets, NEW p, init = "no",
           header_written, Timed(s, src, p), mux(s, p),
           accepted' = [accepted EXCEPT ![s] = Append(@, src)],
           muxing_queue' = muxing_queue
    PROVE  StreamInv'
<1>1. TypeOK /\ muxing_queue[s] = <<>>
  BY DEF MuxInv, ControlInv
<1>2. PICK q :
        /\ Given(s, src, last_mux_dts[s], q)
        /\ muxed' = [muxed EXCEPT ![s] = Append(@, q)]
        /\ last_mux_dts' = [last_mux_dts EXCEPT ![s] = q.dts]
  BY <1>1, MuxEffect DEF Timed
<1> SUFFICES ASSUME NEW r \in Streams
             PROVE  History(r, accepted'[r], muxed'[r], muxing_queue'[r], last_mux_dts'[r])
  BY DEF StreamInv
<1>3. History(r, accepted[r], muxed[r], muxing_queue[r], last_mux_dts[r])
  BY DEF MuxInv, StreamInv
<1>4. CASE r # s
  BY <1>1, <1>2, <1>3, <1>4 DEF TypeOK
<1>5. CASE r = s
  <2> DEFINE A == accepted[s]
             M == muxed[s]
             B == Append(A, src)
             last == last_mux_dts[s]
  <2>1. A \in Seq(Packets) /\ M \in Seq(Muxed) /\ <<>> \in Seq(Packets)
    BY <1>1 DEF TypeOK
  <2>2. History(s, A, M, <<>>, last)
    BY <1>1, <1>3, <1>5
  <2>3. /\ accepted'[s] = B /\ muxed'[s] = Append(M, q)
        /\ muxing_queue'[s] = <<>> /\ last_mux_dts'[s] = q.dts
    BY <1>1, <1>2 DEF TypeOK
  <2>4. Given(s, src, last, q)
    BY <1>2
  <2> HIDE DEF A, M, last
  <2>5. Len(M) = Len(A) /\ Len(M) \in Nat
    BY <2>1, <2>2 DEF History
  <2>6. /\ B \in Seq(Packets) /\ Len(B) = Len(M) + 1 /\ B[Len(M) + 1] = src
        /\ \A i \in 1..Len(M) : B[i] = A[i]
    BY <2>1, <2>5
  <2> HIDE DEF B
  <2>7. Len(M) + 1 + Len(<<>>) = Len(B) /\ Len(M) + 1 <= Len(B)
        /\ \A i \in 1..Len(<<>>) : <<>>[i] = B[Len(M) + 1 + i]
    BY <2>5, <2>6
  <2>8. History(s, B, Append(M, q), <<>>, q.dts)
    BY <2>1, <2>2, <2>4, <2>6, <2>7, HistoryMuxed
  <2> QED
    BY <1>5, <2>3, <2>8
<1> QED
  BY <1>4, <1>5

\* The packet that waited longest reaches the muxer.
LEMMA UnqueuedInv ==
    ASSUME MuxInv, unqueue_packet
    PROVE  MuxInv'
<1> DEFINE s   == turn
           src == Head(muxing_queue[turn])
<1>1. /\ TypeOK /\ ControlInv /\ s \in Streams /\ muxing_queue[s] # <<>>
      /\ muxing_queue \in [Streams -> Seq(Packets)]
      /\ init = "drain" /\ header_written /\ time_base[s] = "source"
  BY DEF MuxInv, TypeOK, ControlInv, unqueue_packet
<1>2. src \in Packets /\ Tail(muxing_queue[s]) \in Seq(Packets)
  BY <1>1
<1>3. mux(s, src) /\ InStreamTime(s, src) \in Stamps(s, src)
  BY <1>1 DEF unqueue_packet, Unqueue, InStreamTime, Stamps
<1>4. /\ muxing_queue' = [muxing_queue EXCEPT ![s] = Tail(@)]
      /\ accepted' = accepted
  BY DEF unqueue_packet, history
<1> HIDE DEF s, src
<1>5. PICK q :
        /\ Given(s, src, last_mux_dts[s], q)
        /\ muxed' = [muxed EXCEPT ![s] = Append(@, q)]
        /\ last_mux_dts' = [last_mux_dts EXCEPT ![s] = q.dts]
        /\ muxed' \in [Streams -> Seq(Muxed)]
        /\ last_mux_dts' \in [Streams -> Int \cup {NoPts}]
        /\ finished' \in [Streams -> SUBSET {"encoder", "muxer"}]
        /\ main_return_code' \in {0, 1}
        /\ time_base' = time_base
  BY <1>1, <1>2, <1>3, MuxEffect
<1>6. muxing_queue' \in [Streams -> Seq(Packets)]
  BY <1>1, <1>2, <1>4
<1>7. /\ UNCHANGED <<phase, enc, busy, initialized, header_written, init, turn>>
      /\ UNCHANGED <<fifo_size, accepted, dropped, frame_number, delta_last>>
  BY DEF unqueue_packet, Unqueue, progress, headers
<1>8. TypeOK'
  BY <1>1, <1>5, <1>6, <1>7 DEF TypeOK
<1>9. ControlInv'
  <2>1. \A r \in Streams : muxing_queue'[r] # <<>> => muxing_queue[r] # <<>>
    BY <1>1, <1>4
  <2> QED
    BY <1>1, <1>5, <1>7, <2>1 DEF ControlInv
<1>10. StreamInv'
  <2> SUFFICES ASSUME NEW r \in Streams
               PROVE  History(r, accepted'[r], muxed'[r], muxing_queue'[r], last_mux_dts'[r])
    BY DEF StreamInv
  <2>1. History(r, accepted[r], muxed[r], muxing_queue[r], last_mux_dts[r])
    BY DEF MuxInv, StreamInv
  <2>2. CASE r # s
    BY <1>1, <1>4, <1>5, <2>1, <2>2 DEF TypeOK
  <2>3. CASE r = s
    <3> DEFINE A == accepted[s]
               M == muxed[s]
               Q == muxing_queue[s]
               R == Tail(Q)
               last == last_mux_dts[s]
    <3>1. A \in Seq(Packets) /\ M \in Seq(Muxed) /\ Q \in Seq(Packets) /\ Q # <<>>
      BY <1>1 DEF TypeOK
    <3>2. History(s, A, M, Q, last)
      BY <2>1, <2>3
    <3>3. /\ accepted'[s] = A /\ muxed'[s] = Append(M, q)
          /\ muxing_queue'[s] = R /\ last_mux_dts'[s] = q.dts
      BY <1>1, <1>4, <1>5 DEF TypeOK
    <3>4. Given(s, src, last, q) /\ src = Head(Q)
      BY <1>5 DEF s, src
    <3> HIDE DEF A, M, Q, last
    <3>5. /\ Len(Q) \in Nat \ {0} /\ Len(M) \in Nat /\ Len(A) \in Nat
          /\ R \in Seq(Packets) /\ Len(R) = Len(Q) - 1
          /\ \A i \in 1..Len(R) : R[i] = Q[i + 1]
          /\ Head(Q) = Q[1]
      BY <3>1
    <3> HIDE DEF R
    <3>6. /\ Len(M) + Len(Q) = Len(A)
          /\ \A i \in 1..Len(Q) : Q[i] = A[Len(M) + i]
      BY <3>2 DEF History
    <3>7. src = A[Len(M) + 1]
      BY <3>4, <3>5, <3>6
    <3>8. Len(M) + 1 + Len(R) = Len(A) /\ Len(M) + 1 <= Len(A)
      BY <3>5, <3>6
    <3>9. \A i \in 1..Len(R) : R[i] = A[Len(M) + 1 + i]
      <4> SUFFICES ASSUME NEW i \in 1..Len(R) PROVE R[i] = A[Len(M) + 1 + i]
        OBVIOUS
      <4>1. i + 1 \in 1..Len(Q) /\ Len(M) + (i + 1) = Len(M) + 1 + i
        BY <3>5
      <4> QED
        BY <3>5, <3>6, <4>1
    <3>10. History(s, A, Append(M, q), R, q.dts)
      BY <1>1, <3>1, <3>2, <3>4, <3>5, <3>7, <3>8, <3>9, HistoryMuxed
    <3> QED
      BY <2>3, <3>3, <3>10
  <2> QED
    BY <2>2, <2>3
<1> QED
  BY <1>8, <1>9, <1>10 DEF MuxInv

\* A packet waits for the header.
LEMMA EnqueuedInv ==
    ASSUME MuxInv, NEW s \in Streams, NEW src \in Packets, NEW p,
           ~header_written, Timed(s, src, p), enqueue(s, src, p)
    PROVE  /\ StreamInv'
           /\ muxing_queue' \in [Streams -> Seq(Packets)]
           /\ accepted' \in [Streams -> Seq(Packets)]
           /\ fifo_size' \in [Streams -> Nat]
           /\ phase' \in {phase, "dead"}
           /\ UNCHANGED <<flags, times, muxed>>
<1>1. TypeOK /\ p = src
  <2>1. time_base[s] # "stream"
    BY DEF MuxInv, ControlInv
  <2> QED
    BY <2>1 DEF MuxInv, Timed
<1>2. UNCHANGED <<flags, times, muxed>>
  BY DEF enqueue
<1>3. CASE UNCHANGED <<queues, accepted>> /\ phase' = "dead"
  <2>1. UNCHANGED <<muxing_queue, fifo_size, accepted, muxed, last_mux_dts>>
    BY <1>2, <1>3 DEF queues, times
  <2> QED
    BY <1>1, <1>2, <1>3, <2>1 DEF MuxInv, StreamInv, TypeOK
<1>4. ASSUME NEW size,
             Len(muxing_queue[s]) < size,
             size \in {fifo_size[s], NewSize(fifo_size[s])},
             fifo_size' = [fifo_size EXCEPT ![s] = size],
             muxing_queue' = [muxing_queue EXCEPT ![s] = Append(muxing_queue[s], src)],
             accepted' = [accepted EXCEPT ![s] = Append(@, src)],
             UNCHANGED phase
      PROVE  /\ StreamInv'
             /\ muxing_queue' \in [Streams -> Seq(Packets)]
             /\ accepted' \in [Streams -> Seq(Packets)]
             /\ fifo_size' \in [Streams -> Nat]
  <2>1. size \in Nat
    <3>1. fifo_size[s] \in Nat
      BY <1>1 DEF TypeOK
    <3>2. NewSize(fifo_size[s]) \in Nat
      BY <3>1, MuxAssumption DEF NewSize
    <3> QED
      BY <1>4, <3>1, <3>2
  <2>2. /\ muxing_queue' \in [Streams -> Seq(Packets)]
        /\ accepted' \in [Streams -> Seq(Packets)]
        /\ fifo_size' \in [Streams -> Nat]
    <3>1. /\ muxing_queue \in [Streams -> Seq(Packets)]
          /\ accepted \in [Streams -> Seq(Packets)]
          /\ fifo_size \in [Streams -> Nat]
      BY <1>1 DEF TypeOK
    <3>2. Append(muxing_queue[s], src) \in Seq(Packets)
          /\ Append(accepted[s], src) \in Seq(Packets)
      BY <3>1
    <3> QED
      BY <1>4, <2>1, <3>1, <3>2
  <2>3. ASSUME NEW r \in Streams
        PROVE  History(r, accepted'[r], muxed'[r], muxing_queue'[r], last_mux_dts'[r])
    <3>1. History(r, accepted[r], muxed[r], muxing_queue[r], last_mux_dts[r])
      BY DEF MuxInv, StreamInv
    <3>2. muxed' = muxed /\ last_mux_dts' = last_mux_dts
      BY <1>2 DEF times
    <3>3. CASE r # s
      BY <1>1, <1>4, <3>1, <3>2, <3>3 DEF TypeOK
    <3>4. CASE r = s
      <4>1. /\ accepted'[s] = Append(accepted[s], src)
            /\ muxing_queue'[s] = Append(muxing_queue[s], src)
            /\ accepted[s] \in Seq(Packets) /\ muxed[s] \in Seq(Muxed)
            /\ muxing_queue[s] \in Seq(Packets)
        BY <1>1, <1>4 DEF TypeOK
      <4> QED
        BY <3>1, <3>2, <3>4, <4>1, HistoryEnqueued
    <3> QED
      BY <3>3, <3>4
  <2> QED
    BY <2>2, <2>3 DEF StreamInv
<1> QED
  BY <1>1, <1>2, <1>3, <1>4 DEF enqueue

\* However a packet fares in write_packet, the invariant holds after it.
LEMMA WritePacketInv ==
    ASSUME MuxInv, NEW s \in Streams, NEW src \in Packets, NEW p, init = "no",
           Timed(s, src, p), write_packet(s, src, p),
           UNCHANGED <<enc, busy, headers>>,
           delta_last' \in [Streams -> Int \cup {NoPts}]
    PROVE  MuxInv'
<1>1. TypeOK /\ ControlInv /\ StreamInv
  BY DEF MuxInv
<1>2. UNCHANGED <<enc, busy, initialized, header_written, init, turn>>
  BY DEF headers
<1>3. CASE Counted(s) /\ AtLimit(s)
           /\ dropped' = [dropped EXCEPT ![s] = @ + 1]
           /\ UNCHANGED <<phase, flags, queues, times, frame_number, accepted, muxed>>
  <2>1. UNCHANGED <<phase, finished, main_return_code, muxing_queue, fifo_size,
                    time_base, last_mux_dts, frame_number, accepted, muxed>>
    BY <1>3 DEF flags, queues, times
  <2>2. dropped' \in [Streams -> Nat]
    <3>1. dropped \in [Streams -> Nat]
      BY <1>1 DEF TypeOK
    <3>2. dropped[s] + 1 \in Nat
      BY <3>1
    <3> QED
      BY <1>3, <3>1, <3>2
  <2>3. TypeOK'
    BY <1>1, <1>2, <2>1, <2>2 DEF TypeOK
  <2>4. ControlInv' /\ StreamInv'
    BY <1>1, <1>2, <2>1 DEF ControlInv, StreamInv
  <2> QED
    BY <2>3, <2>4 DEF MuxInv
<1>4. CASE ~(Counted(s) /\ AtLimit(s)) /\ dropped' = dropped
           /\ frame_number' = IF Counted(s) THEN [frame_number EXCEPT ![s] = @ + 1]
                                            ELSE frame_number
  <2>1. frame_number' \in [Streams -> Nat] /\ dropped' \in [Streams -> Nat]
    <3>1. frame_number \in [Streams -> Nat] /\ dropped \in [Streams -> Nat]
      BY <1>1 DEF TypeOK
    <3>2. frame_number[s] + 1 \in Nat
      BY <3>1
    <3> QED
      BY <1>4, <3>1, <3>2
  <2>2. CASE /\ header_written /\ mux(s, p)
             /\ accepted' = [accepted EXCEPT ![s] = Append(@, src)]
             /\ UNCHANGED <<queues, phase>>
    <3>1. UNCHANGED <<muxing_queue, fifo_size, phase>>
      BY <2>2 DEF queues
    <3>2. StreamInv'
      BY <2>2, <3>1, DirectInv
    <3>3. PICK q :
            /\ muxed' \in [Streams -> Seq(Muxed)]
            /\ last_mux_dts' \in [Streams -> Int \cup {NoPts}]
            /\ finished' \in [Streams -> SUBSET {"encoder", "muxer"}]
            /\ main_return_code' \in {0, 1}
            /\ time_base' = time_base
      BY <1>1, <2>2, MuxEffect DEF Timed
    <3>4. accepted' \in [Streams -> Seq(Packets)]
      BY <1>1, <2>2 DEF TypeOK
    <3>5. TypeOK'
      BY <1>1, <1>2, <2>1, <3>1, <3>3, <3>4 DEF TypeOK
    <3>6. ControlInv'
      BY <1>1, <1>2, <3>1, <3>3 DEF ControlInv
    <3> QED
      BY <3>2, <3>5, <3>6 DEF MuxInv
  <2>3. CASE ~header_written /\ enqueue(s, src, p)
    <3>1. /\ StreamInv'
          /\ muxing_queue' \in [Streams -> Seq(Packets)]
          /\ accepted' \in [Streams -> Seq(Packets)]
          /\ fifo_size' \in [Streams -> Nat]
          /\ phase' \in {phase, "dead"}
          /\ UNCHANGED <<flags, times, muxed>>
      BY <2>3, EnqueuedInv
    <3>2. UNCHANGED <<finished, main_return_code, time_base, last_mux_dts, muxed>>
      BY <3>1 DEF flags, times
    <3>3. TypeOK'
      BY <1>1, <1>2, <2>1, <3>1, <3>2 DEF TypeOK
    <3>4. ControlInv'
      BY <1>1, <1>2, <2>3, <3>1, <3>2 DEF ControlInv
    <3> QED
      BY <3>1, <3>3, <3>4 DEF MuxInv
  <2> QED
    BY <1>4, <2>2, <2>3 DEF write_packet
<1> QED
  BY <1>3, <1>4 DEF write_packet

\* init_output_stream, in the loop or in flush_encoders
LEMMA InitializeInv ==
    ASSUME MuxInv, NEW s \in Streams, ~initialized[s], init = "no", busy = 0,
           phase \in {"loop", "flush"},
           (initialize(s) /\ UNCHANGED phase) \/ (phase' = "dead" /\ UNCHANGED headers),
           finished' \in [Streams -> SUBSET {"encoder", "muxer"}],
           UNCHANGED <<enc, busy, main_return_code, queues, times, frame_number,
                       history, delta_last>>
    PROVE  MuxInv'
<1>1. TypeOK /\ ControlInv /\ StreamInv
  BY DEF MuxInv
<1>2. UNCHANGED <<muxing_queue, fifo_size, time_base, last_mux_dts, accepted, muxed, dropped>>
  BY DEF queues, times, history
<1>3. StreamInv'
  BY <1>1, <1>2 DEF StreamInv
<1>4. ~header_written
  BY <1>1 DEF ControlInv
<1>5. CASE initialize(s) /\ UNCHANGED phase
  <2>1. TypeOK'
    BY <1>1, <1>2, <1>5 DEF TypeOK, initialize
  <2>2. init' = "header" => \A r \in Streams : initialized'[r]
    BY <1>1, <1>5 DEF initialize, TypeOK
  <2>3. ControlInv'
    BY <1>1, <1>2, <1>4, <1>5, <2>2 DEF ControlInv, initialize
  <2> QED
    BY <1>3, <2>1, <2>3 DEF MuxInv
<1>6. CASE phase' = "dead" /\ UNCHANGED headers
  <2>1. UNCHANGED <<initialized, header_written, init, turn>>
    BY <1>6 DEF headers
  <2>2. TypeOK'
    BY <1>1, <1>2, <1>6, <2>1 DEF TypeOK
  <2>3. ControlInv'
    BY <1>1, <1>2, <1>6, <2>1 DEF ControlInv
  <2> QED
    BY <1>3, <2>2, <2>3 DEF MuxInv
<1> QED
  BY <1>5, <1>6

LEMMA MuxInvNext == MuxInv /\ [Next]_vars => MuxInv'
<1> SUFFICES ASSUME MuxInv, [Next]_vars PROVE MuxInv'
  OBVIOUS
<1>0. TypeOK /\ ControlInv /\ StreamInv
  BY DEF MuxInv
<1> USE DEF progress, headers, flags, queues, times, history
<1>1. CASE write_header
  <2>1. TypeOK' /\ ControlInv'
    <3>1. TypeOK'
      <4>1. 1 \in Streams
        BY MuxAssumption DEF Streams
      <4> QED
        BY <1>0, <1>1, <4>1 DEF write_header, TypeOK
    <3>2. ~header_written
      BY <1>0, <1>1 DEF write_header, ControlInv
    <3>3. \A s \in Streams : initialized[s] /\ s >= 1 /\ time_base[s] = "source"
      BY <1>0, <1>1, <3>2 DEF write_header, ControlInv, Streams
    <3>4. ControlInv'
      BY <1>0, <1>1, <3>2, <3>3 DEF write_header, ControlInv
    <3> QED
      BY <3>1, <3>4
  <2>2. StreamInv'
    BY <1>0, <1>1 DEF write_header, StreamInv
  <2> QED
    BY <2>1, <2>2 DEF MuxInv
<1>2. CASE begin_turn
  <2>1. time_base' \in [Streams -> {"source", "stream"}]
    BY <1>0, <1>2 DEF begin_turn, ImprovedBase, TypeOK
  <2>2. TypeOK'
    BY <1>0, <1>2, <2>1 DEF begin_turn, TypeOK
  <2>3. \A s \in Streams : muxing_queue[s] # <<>> => time_base'[s] = time_base[s]
    BY <1>0, <1>2 DEF begin_turn, ImprovedBase, TypeOK
  <2>4. header_written
    BY <1>0, <1>2 DEF begin_turn, ControlInv
  <2>5. ControlInv'
    BY <1>0, <1>2, <2>3, <2>4 DEF begin_turn, ControlInv
  <2>6. StreamInv'
    BY <1>0, <1>2 DEF begin_turn, StreamInv
  <2> QED
    BY <2>2, <2>5, <2>6 DEF MuxInv
<1>3. CASE unqueue_packet
  BY <1>3, UnqueuedInv
<1>4. CASE end_turn
  <2>1. header_written
    BY <1>0, <1>4 DEF end_turn, ControlInv
  <2>2. turn \in 1..NbStreams /\ NbStreams \in Nat
    BY <1>0, MuxAssumption DEF TypeOK, Streams
  <2>3. TypeOK'
    <3>1. turn < NbStreams => turn + 1 \in Streams
      BY <2>2 DEF Streams
    <3> QED
      BY <1>0, <1>4, <3>1 DEF end_turn, TypeOK
  <2>4. ASSUME NEW s \in Streams, muxing_queue[s] # <<>>
        PROVE  s > turn /\ time_base[s] = "source" /\ s \in 1..NbStreams
    BY <1>0, <1>4, <2>1, <2>2, <2>4 DEF end_turn, ControlInv, Streams
  <2>5. CASE turn < NbStreams
    BY <1>0, <1>4, <2>1, <2>2, <2>3, <2>4, <2>5 DEF end_turn, ControlInv, MuxInv, StreamInv, Streams
  <2>6. CASE ~(turn < NbStreams)
    <3>1. \A s \in Streams : muxing_queue[s] = <<>>
      BY <2>2, <2>4, <2>6
    <3> QED
      BY <1>0, <1>4, <2>1, <2>3, <2>6, <3>1 DEF end_turn, ControlInv, MuxInv, StreamInv
  <2> QED
    BY <2>5, <2>6
<1>5. CASE end_frame
  BY <1>0, <1>5 DEF end_frame, MuxInv, TypeOK, ControlInv, StreamInv
<1>6. CASE end_loop
  BY <1>0, <1>6 DEF end_loop, InLoop, MuxInv, TypeOK, ControlInv, StreamInv
<1>7. CASE next_encoder
  <2>1. enc \in 1..NbStreams /\ NbStreams \in Nat
    BY <1>0, MuxAssumption DEF TypeOK, Streams
  <2>2. TypeOK'
    <3>1. enc < NbStreams => enc + 1 \in Streams
      BY <2>1 DEF Streams
    <3> QED
      BY <1>0, <1>7, <3>1 DEF next_encoder, Flushing, TypeOK
  <2>3. ControlInv' /\ StreamInv'
    BY <1>0, <1>7 DEF next_encoder, Flushing, ControlInv, StreamInv
  <2> QED
    BY <2>2, <2>3 DEF MuxInv
<1>8. ASSUME NEW s \in Streams, init_output_stream(s) PROVE MuxInv'
  <2>1. finished' \in [Streams -> SUBSET {"encoder", "muxer"}]
    BY <1>0, <1>8 DEF init_output_stream, TypeOK
  <2>2. busy = 0 /\ init = "no" /\ phase = "loop" /\ ~initialized[s]
    BY <1>8 DEF init_output_stream, InLoop
  <2>3. (initialize(s) /\ UNCHANGED phase) \/ (phase' = "dead" /\ UNCHANGED headers)
    BY <1>8 DEF init_output_stream, initialize
  <2>4. UNCHANGED <<enc, busy, main_return_code, queues, times, frame_number,
                    history, delta_last>>
    BY <1>8 DEF init_output_stream
  <2> QED
    BY <2>1, <2>2, <2>3, <2>4, InitializeInv
<1>9. ASSUME NEW s \in Streams, do_streamcopy(s) PROVE MuxInv'
  <2>1. init = "no" /\ UNCHANGED <<enc, busy, headers>>
    BY <1>9 DEF do_streamcopy, InLoop
  <2>2. ASSUME NEW src \in Packets, write_packet(s, src, InMuxTimebase(s, src)),
               UNCHANGED delta_last
        PROVE  MuxInv'
    <3>1. delta_last' \in [Streams -> Int \cup {NoPts}]
      BY <1>0, <2>2 DEF TypeOK
    <3> QED
      BY <2>1, <2>2, <3>1, RescaledOnce, WritePacketInv
  <2>3. ASSUME NEW t \in Times, NEW duration \in Durations,
               write_packet(s, Both(t), Delta(s, t, duration)),
               delta_last' = [delta_last EXCEPT ![s] = Start(s, t, duration) + duration]
        PROVE  MuxInv'
    BY <1>0, <2>1, <2>3, DeltaTimed, WritePacketInv
  <2> QED
    BY <1>9, <2>2, <2>3 DEF do_streamcopy
<1>10. ASSUME NEW s \in Streams, reap_filters(s) PROVE MuxInv'
  BY <1>0, <1>10 DEF reap_filters, InLoop, MuxInv, TypeOK, ControlInv, StreamInv
<1>11. ASSUME NEW s \in Streams, send_frame(s) PROVE MuxInv'
  <2>1. frame_number' \in [Streams -> Nat]
    <3>1. frame_number \in [Streams -> Nat]
      BY <1>0 DEF TypeOK
    <3>2. frame_number[s] + 1 \in Nat
      BY <3>1
    <3> QED
      BY <1>11, <3>1, <3>2 DEF send_frame
  <2> QED
    BY <1>0, <1>11, <2>1 DEF send_frame, MuxInv, TypeOK, ControlInv, StreamInv
<1>12. ASSUME NEW s \in Streams, receive_packet(s) PROVE MuxInv'
  <2>1. s # 0
    BY DEF Streams
  <2> QED
    BY <1>0, <1>12, <2>1, RescaledOnce, WritePacketInv
       DEF receive_packet, ControlInv, TypeOK
<1>13. ASSUME NEW s \in Streams, finish(s) PROVE MuxInv'
  <2>1. finished' \in [Streams -> SUBSET {"encoder", "muxer"}]
    <3>1. finished \in [Streams -> SUBSET {"encoder", "muxer"}]
      BY <1>0 DEF TypeOK
    <3>2. \E flag \in SUBSET {"encoder", "muxer"} :
             finished' = [finished EXCEPT ![s] = @ \cup flag]
      BY <1>13 DEF finish
    <3> QED
      BY <3>1, <3>2
  <2>2. UNCHANGED <<progress, headers, main_return_code, queues, times, frame_number,
                    history, delta_last>>
    BY <1>13 DEF finish
  <2>3. TypeOK'
    BY <1>0, <2>1, <2>2
       DEF TypeOK, progress, headers, queues, times, history
  <2>4. ControlInv'
    BY <1>0, <2>2 DEF ControlInv, progress, headers, queues, times
  <2>5. StreamInv'
    BY <1>0, <2>2 DEF StreamInv, queues, times, history
  <2> QED
    BY <2>3, <2>4, <2>5 DEF MuxInv
<1>14. ASSUME NEW s \in Streams, finish_without_data(s) PROVE MuxInv'
  <2>1. finished' \in [Streams -> SUBSET {"encoder", "muxer"}]
    BY <1>0, <1>14 DEF finish_without_data, TypeOK
  <2>2. busy = 0 /\ init = "no" /\ phase = "flush" /\ ~initialized[s]
    BY <1>0, <1>14 DEF finish_without_data, Flushing, ControlInv
  <2>3. (initialize(s) /\ UNCHANGED phase) \/ (phase' = "dead" /\ UNCHANGED headers)
    BY <1>14 DEF finish_without_data, initialize
  <2>4. UNCHANGED <<enc, busy, main_return_code, queues, times, frame_number,
                    history, delta_last>>
    BY <1>14 DEF finish_without_data
  <2> QED
    BY <2>1, <2>2, <2>3, <2>4, InitializeInv
<1>15. ASSUME NEW s \in Streams, flush_packet(s) PROVE MuxInv'
  BY <1>0, <1>15, RescaledOnce, WritePacketInv DEF flush_packet, Flushing, TypeOK
<1>16. CASE UNCHANGED vars
  BY <1>0, <1>16 DEF vars, MuxInv, TypeOK, ControlInv, StreamInv
<1> QED
  BY <1>1, <1>2, <1>3, <1>4, <1>5, <1>6, <1>7, <1>8, <1>9, <1>10, <1>11, <1>12,
     <1>13, <1>14, <1>15, <1>16 DEF Next, check_init_output_file

LEMMA MuxInvInit == Init => MuxInv
<1> SUFFICES ASSUME Init PROVE MuxInv
  OBVIOUS
<1>1. 1 \in Streams
  BY MuxAssumption DEF Streams
<1>2. TypeOK
  <2>1. /\ muxing_queue \in [Streams -> Seq(Packets)]
        /\ accepted \in [Streams -> Seq(Packets)]
    <3>1. <<>> \in Seq(Packets)
      OBVIOUS
    <3> QED
      BY <3>1 DEF Init
  <2>2. muxed \in [Streams -> Seq(Muxed)]
    <3>1. <<>> \in Seq(Muxed)
      OBVIOUS
    <3> QED
      BY <3>1 DEF Init
  <2>3. /\ fifo_size \in [Streams -> Nat] /\ frame_number \in [Streams -> Nat]
        /\ dropped \in [Streams -> Nat]
        /\ last_mux_dts \in [Streams -> Int \cup {NoPts}]
        /\ delta_last \in [Streams -> Int \cup {NoPts}]
    BY MuxAssumption DEF Init
  <2>4. /\ initialized \in [Streams -> BOOLEAN]
        /\ time_base \in [Streams -> {"source", "stream"}]
        /\ finished \in [Streams -> SUBSET {"encoder", "muxer"}]
    BY DEF Init
  <2>5. /\ header_written \in BOOLEAN /\ main_return_code \in {0, 1}
        /\ phase \in {"loop", "flush", "end", "dead"}
        /\ init \in {"no", "header", "turn", "drain"}
        /\ enc \in Streams /\ turn \in Streams /\ busy \in {0} \cup Streams
    BY <1>1 DEF Init
  <2> QED
    BY <2>1, <2>2, <2>3, <2>4, <2>5 DEF TypeOK
<1>3. ControlInv
  BY DEF Init, ControlInv
<1>4. ASSUME NEW s \in Streams PROVE History(s, <<>>, <<>>, <<>>, NoPts)
  BY DEF History
<1>5. StreamInv
  BY <1>4 DEF StreamInv, Init
<1> QED
  BY <1>2, <1>3, <1>5 DEF MuxInv

LEMMA MuxInvAlways == Spec => []MuxInv
  BY MuxInvInit, MuxInvNext, PTL DEF Spec
-----------------------------------------------------------------------------
(* What a reader should know                                                *)

\* Every variable keeps its type.
THEOREM TypeCorrect == Spec => []TypeOK
<1>1. MuxInv => TypeOK
  BY DEF MuxInv
<1> QED
  BY <1>1, MuxInvAlways, PTL

\* Whatever the size of the queues and the order in which streams are
\* initialised, each stream's packets reach the muxer once and in order.
THEOREM PacketsInOrder == Spec => []NonePassedOver
<1>1. MuxInv => NonePassedOver
  BY DEF MuxInv, ControlInv, StreamInv, History, NonePassedOver
<1> QED
  BY <1>1, MuxInvAlways, PTL

\* Whatever times packets come with, the muxer's dts never go backwards.
THEOREM DtsMonotone == Spec => []MonotoneDts
<1>1. MuxInv => MonotoneDts
  BY MuxAssumption DEF MuxInv, StreamInv, History, MonotoneDts
<1> QED
  BY <1>1, MuxInvAlways, PTL

\* Whatever times packets come with, none leaves with its pts before its dts.
THEOREM PtsInOrder == Spec => []PtsNotBeforeDts
<1>1. MuxInv => PtsNotBeforeDts
  BY DEF MuxInv, StreamInv, History, PtsNotBeforeDts, WellTimed
<1> QED
  BY <1>1, MuxInvAlways, PTL

\* A well timed packet keeps a time of its own across the change of time base
\* at the header, or is late by what the packet before it demands; copied
\* audio never drifts from the time it came with by more than its rounding.
THEOREM WellTimedKept == Spec => []TimesKept
<1>1. MuxInv => TimesKept
  BY DEF MuxInv, StreamInv, History, TimesKept
<1> QED
  BY <1>1, MuxInvAlways, PTL
-----------------------------------------------------------------------------
(* Limits and failures                                                      *)

\* Every way a new packet can take.
LEMMA WritePacketCases ==
    ASSUME TypeOK, NEW s \in Streams, NEW src \in Packets, NEW p,
           write_packet(s, src, p)
    PROVE  \/ /\ Counted(s) /\ AtLimit(s)
              /\ dropped' = [dropped EXCEPT ![s] = @ + 1]
              /\ UNCHANGED <<accepted, frame_number, phase, flags, queues>>
           \/ /\ Counted(s) => ~AtLimit(s)
              /\ frame_number' = IF Counted(s) THEN [frame_number EXCEPT ![s] = @ + 1]
                                               ELSE frame_number
              /\ accepted' = [accepted EXCEPT ![s] = Append(@, src)]
              /\ UNCHANGED <<dropped, phase>>
              /\ \/ UNCHANGED queues /\ (UNCHANGED flags \/ finished' = Closed(s))
                 \/ UNCHANGED flags /\ enqueue(s, src, p)
           \/ /\ frame_number' = IF Counted(s) THEN [frame_number EXCEPT ![s] = @ + 1]
                                               ELSE frame_number
              /\ phase' = "dead"
              /\ UNCHANGED <<accepted, dropped, flags, queues>>
  BY DEF write_packet, mux, enqueue

Limits(s) ==
    /\ Len(accepted[s]) <= max_frames[s]
    /\ Counted(s) => /\ dropped[s] > 0 => Len(accepted[s]) = max_frames[s]
                     /\ phase # "dead" => frame_number[s] = Len(accepted[s])
    /\ ~Counted(s) => Len(accepted[s]) <= frame_number[s] /\ frame_number[s] <= max_frames[s]

LimitInv == TypeOK /\ \A s \in Streams : Limits(s)

\* Whatever leaves the packets and their counts alone keeps the limits.
LEMMA LimitsKept ==
    ASSUME LimitInv, UNCHANGED <<accepted, dropped, frame_number>>,
           phase' # "dead" => phase # "dead"
    PROVE  \A s \in Streams : Limits(s)'
  BY DEF LimitInv, Limits, Counted

LEMMA WriteLimits ==
    ASSUME LimitInv, NEW s \in Streams, NEW src \in Packets, NEW p, phase # "dead",
           ~Counted(s) => Len(accepted[s]) < frame_number[s], write_packet(s, src, p)
    PROVE  \A r \in Streams : Limits(r)'
<1>1. /\ TypeOK
      /\ accepted \in [Streams -> Seq(Packets)] /\ max_frames \in [Streams -> Nat]
      /\ frame_number \in [Streams -> Nat] /\ dropped \in [Streams -> Nat]
  BY MuxAssumption DEF LimitInv, TypeOK
<1>2. Len(accepted[s]) \in Nat /\ frame_number[s] \in Nat /\ dropped[s] \in Nat
      /\ max_frames[s] \in Nat
      /\ Len(Append(accepted[s], src)) = Len(accepted[s]) + 1
  BY <1>1
<1>3. Limits(s)
  BY DEF LimitInv
<1>4. ASSUME NEW r \in Streams, r # s PROVE Limits(r)'
  <2>1. Limits(r)
    BY DEF LimitInv
  <2>2. /\ accepted'[r] = accepted[r] /\ frame_number'[r] = frame_number[r]
        /\ dropped'[r] = dropped[r]
    BY <1>1, <1>4, WritePacketCases
  <2> QED
    BY <2>1, <2>2 DEF Limits, Counted
<1>5. Limits(s)'
  <2>1. CASE /\ Counted(s) /\ AtLimit(s)
             /\ dropped' = [dropped EXCEPT ![s] = @ + 1]
             /\ UNCHANGED <<accepted, frame_number, phase>>
    BY <1>1, <1>2, <1>3, <2>1 DEF Limits, AtLimit, Counted
  <2>2. CASE /\ Counted(s) => ~AtLimit(s)
             /\ frame_number' = IF Counted(s) THEN [frame_number EXCEPT ![s] = @ + 1]
                                              ELSE frame_number
             /\ accepted' = [accepted EXCEPT ![s] = Append(@, src)]
             /\ UNCHANGED <<dropped, phase>>
    <3>1. /\ Len(accepted'[s]) = Len(accepted[s]) + 1 /\ dropped'[s] = dropped[s]
          /\ frame_number'[s] = IF Counted(s) THEN frame_number[s] + 1 ELSE frame_number[s]
      BY <1>1, <1>2, <2>2
    <3> QED
      BY <1>2, <1>3, <2>2, <3>1 DEF Limits, AtLimit, Counted
  <2>3. CASE /\ frame_number' = IF Counted(s) THEN [frame_number EXCEPT ![s] = @ + 1]
                                              ELSE frame_number
             /\ phase' = "dead"
             /\ UNCHANGED <<accepted, dropped>>
    BY <1>2, <1>3, <2>3 DEF Limits, Counted
  <2> QED
    BY <1>1, <2>1, <2>2, <2>3, WritePacketCases
<1> QED
  BY <1>4, <1>5

\* What do_streamcopy hands to write_packet.
LEMMA CopiedPacket ==
    ASSUME NEW s \in Streams, do_streamcopy(s)
    PROVE  \E src \in Packets : \E p : write_packet(s, src, p)
<1>1. \A t \in Times : Both(t) \in Packets
  BY DEF Both, Packets
<1> QED
  BY <1>1 DEF do_streamcopy

LEMMA LimitInvNext == LimitInv /\ TypeOK' /\ [Next]_vars => LimitInv'
<1> SUFFICES ASSUME LimitInv, TypeOK', [Next]_vars PROVE \A s \in Streams : Limits(s)'
  BY DEF LimitInv
<1>0. TypeOK /\ \A s \in Streams : Limits(s)
  BY DEF LimitInv
<1>1. CASE /\ UNCHANGED <<accepted, dropped, frame_number>>
           /\ phase' # "dead" => phase # "dead"
  BY <1>1, LimitsKept
<1>2. ASSUME check_init_output_file \/ end_frame \/ end_loop \/ next_encoder \/ UNCHANGED vars
      PROVE  /\ UNCHANGED <<accepted, dropped, frame_number>>
             /\ phase' # "dead" => phase # "dead"
  BY <1>2 DEF check_init_output_file, write_header, begin_turn, unqueue_packet, Unqueue,
     end_turn, end_frame, end_loop, InLoop, next_encoder, Flushing, vars, progress, history
<1>3. ASSUME NEW s \in Streams,
             init_output_stream(s) \/ reap_filters(s) \/ finish(s) \/ finish_without_data(s)
      PROVE  /\ UNCHANGED <<accepted, dropped, frame_number>>
             /\ phase' # "dead" => phase # "dead"
  BY <1>3 DEF init_output_stream, InLoop, reap_filters, finish, finish_without_data,
     Flushing, progress, history
<1>4. ASSUME NEW s \in Streams, do_streamcopy(s) PROVE \A r \in Streams : Limits(r)'
  BY <1>4, CopiedPacket, WriteLimits DEF do_streamcopy, InLoop, Counted
<1>5. ASSUME NEW s \in Streams, receive_packet(s) PROVE \A r \in Streams : Limits(r)'
  BY <1>5, WriteLimits DEF receive_packet, HasPacket
<1>6. ASSUME NEW s \in Streams, flush_packet(s) PROVE \A r \in Streams : Limits(r)'
  BY <1>6, WriteLimits DEF flush_packet, Flushing, HasPacket
<1>7. ASSUME NEW s \in Streams, send_frame(s) PROVE \A r \in Streams : Limits(r)'
  <2>1. UNCHANGED <<accepted, dropped, phase>> /\ ~Counted(s)
        /\ frame_number[s] < max_frames[s]
        /\ frame_number' = [frame_number EXCEPT ![s] = @ + 1]
    BY <1>7 DEF send_frame, progress, history
  <2> SUFFICES ASSUME NEW r \in Streams PROVE Limits(r)'
    OBVIOUS
  <2>2. Limits(r) /\ accepted \in [Streams -> Seq(Packets)]
        /\ frame_number \in [Streams -> Nat] /\ max_frames \in [Streams -> Nat]
    BY <1>0, MuxAssumption DEF TypeOK
  <2>3. Len(accepted[r]) \in Nat /\ frame_number[r] \in Nat /\ max_frames[r] \in Nat
    BY <2>2
  <2>4. frame_number'[r] = IF r = s THEN frame_number[r] + 1 ELSE frame_number[r]
    BY <2>1, <2>2
  <2> QED
    BY <2>1, <2>2, <2>3, <2>4 DEF Limits, Counted
<1> QED
  BY <1>1, <1>2, <1>3, <1>4, <1>5, <1>6, <1>7 DEF Next

LEMMA LimitsHold == Spec => []LimitInv
<1>1. Init => LimitInv
  <2> SUFFICES ASSUME Init PROVE LimitInv
    OBVIOUS
  <2>1. TypeOK
    BY MuxInvInit DEF MuxInv
  <2>2. ASSUME NEW s \in Streams PROVE Limits(s)
    BY MuxAssumption DEF Init, Limits
  <2> QED
    BY <2>1, <2>2 DEF LimitInv
<1>2. LimitInv /\ [Next]_vars /\ TypeOK' => LimitInv'
  BY LimitInvNext
<1> QED
  BY <1>1, <1>2, TypeCorrect, PTL DEF Spec

\* -frames is kept to exactly, whatever waits for the header.
THEOREM LimitsExact == Spec => []LimitExact
<1>1. LimitInv => LimitExact
  BY DEF LimitInv, Limits, LimitExact
<1> QED
  BY <1>1, LimitsHold, PTL
-----------------------------------------------------------------------------
(* What the main loop sees of the muxing side between two of its turns      *)

\* Between two turns the header is written as soon as every output has its
\* parameters; till then the muxer has had nothing, from then on everything
\* kept, and what is counted in write_packet is what was kept.  The scheduler's
\* cur_dts (st->cur_dts, set by the muxer) is therefore known exactly when all
\* outputs are initialised and one packet was counted.
SettledBetweenTurns ==
    InLoop =>
        /\ header_written <=> \A s \in Streams : initialized[s]
        /\ \A s \in Streams :
              /\ Len(muxed[s]) = IF header_written THEN Len(accepted[s]) ELSE 0
              /\ Counted(s) => frame_number[s] = Len(accepted[s])

\* The header is never forgotten, and nothing goes to the muxer before it.
HeaderInv ==
    /\ ~header_written /\ init = "no" /\ phase # "dead" =>
          \E s \in Streams : ~initialized[s]
    /\ ~header_written => \A s \in Streams : muxed[s] = <<>>

\* A new packet goes to the muxer only after the header.
LEMMA WriteHeader ==
    ASSUME TypeOK, HeaderInv, NEW s \in Streams, NEW src \in Packets, NEW p,
           write_packet(s, src, p),
           UNCHANGED headers, phase # "dead"
    PROVE  HeaderInv'
<1>1. UNCHANGED <<initialized, header_written, init>>
  BY DEF headers
<1>2. header_written \/ muxed' = muxed
  BY DEF write_packet, enqueue
<1> QED
  BY <1>1, <1>2 DEF HeaderInv

LEMMA HeaderInvNext == MuxInv /\ HeaderInv /\ [Next]_vars => HeaderInv'
<1> SUFFICES ASSUME MuxInv, HeaderInv, [Next]_vars PROVE HeaderInv'
  OBVIOUS
<1>0. TypeOK /\ ControlInv
  BY DEF MuxInv
<1>1. CASE UNCHANGED <<headers, muxed>> /\ (phase # "dead" \/ UNCHANGED phase)
  BY <1>1 DEF headers, HeaderInv
<1>2. ASSUME end_frame \/ end_loop \/ next_encoder \/ UNCHANGED vars
      PROVE  UNCHANGED <<headers, muxed>> /\ (phase # "dead" \/ UNCHANGED phase)
  BY <1>2 DEF end_frame, end_loop, next_encoder, InLoop, Flushing, vars, progress, history
<1>3. ASSUME NEW s \in Streams, reap_filters(s) \/ send_frame(s) \/ finish(s)
      PROVE  UNCHANGED <<headers, muxed>> /\ (phase # "dead" \/ UNCHANGED phase)
  BY <1>3 DEF reap_filters, send_frame, finish, InLoop, history, progress
<1>4. CASE check_init_output_file
  <2>1. CASE write_header
    BY <2>1 DEF write_header, HeaderInv, history
  <2>2. CASE begin_turn \/ unqueue_packet \/ end_turn
    BY <1>0, <2>2 DEF begin_turn, unqueue_packet, end_turn, ControlInv, HeaderInv, headers
  <2> QED
    BY <1>4, <2>1, <2>2 DEF check_init_output_file
<1>5. ASSUME NEW s \in Streams, init_output_stream(s) \/ finish_without_data(s)
      PROVE  HeaderInv'
  <2>1. /\ (initialize(s) /\ UNCHANGED phase) \/ (phase' = "dead" /\ UNCHANGED headers)
        /\ UNCHANGED muxed
    BY <1>5 DEF init_output_stream, finish_without_data, history
  <2>2. CASE initialize(s) /\ UNCHANGED phase
    <3>1. initialized' = [initialized EXCEPT ![s] = TRUE] /\ header_written' = header_written
          /\ (init' = "no" => \E r \in Streams \ {s} : ~initialized[r])
      BY <2>2 DEF initialize
    <3>2. init' = "no" => \E r \in Streams : ~initialized'[r]
      BY <1>0, <3>1 DEF TypeOK
    <3> QED
      BY <2>1, <3>1, <3>2 DEF HeaderInv
  <2>3. CASE phase' = "dead" /\ UNCHANGED headers
    BY <2>1, <2>3 DEF headers, HeaderInv
  <2> QED
    BY <2>1, <2>2, <2>3
<1>6. ASSUME NEW s \in Streams, do_streamcopy(s) \/ receive_packet(s) \/ flush_packet(s)
      PROVE  HeaderInv'
  BY <1>0, <1>6, CopiedPacket, WriteHeader
     DEF do_streamcopy, receive_packet, flush_packet, InLoop, Flushing
<1> QED
  BY <1>1, <1>2, <1>3, <1>4, <1>5, <1>6 DEF Next

\* For any streams and queues: what Transcode takes for granted of the muxing
\* side holds whenever its loop is at a turn.
THEOREM MuxingSettled == Spec => []SettledBetweenTurns
<1>1. Init => HeaderInv
  BY MuxAssumption DEF Init, HeaderInv
<1>2. MuxInv /\ HeaderInv /\ LimitInv => SettledBetweenTurns
  <2> SUFFICES ASSUME MuxInv, HeaderInv, LimitInv, InLoop, NEW s \in Streams
               PROVE  /\ header_written <=> \A r \in Streams : initialized[r]
                      /\ Len(muxed[s]) = IF header_written THEN Len(accepted[s]) ELSE 0
                      /\ Counted(s) => frame_number[s] = Len(accepted[s])
    <3>1. 1 \in Streams
      BY MuxAssumption DEF Streams
    <3> QED
      BY <3>1 DEF SettledBetweenTurns
  <2>1. header_written <=> \A r \in Streams : initialized[r]
    BY DEF MuxInv, ControlInv, HeaderInv, InLoop
  <2>2. Len(muxed[s]) + Len(muxing_queue[s]) = Len(accepted[s])
    BY DEF MuxInv, StreamInv, History
  <2>3. /\ header_written => muxing_queue[s] = <<>>
        /\ ~header_written => muxed[s] = <<>>
    BY DEF MuxInv, ControlInv, HeaderInv, InLoop
  <2>4. Len(muxed[s]) \in Nat /\ Len(accepted[s]) \in Nat
    BY DEF MuxInv, TypeOK
  <2>5. Counted(s) => frame_number[s] = Len(accepted[s])
    BY DEF LimitInv, Limits, InLoop
  <2>6. Len(muxed[s]) = IF header_written THEN Len(accepted[s]) ELSE 0
    <3>1. CASE header_written
      <4>1. Len(muxing_queue[s]) = 0
        BY <2>3, <3>1
      <4> QED
        BY <2>2, <2>4, <3>1, <4>1
    <3>2. CASE ~header_written
      BY <2>3, <3>2
    <3> QED
      BY <3>1, <3>2
  <2> QED
    BY <2>1, <2>5, <2>6
<1> QED
  BY <1>1, <1>2, HeaderInvNext, MuxInvAlways, LimitsHold, PTL DEF Spec
-----------------------------------------------------------------------------
(* The size of the queues                                                   *)

Bounded(s) == /\ Len(muxing_queue[s]) <= fifo_size[s]
              /\ fifo_size[s] <= Larger(InitialSize, max_muxing_queue_size)

LEMMA EnqueueBounded ==
    ASSUME TypeOK, QueueBounded, NEW s \in Streams, NEW src \in Packets, NEW p,
           enqueue(s, src, p)
    PROVE  QueueBounded'
<1>1. /\ muxing_queue \in [Streams -> Seq(Packets)] /\ fifo_size \in [Streams -> Nat]
      /\ InitialSize \in Nat /\ max_muxing_queue_size \in Nat
  BY MuxAssumption DEF TypeOK
<1>2. CASE UNCHANGED queues
  BY <1>2 DEF queues, QueueBounded
<1>3. ASSUME NEW size,
             size = IF Len(muxing_queue[s]) < fifo_size[s] THEN fifo_size[s]
                    ELSE NewSize(fifo_size[s]),
             Len(muxing_queue[s]) < size,
             fifo_size' = [fifo_size EXCEPT ![s] = size],
             muxing_queue' = [muxing_queue EXCEPT ![s] = Append(muxing_queue[s], p)],
             NEW r \in Streams
      PROVE  Bounded(r)'
  <2>1. Bounded(r) /\ Bounded(s)
    BY DEF QueueBounded, Bounded
  <2>2. CASE r # s
    <3>1. muxing_queue'[r] = muxing_queue[r] /\ fifo_size'[r] = fifo_size[r]
      BY <1>1, <1>3, <2>2
    <3> QED
      BY <2>1, <3>1 DEF Bounded
  <2>3. CASE r = s
    <3>1. /\ Len(muxing_queue[s]) \in Nat /\ fifo_size[s] \in Nat
          /\ fifo_size'[s] = size
          /\ muxing_queue'[s] = Append(muxing_queue[s], p)
      BY <1>1, <1>3
    <3>2. Len(muxing_queue'[s]) = Len(muxing_queue[s]) + 1
      BY <1>1, <3>1
    <3>3. size \in Nat /\ size <= Larger(InitialSize, max_muxing_queue_size)
      BY <1>1, <1>3, <2>1, <3>1 DEF Bounded, NewSize, Larger
    <3> QED
      BY <1>3, <2>3, <3>1, <3>2, <3>3 DEF Bounded
  <2> QED
    BY <2>2, <2>3
<1> QED
  BY <1>2, <1>3 DEF enqueue, QueueBounded, Bounded

LEMMA WriteBounded ==
    ASSUME TypeOK, QueueBounded, NEW s \in Streams, NEW src \in Packets, NEW p,
           write_packet(s, src, p)
    PROVE  QueueBounded'
<1>1. CASE UNCHANGED queues
  BY <1>1 DEF queues, QueueBounded
<1> QED
  BY <1>1, EnqueueBounded, WritePacketCases

\* A queue never holds more than its size, nor grows past the maximum.
THEOREM QueuesBounded == Spec => []QueueBounded
<1>1. Init => QueueBounded
  BY MuxAssumption DEF Init, QueueBounded, Larger
<1>2. ASSUME TypeOK, QueueBounded, [Next]_vars PROVE QueueBounded'
  <2>1. CASE UNCHANGED queues
    BY <1>2, <2>1 DEF queues, QueueBounded
  <2>2. CASE unqueue_packet
    <3>1. /\ muxing_queue \in [Streams -> Seq(Packets)] /\ turn \in Streams
          /\ fifo_size \in [Streams -> Nat] /\ fifo_size' = fifo_size
          /\ muxing_queue[turn] # <<>>
          /\ muxing_queue' = [muxing_queue EXCEPT ![turn] = Tail(@)]
      BY <1>2, <2>2 DEF unqueue_packet, TypeOK
    <3>2. \A s \in Streams : /\ Len(muxing_queue[s]) \in Nat /\ fifo_size[s] \in Nat
                             /\ Len(muxing_queue'[s]) \in Nat
                             /\ Len(muxing_queue'[s]) <= Len(muxing_queue[s])
      <4> SUFFICES ASSUME NEW s \in Streams
                   PROVE  /\ Len(muxing_queue[s]) \in Nat /\ fifo_size[s] \in Nat
                          /\ Len(muxing_queue'[s]) \in Nat
                          /\ Len(muxing_queue'[s]) <= Len(muxing_queue[s])
        OBVIOUS
      <4>1. CASE s = turn
        BY <3>1, <4>1
      <4>2. CASE s # turn
        BY <3>1, <4>2
      <4> QED
        BY <4>1, <4>2
    <3>3. \A s \in Streams : Len(muxing_queue[s]) <= fifo_size[s]
      BY <1>2 DEF QueueBounded
    <3>4. \A s \in Streams : Len(muxing_queue'[s]) <= fifo_size'[s]
      BY <3>1, <3>2, <3>3
    <3> QED
      BY <1>2, <3>1, <3>4 DEF QueueBounded
  <2>3. ASSUME write_header \/ begin_turn \/ end_turn \/ end_frame \/ end_loop
               \/ next_encoder \/ UNCHANGED vars
        PROVE  UNCHANGED queues
    BY <2>3 DEF write_header, begin_turn, end_turn, end_frame, end_loop, next_encoder, vars
  <2>4. ASSUME NEW s \in Streams,
               init_output_stream(s) \/ reap_filters(s) \/ send_frame(s) \/ finish(s)
               \/ finish_without_data(s)
        PROVE  UNCHANGED queues
    BY <2>4 DEF init_output_stream, reap_filters, send_frame, finish, finish_without_data
  <2>5. ASSUME NEW s \in Streams,
               do_streamcopy(s) \/ receive_packet(s) \/ flush_packet(s)
        PROVE  QueueBounded'
    BY <1>2, <2>5, CopiedPacket, WriteBounded DEF receive_packet, flush_packet
  <2> QED
    BY <1>2, <2>1, <2>2, <2>3, <2>4, <2>5 DEF Next, check_init_output_file
<1> QED
  BY <1>1, <1>2, TypeCorrect, PTL DEF Spec
-----------------------------------------------------------------------------
(* Failed writes                                                            *)

LEMMA MuxStops ==
    ASSUME FailureStopsAll, NEW s \in Streams, NEW p, mux(s, p)
    PROVE  FailureStopsAll'
<1>1. CASE UNCHANGED flags
  BY <1>1 DEF flags, FailureStopsAll
<1>2. CASE finished' = Closed(s)
  BY <1>2 DEF Closed, FailureStopsAll
<1> QED
  BY <1>1, <1>2 DEF mux

\* A failed write ends the encoding of every stream.
THEOREM FailureStops == Spec => []FailureStopsAll
<1>1. Init => FailureStopsAll
  BY DEF Init, FailureStopsAll
<1>2. ASSUME TypeOK, FailureStopsAll, [Next]_vars PROVE FailureStopsAll'
  <2>1. CASE UNCHANGED flags
    BY <1>2, <2>1 DEF flags, FailureStopsAll
  <2>2. CASE unqueue_packet
    BY <1>2, <2>2, MuxStops DEF unqueue_packet, Unqueue, TypeOK
  <2>3. ASSUME write_header \/ begin_turn \/ end_turn \/ end_frame \/ end_loop
               \/ next_encoder \/ UNCHANGED vars
        PROVE  UNCHANGED flags
    BY <2>3 DEF write_header, begin_turn, end_turn, end_frame, end_loop, next_encoder, vars
  <2>4. ASSUME NEW s \in Streams,
               init_output_stream(s) \/ reap_filters(s) \/ send_frame(s)
        PROVE  UNCHANGED flags
    BY <2>4 DEF init_output_stream, reap_filters, send_frame
  <2>5. ASSUME NEW s \in Streams, finish(s) \/ finish_without_data(s)
        PROVE  FailureStopsAll'
    <3>1. finished \in [Streams -> SUBSET {"encoder", "muxer"}]
          /\ main_return_code' = main_return_code
      BY <1>2, <2>5 DEF finish, finish_without_data, TypeOK
    <3>2. \A r \in Streams : "encoder" \in finished[r] => "encoder" \in finished'[r]
      BY <2>5, <3>1 DEF finish, finish_without_data
    <3> QED
      BY <1>2, <3>1, <3>2 DEF FailureStopsAll
  <2>6. ASSUME NEW s \in Streams,
               do_streamcopy(s) \/ receive_packet(s) \/ flush_packet(s)
        PROVE  FailureStopsAll'
    <3>1. PICK src \in Packets : \E p : write_packet(s, src, p)
      BY <2>6, CopiedPacket DEF receive_packet, flush_packet
    <3>2. UNCHANGED flags \/ finished' = Closed(s)
      BY <1>2, <3>1, WritePacketCases
    <3>3. finished' = Closed(s) => FailureStopsAll'
      BY DEF Closed, FailureStopsAll
    <3> QED
      BY <2>1, <3>2, <3>3
  <2> QED
    BY <1>2, <2>1, <2>2, <2>3, <2>4, <2>5, <2>6 DEF Next, check_init_output_file
<1> QED
  BY <1>1, <1>2, TypeCorrect, PTL DEF Spec
=============================================================================
