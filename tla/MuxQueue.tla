------------------------------ MODULE MuxQueue ------------------------------
(***************************************************************************)
(* The packets of one output file on their way to the muxer (ffmpeg.c):    *)
(* write_packet keeps them in a queue per stream until every stream is     *)
(* initialised and the header written, check_init_output_file then empties *)
(* the queues stream by stream, and from there on packets pass straight    *)
(* through.  Times are rescaled to the muxer's time base and repaired when *)
(* they go backwards; frames are counted against -frames.                  *)
(*                                                                         *)
(* Left out: bitstream filters, -shortest, -vsync drop, muxers without     *)
(* timestamps or without streams.  The scheduler is open: any stream may   *)
(* get a frame or a packet, and the loop may end, at any time; a packet    *)
(* that do_streamcopy drops before the first it copies is no packet here.  *)
(* A copied audio stream is taken to be the one use of its input stream,   *)
(* which keeps the samples it got to.                                      *)
(***************************************************************************)
EXTENDS Integers, Sequences

CONSTANTS
    NbStreams,              \* of->ctx->nb_streams
    Encoded,                \* streams with encoding_needed, the others are copied
    Video,                  \* streams of type AVMEDIA_TYPE_VIDEO
    Checked,                \* audio and video streams but copied VP9: DTS repaired
    Strict,                 \* 0 for a muxer with AVFMT_TS_NONSTRICT, else 1
    max_frames,             \* -frames, per stream
    InitialSize,            \* packets av_fifo_alloc makes room for (8)
    max_muxing_queue_size,  \* in packets
    Times,                  \* time stamps a packet may arrive with
    NoPts,                  \* AV_NOPTS_VALUE
    Rescale,                \* av_rescale_q from each source's time base to the muxer's
    Coarse,                 \* copied audio with a source less fine than the muxer
    Durations,              \* samples a copied audio packet may hold, 0 if unknown
    Samples,                \* av_rescale_q from each source's time base to samples,
    Lowest, Highest,        \* and the bounds of what rounds to a source's time
    FromSamples,            \* av_rescale_q from samples to each muxer's time base
    MaxPackets              \* bound: packets and frames per stream

Streams == 1..NbStreams

ASSUME MuxAssumption ==
    /\ NbStreams \in Nat \ {0}
    /\ Encoded \subseteq Streams /\ Video \subseteq Streams /\ Checked \subseteq Streams
    /\ Strict \in {0, 1}
    /\ max_frames \in [Streams -> Nat] /\ MaxPackets \in [Streams -> Nat]
    /\ InitialSize \in Nat \ {0} /\ max_muxing_queue_size \in Nat
    /\ Times \subseteq Int /\ Rescale \in [Streams -> [Times -> Int]]
    /\ Coarse \subseteq (Checked \ Video) \ Encoded /\ Durations \subseteq Nat
    /\ Samples \in [Streams -> [Times -> Int]]
    /\ Lowest \in [Streams -> [Times -> Int]] /\ Highest \in [Streams -> [Times -> Int]]
    /\ \A s \in Coarse : \A t \in Times :
          /\ Lowest[s][t] <= Highest[s][t]
          /\ \A n \in Lowest[s][t]..Highest[s][t] : FromSamples[s][n] \in Int
    /\ NoPts \notin Int

VARIABLES
    initialized,        \* [Streams -> BOOLEAN]
    header_written,
    time_base,          \* mux_timebase: the source's or, once changed, the "stream"'s
    muxing_queue,       \* [Streams -> Seq(packets)]
    fifo_size,          \* packets muxing_queue has room for
    frame_number,
    last_mux_dts,
    delta_last,         \* filter_in_rescale_delta_last, in samples
    finished,           \* [Streams -> SUBSET {"encoder", "muxer"}]
    main_return_code,
    phase,              \* "loop", "flush" (flush_encoders), "end" or "dead"
    enc,                \* stream flush_encoders is at
    init,               \* check_init_output_file: "no", "header", "turn" or "drain"
    turn,               \* stream whose queue is being emptied
    busy,               \* stream whose encoder is giving packets, 0 if none
    accepted,           \* history: packets write_packet kept, source times
    muxed,              \* history: packets given to the muxer, as given
    dropped             \* history: packets over max_frames

progress == <<phase, enc, busy>>
headers  == <<initialized, header_written, init, turn>>
flags    == <<finished, main_return_code>>
queues   == <<muxing_queue, fifo_size>>
times    == <<time_base, last_mux_dts>>
history  == <<accepted, muxed, dropped>>
vars     == <<progress, headers, flags, queues, times, frame_number,
                   history, delta_last>>

Init ==
    /\ initialized = [s \in Streams |-> s \notin Encoded]
    /\ header_written = FALSE
    /\ init = IF Encoded = {} THEN "header" ELSE "no"
    /\ turn = 1
    /\ time_base = [s \in Streams |-> "source"]
    /\ muxing_queue = [s \in Streams |-> <<>>]
    /\ fifo_size = [s \in Streams |-> InitialSize]
    /\ frame_number = [s \in Streams |-> 0]
    /\ last_mux_dts = [s \in Streams |-> NoPts]
    /\ delta_last = [s \in Streams |-> NoPts]
    /\ finished = [s \in Streams |-> {}]
    /\ main_return_code = 0
    /\ phase = "loop" /\ enc = 1 /\ busy = 0
    /\ accepted = [s \in Streams |-> <<>>]
    /\ muxed = [s \in Streams |-> <<>>]
    /\ dropped = [s \in Streams |-> 0]
-----------------------------------------------------------------------------
(* Times                                                                    *)

Larger(a, b) == IF a < b THEN b ELSE a

Rescaled(s, p) ==
    [pts |-> IF p.pts = NoPts THEN NoPts ELSE Rescale[s][p.pts],
     dts |-> Rescale[s][p.dts]]

\* What the encoding and the copying side make of the times p came with.
InMuxTimebase(s, p) == IF time_base[s] = "stream" THEN Rescaled(s, p) ELSE p

\* What write_packet makes of times in mux_timebase.
InStreamTime(s, p) == IF time_base[s] = "stream" THEN p ELSE Rescaled(s, p)

Both(t) == [pts |-> t, dts |-> t]

\* Mutant of Clipped: the samples run on, whatever the packet says.
ClippedNot(n, low, high) == n

Clipped(n, low, high) == IF n < low THEN low ELSE IF n > high THEN high ELSE n

\* av_rescale_delta goes on from the end of the packet before, where that is
\* near enough to the time t the packet says.
Continues(s, t, duration) ==
    LET low == Lowest[s][t]  high == Highest[s][t]  last == delta_last[s] IN
    /\ s \in Coarse /\ time_base[s] = "stream"
    /\ last # NoPts /\ duration # 0
    /\ 2 * low - high <= last /\ last <= 2 * high - low

\* The samples the packet is taken to begin at.
Start(s, t, duration) ==
    IF Continues(s, t, duration)
    THEN Clipped(delta_last[s], Lowest[s][t], Highest[s][t])
    ELSE Samples[s][t]

\* The times of copied audio in mux_timebase: pts and dts are the same.
Delta(s, t, duration) ==
    IF Continues(s, t, duration) THEN Both(FromSamples[s][Start(s, t, duration)])
                                 ELSE InMuxTimebase(s, Both(t))

\* Both times become the middle one of pts, dts and last_mux_dts + 1.
Guessed(p, last) ==
    LET t == IF last = NoPts \/ last + 1 < p.pts THEN p.pts
             ELSE IF last + 1 < p.dts THEN last + 1 ELSE p.dts
    IN  IF p.pts # NoPts /\ p.dts > p.pts THEN Both(t) ELSE p

\* Mutant of Raised: the pts stays behind when the dts moves.
RaisedDtsOnly(p, least) == IF p.dts < least THEN [p EXCEPT !.dts = least] ELSE p

\* Mutant of Raised: an equal dts is let through to a strict muxer.
RaisedLate(p, least) ==
    IF p.dts < least - 1
    THEN [pts |-> IF p.pts # NoPts /\ p.pts >= p.dts THEN Larger(p.pts, least) ELSE p.pts,
          dts |-> least]
    ELSE p

\* A dts below the least one allowed is raised, and the pts with it.
Raised(p, least) ==
    IF p.dts < least
    THEN [pts |-> IF p.pts # NoPts /\ p.pts >= p.dts THEN Larger(p.pts, least) ELSE p.pts,
          dts |-> least]
    ELSE p

Repaired(s, p) ==
    LET last == last_mux_dts[s]
        q    == Guessed(p, last)
    IN  IF s \in Checked /\ last # NoPts THEN Raised(q, last + Strict) ELSE q
-----------------------------------------------------------------------------
(* write_packet                                                             *)

\* Mutant of Closed: the streams that did not fail go on.
ClosedAlone(s) == [finished EXCEPT ![s] = {"encoder", "muxer"}]

\* close_all_output_streams after a failed write of s
Closed(s) ==
    [r \in Streams |-> finished[r] \cup IF r = s THEN {"encoder", "muxer"} ELSE {"encoder"}]

\* From the rescaling to av_interleaved_write_frame, which may fail.
mux(s, p) ==
    LET q == Repaired(s, InStreamTime(s, p)) IN
    /\ last_mux_dts' = [last_mux_dts EXCEPT ![s] = q.dts]
    /\ muxed' = [muxed EXCEPT ![s] = Append(@, q)]
    /\ \/ UNCHANGED flags
       \/ main_return_code' = 1 /\ finished' = Closed(s)
    /\ UNCHANGED time_base

NewSize(size) == IF 2 * size < max_muxing_queue_size THEN 2 * size ELSE max_muxing_queue_size

\* The packet waits for the header; a full queue grows, or ends the command.
enqueue(s, src, p) ==
    LET q    == muxing_queue[s]
        size == IF Len(q) < fifo_size[s] THEN fifo_size[s] ELSE NewSize(fifo_size[s])
    IN
    /\ \/ /\ Len(q) < size
          /\ fifo_size' = [fifo_size EXCEPT ![s] = size]
          /\ muxing_queue' = [muxing_queue EXCEPT ![s] = Append(q, p)]
          /\ accepted' = [accepted EXCEPT ![s] = Append(@, src)]
          /\ UNCHANGED phase
       \/ /\ Len(q) = fifo_size[s] /\ size <= Len(q)
          /\ phase' = "dead"
          /\ UNCHANGED <<queues, accepted>>
    /\ UNCHANGED <<flags, times, muxed>>

\* Audio, and whatever is copied, is counted here; encoded video is counted
\* before it goes into the encoder.
Counted(s) == s \notin Encoded \cap Video

\* Mutant of AtLimit: one packet more.
AtLimitLate(s) == frame_number[s] > max_frames[s]

AtLimit(s) == frame_number[s] >= max_frames[s]

\* A packet of source times src and times p in mux_timebase.
write_packet(s, src, p) ==
    \/ /\ Counted(s) /\ AtLimit(s)
       /\ dropped' = [dropped EXCEPT ![s] = @ + 1]
       /\ UNCHANGED <<phase, flags, queues, times, frame_number, accepted, muxed>>
    \/ /\ Counted(s) => ~AtLimit(s)
       /\ frame_number' = IF Counted(s) THEN [frame_number EXCEPT ![s] = @ + 1]
                                        ELSE frame_number
       /\ \/ /\ header_written /\ mux(s, p)
             /\ accepted' = [accepted EXCEPT ![s] = Append(@, src)]
             /\ UNCHANGED <<queues, phase>>
          \/ ~header_written /\ enqueue(s, src, p)
       /\ UNCHANGED dropped
-----------------------------------------------------------------------------
(* The header                                                               *)

\* Mutant of Unqueue: write_packet is told the packet is new, and counts it.
UnqueueCounts(s) ==
    IF Counted(s) /\ AtLimit(s)
    THEN UNCHANGED <<times, flags, frame_number, muxed>>
    ELSE /\ mux(s, Head(muxing_queue[s]))
         /\ frame_number' = [frame_number EXCEPT ![s] = @ + 1]

\* write_packet with unqueue set
Unqueue(s) == mux(s, Head(muxing_queue[s])) /\ UNCHANGED frame_number

\* Mutant of ImprovedBase: the time base changes under queued packets.
ImprovedBaseAlways(s) == [time_base EXCEPT ![s] = "stream"]

\* The muxer's time base is taken over while nothing is queued.
ImprovedBase(s) ==
    IF muxing_queue[s] = <<>> THEN [time_base EXCEPT ![s] = "stream"] ELSE time_base

\* avformat_write_header; when it fails the caller calls exit_program.
write_header ==
    /\ init = "header" /\ phase # "dead"
    /\ \/ header_written' = TRUE /\ init' = "turn" /\ turn' = 1 /\ UNCHANGED phase
       \/ phase' = "dead" /\ UNCHANGED <<header_written, init, turn>>
    /\ UNCHANGED <<enc, busy, initialized, flags, queues, times, frame_number,
                   history, delta_last>>

begin_turn ==
    /\ init = "turn" /\ phase # "dead"
    /\ time_base' = ImprovedBase(turn)
    /\ init' = "drain"
    /\ UNCHANGED <<progress, initialized, header_written, turn, flags, queues,
                   last_mux_dts, frame_number, history, delta_last>>

unqueue_packet ==
    /\ init = "drain" /\ muxing_queue[turn] # <<>> /\ phase # "dead"
    /\ Unqueue(turn)
    /\ muxing_queue' = [muxing_queue EXCEPT ![turn] = Tail(@)]
    /\ UNCHANGED <<progress, headers, fifo_size, accepted, dropped, delta_last>>

\* Mutant of end_turn: the loop over the streams runs once too often.
end_turn_beyond ==
    /\ init = "drain" /\ muxing_queue[turn] = <<>> /\ phase # "dead"
    /\ IF turn <= NbStreams THEN init' = "turn" /\ turn' = turn + 1
                            ELSE init' = "no" /\ UNCHANGED turn
    /\ UNCHANGED <<progress, initialized, header_written, flags, queues, times,
                   frame_number, history, delta_last>>

end_turn ==
    /\ init = "drain" /\ muxing_queue[turn] = <<>> /\ phase # "dead"
    /\ IF turn < NbStreams THEN init' = "turn" /\ turn' = turn + 1
                           ELSE init' = "no" /\ UNCHANGED turn
    /\ UNCHANGED <<progress, initialized, header_written, flags, queues, times,
                   frame_number, history, delta_last>>

\* The end of init_output_stream, and check_init_output_file's first loop.
initialize(s) ==
    /\ initialized' = [initialized EXCEPT ![s] = TRUE]
    /\ init' = IF \A r \in Streams \ {s} : initialized[r] THEN "header" ELSE "no"
    /\ UNCHANGED <<header_written, turn>>
-----------------------------------------------------------------------------
(* The main loop                                                            *)

InLoop == phase = "loop" /\ init = "no" /\ busy = 0

\* Bound on the packets of s and on the frames of its encoder.
Produced(s) == Len(accepted[s]) + dropped[s]
Few(s) == Produced(s) < MaxPackets[s] /\ frame_number[s] <= MaxPackets[s]

Packets == [pts : Times \cup {NoPts}, dts : Times]

\* reap_filters meets the first configured filter graph of s.
init_output_stream(s) ==
    /\ InLoop /\ ~initialized[s]
    /\ \/ initialize(s) /\ UNCHANGED phase
       \/ phase' = "dead" /\ UNCHANGED headers
    /\ UNCHANGED <<enc, busy, flags, queues, times, frame_number,
                   history, delta_last>>

CopiedAudio == (Checked \ Video) \ Encoded

\* do_streamcopy, behind check_output_constraints.  Audio with a dts gets its
\* times from the samples before it, and its own pts is lost.
do_streamcopy(s) ==
    /\ InLoop /\ s \notin Encoded /\ finished[s] = {} /\ Few(s)
    /\ \/ /\ \E src \in Packets : write_packet(s, src, InMuxTimebase(s, src))
          /\ UNCHANGED delta_last
       \/ /\ s \in CopiedAudio
          /\ \E t \in Times, duration \in Durations :
                /\ write_packet(s, Both(t), Delta(s, t, duration))
                /\ delta_last' = [delta_last EXCEPT ![s] = Start(s, t, duration) + duration]
    /\ UNCHANGED <<enc, busy, headers>>

\* reap_filters has a frame for s: do_audio_out or do_video_out begins.
reap_filters(s) ==
    /\ InLoop /\ s \in Encoded /\ initialized[s] /\ finished[s] = {}
    /\ busy' = s
    /\ UNCHANGED <<phase, enc, headers, flags, queues, times, frame_number,
                   history, delta_last>>

\* do_video_out sends one more frame to the encoder.
send_frame(s) ==
    /\ busy = s /\ ~Counted(s) /\ phase = "loop"
    /\ frame_number[s] < max_frames[s] /\ frame_number[s] < MaxPackets[s]
    /\ frame_number' = [frame_number EXCEPT ![s] = @ + 1]
    /\ UNCHANGED <<progress, headers, flags, queues, times, history, delta_last>>

\* A video encoder gives one packet per frame, an audio encoder any number.
HasPacket(s) == Few(s) /\ (~Counted(s) => Len(accepted[s]) < frame_number[s])

receive_packet(s) ==
    /\ busy = s /\ HasPacket(s) /\ phase = "loop"
    /\ \E src \in Packets : write_packet(s, src, InMuxTimebase(s, src))
    /\ UNCHANGED <<enc, busy, headers, delta_last>>

end_frame ==
    /\ busy # 0 /\ phase = "loop"
    /\ busy' = 0
    /\ UNCHANGED <<phase, enc, headers, flags, queues, times, frame_number,
                   history, delta_last>>

\* close_output_stream at -t, finish_output_stream at the end of a copied input.
finish(s) ==
    /\ InLoop
    /\ \E flag \in {{"encoder"}, {"encoder", "muxer"}} :
          finished' = [finished EXCEPT ![s] = @ \cup flag]
    /\ UNCHANGED <<progress, headers, main_return_code, queues, times, frame_number,
                   history, delta_last>>

end_loop ==
    /\ InLoop
    /\ phase' = "flush"
    /\ UNCHANGED <<enc, busy, headers, flags, queues, times, frame_number,
                   history, delta_last>>
-----------------------------------------------------------------------------
(* flush_encoders                                                           *)

Flushing(s) == phase = "flush" /\ init = "no" /\ enc = s

\* A stream that never got a frame: its graph may be configured already, or
\* is configured now and the stream finished.
finish_without_data(s) ==
    /\ Flushing(s) /\ s \in Encoded /\ ~initialized[s]
    /\ \/ initialize(s) /\ UNCHANGED phase
       \/ phase' = "dead" /\ UNCHANGED headers
    /\ \/ UNCHANGED finished
       \/ finished' = [finished EXCEPT ![s] = {"encoder", "muxer"}]
    /\ UNCHANGED <<enc, busy, main_return_code, queues, times, frame_number,
                   history, delta_last>>

flush_packet(s) ==
    /\ Flushing(s) /\ s \in Encoded /\ initialized[s] /\ HasPacket(s)
    /\ "muxer" \notin finished[s]
    /\ \E src \in Packets : write_packet(s, src, InMuxTimebase(s, src))
    /\ UNCHANGED <<enc, busy, headers, delta_last>>

\* The encoder is empty, its packets are thrown away, or there is nothing to
\* flush (a copied stream, or inputs of the graph that are still unknown).
next_encoder ==
    /\ Flushing(enc)
    /\ IF enc < NbStreams THEN enc' = enc + 1 /\ UNCHANGED phase
                          ELSE phase' = "end" /\ UNCHANGED enc
    /\ UNCHANGED <<busy, headers, flags, queues, times, frame_number,
                   history, delta_last>>
-----------------------------------------------------------------------------
check_init_output_file == write_header \/ begin_turn \/ unqueue_packet \/ end_turn

Next ==
    \/ check_init_output_file
    \/ end_frame
    \/ end_loop
    \/ next_encoder
    \/ \E s \in Streams :
          \/ init_output_stream(s)
          \/ do_streamcopy(s)
          \/ reap_filters(s)
          \/ send_frame(s)
          \/ receive_packet(s)
          \/ finish(s)
          \/ finish_without_data(s)
          \/ flush_packet(s)

Spec == Init /\ [][Next]_vars
-----------------------------------------------------------------------------
(* Properties                                                               *)

Muxed == [pts : Int \cup {NoPts}, dts : Int]

TypeOK ==
    /\ initialized \in [Streams -> BOOLEAN] /\ header_written \in BOOLEAN
    /\ time_base \in [Streams -> {"source", "stream"}]
    /\ muxing_queue \in [Streams -> Seq(Packets)]
    /\ fifo_size \in [Streams -> Nat] /\ frame_number \in [Streams -> Nat]
    /\ last_mux_dts \in [Streams -> Int \cup {NoPts}]
    /\ delta_last \in [Streams -> Int \cup {NoPts}]
    /\ finished \in [Streams -> SUBSET {"encoder", "muxer"}]
    /\ main_return_code \in {0, 1}
    /\ phase \in {"loop", "flush", "end", "dead"}
    /\ init \in {"no", "header", "turn", "drain"}
    /\ enc \in Streams /\ turn \in Streams /\ busy \in {0} \cup Streams
    /\ accepted \in [Streams -> Seq(Packets)]
    /\ muxed \in [Streams -> Seq(Muxed)]
    /\ dropped \in [Streams -> Nat]

\* No packet is lost, doubled or overtaken on its way: what a stream's queue
\* holds is the part of what write_packet kept that the muxer has not had, and
\* once the header has been dealt with the muxer has had it all.
NonePassedOver ==
    \A s \in Streams :
        /\ Len(muxed[s]) + Len(muxing_queue[s]) = Len(accepted[s])
        /\ \A i \in 1..Len(muxing_queue[s]) :
              muxing_queue[s][i] = accepted[s][Len(muxed[s]) + i]
        /\ header_written /\ init = "no" => muxing_queue[s] = <<>>

\* The dts the muxer gets of an audio or video stream never go backwards, and
\* are never equal when the muxer is strict, across the queue and the header.
MonotoneDts ==
    \A s \in Checked : \A i \in 2..Len(muxed[s]) :
        muxed[s][i].dts >= muxed[s][i - 1].dts + Strict

\* No repair leaves a packet that is shown before it is decoded.
PtsNotBeforeDts ==
    \A s \in Streams : \A i \in 1..Len(muxed[s]) :
        muxed[s][i].pts # NoPts => muxed[s][i].pts >= muxed[s][i].dts

WellTimed(p) == p.pts = NoPts \/ p.pts >= p.dts

\* The times, in the muxer's time base, that are a packet's own: the rescaled
\* ones, or for copied audio those of any sample that is nearer to the time it
\* came with than to the one before or after.
Stamps(s, src) ==
    {Rescaled(s, src)} \cup
        IF s \in Coarse /\ src.pts = src.dts
        THEN {Both(FromSamples[s][n]) : n \in Lowest[s][src.dts]..Highest[s][src.dts]}
        ELSE {}

\* A packet that arrives well timed leaves with a time of its own in the
\* muxer's time base, or as little later as the packet before it demands,
\* whether it waited for the header or not, and however the samples of the
\* copied audio before it added up.
TimesKept ==
    \A s \in Streams : \A i \in 1..Len(muxed[s]) :
        \E p \in Stamps(s, accepted[s][i]) :
            WellTimed(p) =>
                muxed[s][i].dts =
                    IF i = 1 \/ s \notin Checked THEN p.dts
                    ELSE Larger(p.dts, muxed[s][i - 1].dts + Strict)

\* -frames is exact: no stream gets more packets than it allows, none of them
\* is counted twice, and one is dropped only when the limit is reached.
LimitExact ==
    \A s \in Streams :
        /\ Len(accepted[s]) <= max_frames[s]
        /\ Counted(s) /\ dropped[s] > 0 => Len(accepted[s]) = max_frames[s]
        /\ Counted(s) /\ phase # "dead" => frame_number[s] = Len(accepted[s])

\* The queue holds no more than its size, which stays below the maximum, or
\* the first size when the maximum is less.
QueueBounded ==
    \A s \in Streams :
        /\ Len(muxing_queue[s]) <= fifo_size[s]
        /\ fifo_size[s] <= Larger(InitialSize, max_muxing_queue_size)

\* A write that fails on one stream ends the encoding of all of them and shows
\* in the command's code.
FailureStopsAll ==
    main_return_code = 1 =>
        \A s \in Streams : "encoder" \in finished[s]
=============================================================================
