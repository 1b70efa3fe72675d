----------------------------- MODULE Transcode -----------------------------
(* The main loop of ffmpeg.c: which output is worked on next, which input   *)
(* file is read for it, and what becomes of the packets and frames until    *)
(* every output has ended.  One output file; outputs are copied from an     *)
(* input stream or encoded from a filter graph of their own.  Times are left *)
(* out, and with them -t and the dropping or doubling of frames by -vsync.  *)
EXTENDS FilterGraph, FiniteSets

CONSTANTS
    Files,
    FileOf,      \* FileOf[i]: the file of input stream i (streams are numbers)
    nb_output_streams,
    Copied,      \* the outputs that are stream copies
    Source,      \* Source[o]: the stream output o is copied from
    Inputs,      \* Inputs[o]: the streams feeding the graph of output o
    Step,        \* Step[o]: from one dts of output o to the next
    Limits,      \* the -frames options of the outputs (NoLimit: none)
    Delay,       \* bound: frames a decoder holds back
    MaxPackets,  \* bound: packets in a file
    MaxChanges   \* bound: times the parameters of a stream change

Outputs == 1..nb_output_streams
Encoded == Outputs \ Copied
NoLimit == MaxPackets + 1

ASSUME TranscodeAssumption ==
    /\ Streams \subseteq Nat /\ IsFiniteSet(Streams)
    /\ FileOf \in [Streams -> Files]
    /\ nb_output_streams \in Nat \ {0}
    /\ Copied \subseteq Outputs
    /\ Source \in [Copied -> Streams]
    /\ Inputs \in [Encoded -> SUBSET Streams]
    /\ \A o \in Encoded : Inputs[o] # {}
    /\ Step \in [Outputs -> Nat \ {0}]
    /\ Limits \subseteq [Outputs -> Nat]
    /\ Delay \in Nat
    /\ MaxPackets \in Nat
    /\ MaxChanges \in Nat

VARIABLES
    pc,
    file,           \* the file process_input works on
    out,            \* the output it does so for
    ist,            \* the stream of the packet being decoded
    max_frames,     \* of each output, set before the loop
    packets,        \* packets read of each stream
    held,           \* frames its decoder holds
    decoded,        \* frames its decoder gave
    over,           \* the demuxer of the file has said that it is over
    eagain,         \* ifile->eagain
    eof_reached,    \* ifile->eof_reached
    graph,          \* the filter graph of each encoded output
    initialized,    \* ost->initialized
    unavailable,    \* ost->unavailable
    inputs_done,    \* ost->inputs_done
    finished,       \* ost->finished, any of its bits
    frame_number,   \* packets of each output given to the muxer
    first,          \* history: number of the first packet a copied output took
    changes,        \* times parameters have changed
    received_sigterm

where   == <<file, out, ist>>
streams == <<packets, held, decoded>>
files   == <<over, eagain, eof_reached>>
ends    == <<inputs_done, finished>>
vars    == <<pc, where, max_frames, streams, files, graph, initialized,
             unavailable, ends, frame_number, first, changes, received_sigterm>>

Init ==
    /\ pc = "loop" /\ file \in Files /\ out = 1 /\ ist \in Streams
    /\ max_frames \in Limits
    /\ packets = [i \in Streams |-> 0]
    /\ held = [i \in Streams |-> 0]
    /\ decoded = [i \in Streams |-> 0]
    /\ over = [f \in Files |-> FALSE]
    /\ eagain = [f \in Files |-> FALSE]
    /\ eof_reached = [f \in Files |-> FALSE]
    /\ graph = [o \in Encoded |-> NewGraph(Inputs[o])]
    /\ initialized = [o \in Outputs |-> o \in Copied]
    /\ unavailable = [o \in Outputs |-> FALSE]
    /\ inputs_done = [o \in Outputs |-> FALSE]
    /\ finished = [o \in Outputs |-> FALSE]
    /\ frame_number = [o \in Outputs |-> 0]
    /\ first = [o \in Copied |-> 0]
    /\ changes = 0
    /\ received_sigterm = FALSE

StreamsOf(f) == {i \in Streams : FileOf[i] = f}

\* ist->decoding_needed: the stream feeds a graph.
Decoding(i) == \E o \in Encoded : i \in Inputs[o]

-----------------------------------------------------------------------------
(* Choosing an output                                                       *)

\* The header is written once every output has its parameters; packets before
\* that wait in the muxing queues and leave cur_dts alone.
HeaderWritten == \A o \in Outputs : initialized[o]

\* ost->st->cur_dts; -1 stands for AV_NOPTS_VALUE
cur_dts(o) == IF HeaderWritten /\ frame_number[o] > 0
              THEN frame_number[o] * Step[o] ELSE -1

First(S) == CHOOSE o \in S : \A p \in S : o <= p

Unfinished == {o \in Outputs : ~finished[o]}
AtLimit(o) == frame_number[o] >= max_frames[o]

\* need_output looks at the first output that has not ended: one at its limit
\* ends all the outputs of the file.
need_output == Unfinished # {} /\ ~AtLimit(First(Unfinished))

\* An output without parameters comes first.
Uninitialized == {o \in Outputs : ~initialized[o] /\ ~inputs_done[o]}

\* The unfinished output with the least dts, the first of several.
Least == CHOOSE o \in Unfinished :
            \A p \in Unfinished : \/ cur_dts(o) < cur_dts(p)
                                  \/ cur_dts(o) = cur_dts(p) /\ o <= p

\* choose_output: 0 stands for NULL.  An unavailable output that is the least
\* hides the others.
choose_output ==
    IF Uninitialized # {} THEN First(Uninitialized)
    ELSE IF unavailable[Least] THEN 0
    ELSE Least

-----------------------------------------------------------------------------
(* Frames                                                                   *)

Smaller(a, b) == IF a < b THEN a ELSE b

\* Mutant of ReapedNumber: one frame of each sink is encoded.
ReapedNumberOne(gs) ==
    [o \in Outputs |-> IF o \in Encoded /\ ~finished[o] /\ ~AtLimit(o) /\ gs[o].sink > 0
                       THEN frame_number[o] + 1 ELSE frame_number[o]]

\* reap_filters: the frames in the sinks of built graphs are encoded, those of
\* a finished output and those past its limit dropped.
ReapedNumber(gs) ==
    [o \in Outputs |-> IF o \in Encoded /\ ~finished[o] /\ ~AtLimit(o)
                       THEN Smaller(frame_number[o] + gs[o].sink, max_frames[o])
                       ELSE frame_number[o]]

Reap(gs) ==
    /\ graph' = [o \in Encoded |-> Reaped(gs[o])]
    /\ frame_number' = ReapedNumber(gs)
    /\ initialized' = [o \in Outputs |-> \/ initialized[o]
                                         \/ o \in Encoded /\ gs[o].built]

\* send_frame_to_filters: the next frame of i goes to every graph it feeds.
\* Building a graph reaps all sinks first.
send_frame_to_filters(gs, i, changed) ==
    LET n      == decoded[i] + 1
        fed(o) == i \in Inputs[o]
        builds == \E o \in Encoded : fed(o) /\ Builds(gs[o], i, changed)
        sent(g) == SendFrame(g, i, n, changed)
    IN  /\ decoded' = [decoded EXCEPT ![i] = n]
        /\ held' = [held EXCEPT ![i] = @ - 1]
        /\ IF builds
           THEN /\ frame_number' = ReapedNumber(gs)
                /\ initialized' = [o \in Outputs |->
                       initialized[o] \/ (o \in Encoded /\ gs[o].built)]
                /\ graph' = [o \in Encoded |-> IF fed(o) THEN sent(Reaped(gs[o]))
                                                         ELSE Reaped(gs[o])]
           ELSE /\ graph' = [o \in Encoded |-> IF fed(o) THEN sent(gs[o]) ELSE gs[o]]
                /\ UNCHANGED <<frame_number, initialized>>

\* A frame comes out of the decoder of i; its parameters may have changed.
DecoderGives(gs, i) ==
    /\ held[i] > 0
    /\ \/ send_frame_to_filters(gs, i, FALSE) /\ UNCHANGED changes
       \/ /\ changes < MaxChanges /\ decoded[i] > 0
          /\ send_frame_to_filters(gs, i, TRUE)
          /\ changes' = changes + 1

-----------------------------------------------------------------------------
(* The main loop                                                            *)

\* process_input is called for file f, on behalf of output o.
Read(o, f) ==
    /\ pc' = "input"
    /\ out' = o /\ file' = f
    /\ UNCHANGED ist

\* The loop ends: a signal came...
sigterm ==
    /\ pc = "loop"
    /\ received_sigterm' = TRUE
    /\ pc' = "done"
    /\ UNCHANGED <<where, max_frames, streams, files, graph, initialized,
                   unavailable, ends, frame_number, first, changes>>

\* ... or no output is needed any more.
no_more_output ==
    /\ pc = "loop"
    /\ ~need_output
    /\ finished' = [o \in Outputs |-> TRUE]
    /\ pc' = "done"
    /\ UNCHANGED <<where, max_frames, streams, files, graph, initialized,
                   unavailable, inputs_done, frame_number, first, changes,
                   received_sigterm>>

\* No output is chosen, the least being unavailable: reset_eagain and a sleep.
wait_for_input ==
    /\ pc = "loop"
    /\ need_output
    /\ choose_output = 0
    /\ eagain' = [f \in Files |-> FALSE]
    /\ unavailable' = [o \in Outputs |-> FALSE]
    /\ UNCHANGED <<pc, where, max_frames, streams, over, eof_reached, graph,
                   initialized, ends, frame_number, first, changes,
                   received_sigterm>>

\* A copied output is chosen: its file is read.
copy_step(o) ==
    /\ o \in Copied
    /\ Read(o, FileOf[Source[o]])
    /\ UNCHANGED <<max_frames, streams, files, graph, initialized, unavailable,
                   ends, frame_number, first, changes, received_sigterm>>

\* Inputs of a graph not built yet that gave no frame (got_output) and are not
\* over.
Unfed(o) == {i \in Inputs[o] : decoded[i] = 0 /\ ~eof_reached[FileOf[i]]}

\* An encoded output is chosen and the format of some input is unknown: the
\* first such input is read.  With none to read the output would be given up.
format_step(o) ==
    /\ o \in Encoded
    /\ ~graph[o].built /\ ~HasAllFormats(graph[o])
    /\ inputs_done' = [inputs_done EXCEPT ![o] = Unfed(o) = {}]
    /\ IF Unfed(o) = {} THEN UNCHANGED <<pc, where>>
                        ELSE Read(o, FileOf[First(Unfed(o))])
    /\ UNCHANGED <<max_frames, streams, files, graph, initialized, unavailable,
                   finished, frame_number, first, changes, received_sigterm>>

\* The graph of o, built now if it was not; its output has its parameters.
Built(o) == IF graph[o].built THEN graph[o] ELSE Configured(graph[o])
With(g, o) == [graph EXCEPT ![o] = g]

HasGraph(o) ==
    /\ o \in Encoded
    /\ graph[o].built \/ HasAllFormats(graph[o])

\* transcode_from_filter: a frame is there or the graph makes one, ...
filter_frame(o) ==
    /\ HasGraph(o) /\ (Built(o).sink > 0 \/ Ready(Built(o)))
    /\ Reap(With(IF Built(o).sink > 0 THEN Built(o) ELSE Filtered(Built(o)), o))
    /\ UNCHANGED <<pc, where, max_frames, streams, files, unavailable, ends, first,
                   changes, received_sigterm>>

\* ... or it has no more to make, and the output is closed, ...
filter_eof(o) ==
    /\ HasGraph(o) /\ Built(o).sink = 0 /\ Drained(Built(o))
    /\ Reap(With(Built(o), o))
    /\ finished' = [finished EXCEPT ![o] = TRUE]
    /\ UNCHANGED <<pc, where, max_frames, streams, files, unavailable, inputs_done,
                   first, changes, received_sigterm>>

\* Mutant of MayRead: a file that is over is read again.
MayReadAgain(i) == ~eagain[FileOf[i]]

\* The file of i has not just said EAGAIN and is not over.
MayRead(i) == ~eagain[FileOf[i]] /\ ~eof_reached[FileOf[i]]

\* ... or it asks some of its hungry inputs for frames: one of those that were
\* asked is read, or the output is unavailable for now.
filter_asks(o) ==
    /\ HasGraph(o) /\ Built(o).sink = 0
    /\ \E r \in (SUBSET Hungry(Built(o))) \ {{}} :
          LET g == Asked(Built(o), r)
              best == {i \in g.asked : MayRead(i)}
          IN  /\ graph' = With(g, o)
              /\ \/ \E i \in best : Read(o, FileOf[i]) /\ UNCHANGED unavailable
                 \/ /\ best = {}
                    /\ unavailable' = [unavailable EXCEPT ![o] = TRUE]
                    /\ UNCHANGED <<pc, where>>
    /\ initialized' = [initialized EXCEPT ![o] = TRUE]
    /\ UNCHANGED <<max_frames, streams, files, ends, frame_number, first, changes,
                   received_sigterm>>

transcode_step ==
    /\ pc = "loop"
    /\ need_output
    /\ choose_output # 0
    /\ LET o == choose_output
       IN  \/ copy_step(o) \/ format_step(o)
           \/ filter_frame(o) \/ filter_eof(o) \/ filter_asks(o)

-----------------------------------------------------------------------------
(* process_input                                                            *)

\* get_input_packet says EAGAIN.
input_eagain ==
    /\ pc = "input" /\ ~over[file]
    /\ eagain' = [eagain EXCEPT ![file] = TRUE]
    /\ unavailable' = [unavailable EXCEPT ![out] = TRUE]
    /\ pc' = "loop"
    /\ UNCHANGED <<where, max_frames, streams, over, eof_reached, graph, initialized,
                   ends, frame_number, first, changes, received_sigterm>>

\* A packet of stream i: reset_eagain, and to the decoder if there is one.
input_packet ==
    /\ pc = "input" /\ ~over[file]
    /\ \E i \in StreamsOf(file) :
          /\ packets[i] < MaxPackets
          /\ packets' = [packets EXCEPT ![i] = @ + 1]
          /\ held' = [held EXCEPT ![i] = IF Decoding(i) THEN @ + 1 ELSE @]
          /\ ist' = i
    /\ eagain' = [f \in Files |-> FALSE]
    /\ unavailable' = [o \in Outputs |-> FALSE]
    /\ pc' = "decode"
    /\ UNCHANGED <<file, out, max_frames, decoded, over, eof_reached, graph,
                   initialized, ends, frame_number, first, changes,
                   received_sigterm>>

\* process_input_packet: the decoder gives frames ...
decode_frame ==
    /\ pc = "decode"
    /\ DecoderGives(graph, ist)
    /\ UNCHANGED <<pc, where, max_frames, packets, files, unavailable, ends,
                   first, received_sigterm>>

\* Outputs the packet is copied to, but for those that drop it.
Copying == {o \in Copied : Source[o] = ist /\ ~finished[o]}

\* Mutant of MayDrop: an output that has begun drops packets too.
MayDropAlways(o) == TRUE

\* Until an output has its first packet it drops those that are no key frame or
\* are before the start.
MayDrop(o) == frame_number[o] = 0

\* ... until it wants the next packet; then the packet is copied.
do_streamcopy ==
    /\ pc = "decode"
    /\ held[ist] <= Delay
    /\ \E drop \in SUBSET {o \in Copying : MayDrop(o)} :
          LET taking == {o \in Copying \ drop : ~AtLimit(o)}
          IN  /\ frame_number' = [o \in Outputs |-> IF o \in taking
                                                    THEN frame_number[o] + 1
                                                    ELSE frame_number[o]]
              /\ first' = [o \in Copied |-> IF o \in taking /\ frame_number[o] = 0
                                            THEN packets[ist] ELSE first[o]]
    /\ pc' = "reap"
    /\ UNCHANGED <<where, max_frames, streams, files, graph, initialized,
                   unavailable, ends, changes, received_sigterm>>

\* The file is over: the decoders of its streams are drained in turn, one frame
\* per call.  First the streams before the one that still holds frames end, in
\* the graphs they feed and in the outputs copied from them.
Undrained == {i \in StreamsOf(file) : held[i] > 0}
DrainedStreams ==
    {i \in StreamsOf(file) : Undrained = {} \/ i < First(Undrained)}

\* Mutant of EndedGraph: every graph gets the end of every stream.
EndedGraphAll == [o \in Encoded |-> SendEof(graph[o], DrainedStreams)]

EndedGraph  == [o \in Encoded |-> SendEof(graph[o], DrainedStreams \cap Inputs[o])]

EndedCopies ==
    [o \in Outputs |-> finished[o] \/ (o \in Copied /\ Source[o] \in DrainedStreams)]

drain_frame ==
    /\ pc = "input"
    /\ Undrained # {}
    /\ over' = [over EXCEPT ![file] = TRUE]
    /\ DecoderGives(EndedGraph, First(Undrained))
    /\ finished' = EndedCopies
    /\ pc' = "reap"
    /\ UNCHANGED <<where, max_frames, packets, eagain, eof_reached, unavailable,
                   inputs_done, first, received_sigterm>>

drained ==
    /\ pc = "input"
    /\ Undrained = {}
    /\ over' = [over EXCEPT ![file] = TRUE]
    /\ graph' = EndedGraph
    /\ finished' = EndedCopies
    /\ pc' = "ended"
    /\ UNCHANGED <<where, max_frames, streams, eagain, eof_reached, initialized,
                   unavailable, inputs_done, frame_number, first, changes,
                   received_sigterm>>

\* Mutant of EndOf: the end of the file is not recorded.
EndOfNot(f) == eof_reached

EndOf(f) == [eof_reached EXCEPT ![f] = TRUE]

\* AVERROR(EAGAIN) is returned; it counts as such if the file had said so.
input_eof ==
    /\ pc = "ended"
    /\ eof_reached' = EndOf(file)
    /\ unavailable' = [unavailable EXCEPT ![out] = @ \/ eagain[file]]
    /\ pc' = "loop"
    /\ UNCHANGED <<where, max_frames, streams, over, eagain, graph, initialized,
                   ends, frame_number, first, changes, received_sigterm>>

\* A frame or an end pushed into a graph may set it going before it is asked.
push_frame ==
    /\ pc \in {"decode", "reap", "ended"}
    /\ \E o \in Encoded : /\ Ready(graph[o])
                          /\ graph' = With(Filtered(graph[o]), o)
    /\ UNCHANGED <<pc, where, max_frames, streams, files, initialized, unavailable,
                   ends, frame_number, first, changes, received_sigterm>>

reap_filters ==
    /\ pc = "reap"
    /\ Reap(graph)
    /\ pc' = "loop"
    /\ UNCHANGED <<where, max_frames, streams, files, unavailable, ends, first,
                   changes, received_sigterm>>

process_input ==
    \/ input_packet \/ decode_frame \/ do_streamcopy
    \/ drain_frame \/ drained \/ input_eof

Next ==
    \/ sigterm \/ no_more_output \/ wait_for_input \/ transcode_step
    \/ input_eagain \/ process_input \/ push_frame \/ reap_filters

Spec == Init /\ [][Next]_vars

\* The loop goes on by itself, and no demuxer says EAGAIN for ever.
FairSpec ==
    /\ Spec
    /\ WF_vars(Next)
    /\ \A f \in Files : SF_vars(file = f /\ process_input)

-----------------------------------------------------------------------------
(* Properties                                                               *)

TypeOK ==
    /\ pc \in {"loop", "input", "decode", "reap", "ended", "done"}
    /\ file \in Files /\ out \in Outputs /\ ist \in Streams
    /\ max_frames \in Limits
    /\ packets \in [Streams -> 0..MaxPackets]
    /\ held \in [Streams -> 0..(Delay + 1)]
    /\ decoded \in [Streams -> 0..MaxPackets]
    /\ over \in [Files -> BOOLEAN]
    /\ eagain \in [Files -> BOOLEAN]
    /\ eof_reached \in [Files -> BOOLEAN]
    /\ initialized \in [Outputs -> BOOLEAN]
    /\ unavailable \in [Outputs -> BOOLEAN]
    /\ inputs_done \in [Outputs -> BOOLEAN]
    /\ finished \in [Outputs -> BOOLEAN]
    /\ frame_number \in [Outputs -> Nat] /\ first \in [Copied -> 0..MaxPackets]
    /\ changes \in 0..MaxChanges
    /\ received_sigterm \in BOOLEAN
    /\ \A o \in Encoded : IsGraph(graph[o], Inputs[o])

\* No output is given up (inputs_done) for want of its inputs' formats: each
\* input has given a frame or has ended with the format of its codec.
NoOutputGivenUp == \A o \in Outputs : ~inputs_done[o]

\* Frames reach a graph in the order of decoding, each once: those that wait or
\* are in the graph are the last ones decoded, and each of the others was used
\* once, or was inside a graph that was built anew.
FramesInOrder ==
    \A o \in Encoded : \A i \in Inputs[o] :
        LET inside == graph[o].src[i] \o graph[o].wait[i]
            before == decoded[i] - Len(inside)
        IN  /\ \A k \in 1..Len(inside) : inside[k] = before + k
            /\ graph[o].used[i] + graph[o].lost[i] = before

\* When the loop ends by itself and no limit was met, every packet has gone all
\* the way: copied, once the output has its first packet; or decoded, its frame
\* used by each graph it feeds and the frame made of it encoded, but for frames
\* thrown away when parameters changed.
AllDelivered ==
    pc = "done" /\ ~received_sigterm /\ (\A o \in Outputs : ~AtLimit(o)) =>
        /\ \A o \in Copied : frame_number[o] > 0 =>
              first[o] + frame_number[o] = packets[Source[o]] + 1
        /\ \A o \in Encoded : \A i \in Inputs[o] :
              /\ graph[o].used[i] + graph[o].lost[i] = packets[i]
              /\ changes = 0 => graph[o].lost[i] = 0
              /\ graph[o].used[i] <= frame_number[o]

\* Once the end of a file is dealt with, every graph built has got the end of
\* each input from it, through rebuilding too.
EndsReachGraphs ==
    \A o \in Encoded : \A i \in Inputs[o] :
        eof_reached[FileOf[i]] =>
            /\ i \in graph[o].known
            /\ graph[o].built => i \in graph[o].shut

\* What has been achieved: packets read, frames decoded and used, ends of files
\* dealt with, outputs with their parameters, outputs that ended.
Gains ==
    \/ \E i \in Streams : packets'[i] > packets[i] \/ decoded'[i] > decoded[i]
    \/ \E o \in Encoded : \E i \in Inputs[o] : graph'[o].used[i] > graph[o].used[i]
    \/ \E f \in Files : eof_reached'[f] /\ ~eof_reached[f]
    \/ \E o \in Outputs : \/ initialized'[o] /\ ~initialized[o]
                          \/ finished'[o] /\ ~finished[o]

LosesNothing ==
    /\ \A i \in Streams : packets[i] <= packets'[i] /\ decoded[i] <= decoded'[i]
    /\ \A o \in Encoded : \A i \in Inputs[o] : graph[o].used[i] <= graph'[o].used[i]
    /\ \A f \in Files : eof_reached[f] => eof_reached'[f]
    /\ \A o \in Outputs : /\ initialized[o] => initialized'[o]
                          /\ finished[o] => finished'[o]

\* Between two gains the sinks are emptied, fewer outputs are to be tried, and
\* the call at hand comes to its end, in this order.
InSinks == \E o \in Encoded : graph[o].sink > 0
Tried   == {o \in Outputs : unavailable[o]}

Left == CASE pc = "decode" -> 5 [] pc = "reap"  -> 4 [] pc = "loop" -> 3
          [] pc = "input"  -> 2 [] pc = "ended" -> 1 [] pc = "done" -> 0

Advances ==
    \/ InSinks /\ ~InSinks'
    \/ /\ InSinks' => InSinks
       /\ Tried \subseteq Tried'
       /\ Tried # Tried' \/ Left' < Left

\* No step of the loop is in vain: it gains something or is one of the boundedly
\* many until something is gained, unless a demuxer says EAGAIN, or the loop
\* sleeps after one did.  And nothing gained is lost.
Progress ==
    /\ LosesNothing
    /\ \/ Gains \/ Advances
       \/ input_eagain
       \/ wait_for_input /\ \E f \in Files : eagain[f]

LoopProgress == [][Progress]_vars

\* Whatever the inputs say and when, the loop ends: no output is waited for
\* that nothing is read for.
LoopEnds == <>(pc = "done")
=============================================================================
