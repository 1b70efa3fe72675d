---------------------------- MODULE FilterGraph ----------------------------
(* A filter graph as ffmpeg.c drives it: frames wait in each input's        *)
(* frame_queue until the formats of all inputs are known, then the graph is *)
(* built; it is built anew when a frame's parameters change.  What a graph  *)
(* does inside is libavfilter's: here it takes a frame of each input that   *)
(* is still open and makes one of them.                                     *)
EXTENDS Integers, Sequences

CONSTANT Streams    \* input streams

Nothing == [i \in Streams |-> <<>>]

\* A graph fed by the streams of inputs.
NewGraph(inputs) ==
    [inputs |-> inputs,
     known  |-> {},         \* inputs with a format
     built  |-> FALSE,      \* fg->graph
     wait   |-> Nothing,    \* frame_queue of each input: frames by number
     eof    |-> {},         \* inputs with ifilter->eof set
     src    |-> Nothing,    \* frames in the buffer source of each input
     shut   |-> {},         \* inputs whose buffer source got the end
     asked  |-> {},         \* inputs with nb_failed_requests > 0
     used   |-> [i \in Streams |-> 0],    \* frames of each input it took
     sink   |-> 0,          \* frames made and not reaped yet
     lost   |-> [i \in Streams |-> 0]]   \* history: frames a rebuilding threw away

Frames == [Streams -> Seq(Nat)]

IsGraph(g, inputs) ==
    /\ g = [inputs |-> inputs, known |-> g.known, built |-> g.built,
            wait |-> g.wait, eof |-> g.eof, src |-> g.src, shut |-> g.shut,
            asked |-> g.asked, used |-> g.used, sink |-> g.sink, lost |-> g.lost]
    /\ g.known \subseteq inputs /\ g.eof \subseteq inputs
    /\ g.shut \subseteq inputs /\ g.asked \subseteq inputs
    /\ g.wait \in Frames /\ g.src \in Frames
    /\ g.used \in [Streams -> Nat] /\ g.lost \in [Streams -> Nat]
    /\ g.sink \in Nat /\ g.built \in BOOLEAN

\* ifilter_has_all_input_formats
HasAllFormats(g) == g.known = g.inputs

\* Frames inside a graph are thrown away with it.
Lost(g) == [i \in Streams |-> g.lost[i] + Len(g.src[i])]

\* Mutant of Configured: the ends of inputs are not sent to the new graph.
ConfiguredNoEof(g) ==
    [g EXCEPT !.built = TRUE, !.src = g.wait, !.wait = Nothing, !.shut = {},
              !.asked = {}, !.sink = 0, !.lost = Lost(g)]

\* Mutant of Configured: the frames that waited are dropped.
ConfiguredLost(g) ==
    [g EXCEPT !.built = TRUE, !.src = Nothing, !.wait = Nothing, !.shut = g.eof,
              !.asked = {}, !.sink = 0, !.lost = Lost(g)]

\* configure_filtergraph: a new graph gets the frames that waited, then the
\* ends of the inputs that are over; what the old one held is gone.
Configured(g) ==
    [g EXCEPT !.built = TRUE, !.src = g.wait, !.wait = Nothing, !.shut = g.eof,
              !.asked = {}, !.sink = 0, !.lost = Lost(g)]

\* A frame of input i, its parameters changed or not, has the graph built.
Builds(g, i, changed) ==
    /\ changed \/ i \notin g.known \/ ~g.built
    /\ g.known \cup {i} = g.inputs

\* The frame is added to the buffer source.
Fed(g, i, n) ==
    [g EXCEPT !.src[i] = Append(@, n), !.asked = @ \ {i}]

\* ifilter_send_frame of frame n; the sinks have been reaped when it builds.
SendFrame(g, i, n, changed) ==
    LET h == [g EXCEPT !.known = @ \cup {i}]
    IN  IF Builds(g, i, changed) THEN Fed(Configured(h), i, n)
        ELSE IF ~g.built THEN [h EXCEPT !.wait[i] = Append(@, n)]
        ELSE Fed(h, i, n)

\* Mutant of SendEof: the format of an input without a frame stays unknown.
SendEofOnly(g, is) ==
    [g EXCEPT !.eof = @ \cup is, !.shut = IF g.built THEN @ \cup is ELSE @]

\* ifilter_send_eof for the inputs is: into the graph, or noted until there is
\* one; an input that never had a frame takes its format from the codec
\* parameters, which are complete (exit_program is called if not).
SendEof(g, is) ==
    [g EXCEPT !.eof   = @ \cup is,
              !.shut  = IF g.built THEN @ \cup is ELSE @,
              !.known = @ \cup is]

\* Open inputs that have no frame for the graph.
Hungry(g) == {i \in g.inputs \ g.shut : g.src[i] = <<>>}

\* The graph can make a frame ...
Ready(g) == g.built /\ Hungry(g) = {} /\ \E i \in g.inputs : g.src[i] # <<>>

\* Mutant of Drained: with frames still inside.
DrainedEarly(g) == g.built /\ g.shut = g.inputs

\* ... or has no more to make.
Drained(g) == g.built /\ g.shut = g.inputs /\ \A i \in g.inputs : g.src[i] = <<>>

\* A frame of each input that has one becomes a frame of the sink.
Filtered(g) ==
    [g EXCEPT !.src  = [i \in Streams |-> IF g.src[i] = <<>> THEN <<>>
                                                            ELSE Tail(g.src[i])],
              !.used = [i \in Streams |-> IF g.src[i] = <<>> THEN g.used[i]
                                                            ELSE g.used[i] + 1],
              !.sink = @ + 1]

\* Inputs r were asked for a frame in vain.
Asked(g, r) == [g EXCEPT !.asked = @ \cup r]

Reaped(g) == [g EXCEPT !.sink = 0]
=============================================================================
