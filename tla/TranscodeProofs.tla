-------------------------- MODULE TranscodeProofs --------------------------
(* Proofs about Transcode: for any files, streams, graphs, limits and       *)
(* decoders, which files are read, and what reaches the graphs and in which *)
(* order.                                                                   *)
EXTENDS Transcode, SequenceTheorems, WellFoundedInduction, TLAPS

-----------------------------------------------------------------------------
(* The inductive invariant                                                  *)

\* The frames of s are consecutive and end with frame n.
Numbered(s, n) == \A k \in 1..Len(s) : s[k] = (n - Len(s)) + k

\* A graph between two operations: it is told the end of an input it knows;
\* built, no frame waits and its sources were told every end; before, nothing
\* is inside.
GraphOk(g, J) ==
    /\ IsGraph(g, J)
    /\ g.eof \subseteq g.known
    /\ g.built => g.known = J /\ g.wait = Nothing /\ g.shut = g.eof
    /\ ~g.built => g.src = Nothing /\ g.shut = {}

\* Input i of a graph, after n frames of the stream were decoded.
InputOk(g, i, n) ==
    /\ Numbered(g.src[i], n)
    /\ Numbered(g.wait[i], n)
    /\ (g.used[i] + g.lost[i]) + (Len(g.src[i]) + Len(g.wait[i])) = n
    /\ n > 0 => i \in g.known

\* The graphs gs when d frames of each stream were decoded.
GraphsOk(gs, d) ==
    /\ gs = [o \in Encoded |-> gs[o]]
    /\ \A o \in Encoded : /\ GraphOk(gs[o], Inputs[o])
                          /\ \A i \in Inputs[o] : InputOk(gs[o], i, d[i])

\* A graph that has made its last frame.
Emptied(g) == /\ g.built /\ g.eof = g.inputs /\ g.sink = 0
              /\ \A i \in g.inputs : g.src[i] = <<>>

Types ==
    /\ pc \in {"loop", "input", "decode", "reap", "ended", "done"}
    /\ file \in Files /\ out \in Outputs /\ ist \in Streams
    /\ max_frames \in Limits
    /\ packets \in [Streams -> 0..MaxPackets]
    /\ held \in [Streams -> Nat]
    /\ decoded \in [Streams -> Nat]
    /\ over \in [Files -> BOOLEAN]
    /\ eagain \in [Files -> BOOLEAN]
    /\ eof_reached \in [Files -> BOOLEAN]
    /\ initialized \in [Outputs -> BOOLEAN]
    /\ unavailable \in [Outputs -> BOOLEAN]
    /\ inputs_done = [o \in Outputs |-> FALSE]
    /\ finished \in [Outputs -> BOOLEAN]
    /\ frame_number \in [Outputs -> Nat]
    /\ first \in [Copied -> 0..MaxPackets]
    /\ changes \in 0..MaxChanges
    /\ received_sigterm \in BOOLEAN

\* Each packet of a stream that is decoded is in the decoder or was given; the
\* decoder is over its delay only while it is asked.
Counts ==
    \A i \in Streams :
        /\ held[i] + decoded[i] = IF Decoding(i) THEN packets[i] ELSE 0
        /\ held[i] > Delay => pc = "decode" /\ i = ist /\ held[i] = Delay + 1

\* The file at hand is open, and its own stream is decoded.
Control ==
    /\ pc = "input" => ~eof_reached[file]
    /\ pc = "decode" => ~over[file] /\ FileOf[ist] = file

\* The end of file f has been dealt with.
Ended(f) == eof_reached[f] \/ (pc = "ended" /\ f = file)

\* The end of an input reaches a graph once its file and its decoder have
\* nothing left, and has reached it when the end has been dealt with.
GraphEnds ==
    \A o \in Encoded : \A i \in Inputs[o] :
        /\ Ended(FileOf[i]) => i \in graph[o].eof
        /\ i \in graph[o].eof => over[FileOf[i]] /\ held[i] = 0

\* The packets of a copied output are the packets read, but for one that is
\* about to be copied.
Uncopied(i) == IF pc = "decode" /\ ist = i THEN 1 ELSE 0

\* From its first packet on a copied output takes all.
Handed(o) ==
    frame_number[o] > 0 =>
        first[o] + (frame_number[o] + Uncopied(Source[o])) = packets[Source[o]] + 1

\* Copied outputs end with their file, and take all packets until they are at
\* their limit.
Copies ==
    \A o \in Copied :
        /\ initialized[o]
        /\ Ended(FileOf[Source[o]]) => finished[o]
        /\ finished[o] /\ pc # "done" => over[FileOf[Source[o]]]
        /\ AtLimit(o) \/ Handed(o)

\* Encoded outputs end with their graph.
EncodedEnds ==
    pc # "done" => \A o \in Encoded : finished[o] => Emptied(graph[o])

\* What AllDelivered says of the packets copied and the frames that went into
\* the graphs.
Delivered ==
    pc = "done" /\ ~received_sigterm /\ (\A o \in Outputs : ~AtLimit(o)) =>
        /\ \A o \in Copied : frame_number[o] > 0 =>
              first[o] + frame_number[o] = packets[Source[o]] + 1
        /\ \A o \in Encoded : \A i \in Inputs[o] :
              graph[o].used[i] + graph[o].lost[i] = packets[i] /\ graph[o].sink = 0

IInv == /\ Types /\ GraphsOk(graph, decoded) /\ Counts /\ Control
        /\ GraphEnds /\ Copies /\ EncodedEnds /\ Delivered

-----------------------------------------------------------------------------
(* Least elements                                                           *)

\* A set of natural numbers that is not empty has a least element.
LEMMA LeastNatural ==
    ASSUME NEW S, S \subseteq Nat, S # {}
    PROVE  \E m \in S : \A n \in S : m <= n
<1> DEFINE R == {ss \in Nat \X Nat : ss[1] < ss[2]}
<1>1. IsWellFoundedOn(R, Nat)
  BY NatLessThanWellFounded, Zenon DEF OpToRel
<1>2. PICK m \in S : \A n \in S : ~(<<n, m>> \in R)
  <2> HIDE DEF R
  <2> QED BY <1>1, WFMin, Zenon
<1>3. ASSUME NEW n \in S
      PROVE  m <= n
  <2>1. n \in Nat /\ m \in Nat
    OBVIOUS
  <2>2. ~(n < m)
    BY <1>2, <2>1
  <2> QED BY <2>1, <2>2
<1> QED BY <1>2, <1>3

\* First picks it: the streams and the outputs are numbers.
LEMMA FirstIsLeast ==
    ASSUME NEW S, S \subseteq Nat, S # {}
    PROVE  First(S) \in S /\ \A p \in S : First(S) <= p
<1>1. \E m \in S : \A n \in S : m <= n
  BY LeastNatural
<1> QED BY <1>1 DEF First

LEMMA NumbersOfOutputs ==
    /\ Outputs \subseteq Nat
    /\ Streams \subseteq Nat
    /\ Encoded \subseteq Outputs /\ Copied \subseteq Outputs
    /\ \A o \in Outputs : o \in Encoded <=> o \notin Copied
    /\ \A o \in Encoded : Inputs[o] \subseteq Streams /\ Inputs[o] # {}
    /\ \A i \in Streams : FileOf[i] \in Files
    /\ \A o \in Copied : Source[o] \in Streams /\ FileOf[Source[o]] \in Files
<1> USE TranscodeAssumption
<1>1. Outputs \subseteq Nat
  <2>1. \A n \in 1..nb_output_streams : n \in Nat
    OBVIOUS
  <2> QED BY <2>1, Zenon DEF Outputs
<1>2. Encoded \subseteq Outputs /\ (\A o \in Outputs : o \in Encoded <=> o \notin Copied)
  BY Zenon DEF Encoded
<1>3. \A o \in Encoded : Inputs[o] \subseteq Streams /\ Inputs[o] # {}
  OBVIOUS
<1>4. \A i \in Streams : FileOf[i] \in Files
  OBVIOUS
<1>5. \A o \in Copied : Source[o] \in Streams
  OBVIOUS
<1> QED BY <1>1, <1>2, <1>3, <1>4, <1>5

\* With an output still running, Least is one of them.
LEMMA LeastRuns ==
    ASSUME Unfinished # {}, \A o \in Outputs : cur_dts(o) \in Int /\ cur_dts(o) >= -1
    PROVE  Least \in Unfinished
<1> DEFINE T == {cur_dts(o) + 1 : o \in Unfinished}
<1>1. Unfinished \subseteq Outputs /\ Unfinished \subseteq Nat
  BY NumbersOfOutputs DEF Unfinished
<1>2. T \subseteq Nat /\ T # {}
  <2>1. ASSUME NEW o \in Unfinished
        PROVE  cur_dts(o) + 1 \in Nat
    BY <1>1
  <2>2. PICK o \in Unfinished : TRUE
    OBVIOUS
  <2>3. cur_dts(o) + 1 \in T
    BY <2>2
  <2> QED BY <2>1, <2>3
<1>3. PICK m \in T : \A n \in T : m <= n
  BY <1>2, LeastNatural
<1> DEFINE U == {o \in Unfinished : cur_dts(o) + 1 = m}
<1>4. U \subseteq Nat /\ U # {}
  BY <1>1, <1>3
<1>5. First(U) \in U /\ \A p \in U : First(U) <= p
  BY <1>4, FirstIsLeast
<1>6. ASSUME NEW p \in Unfinished
      PROVE  \/ cur_dts(First(U)) < cur_dts(p)
             \/ cur_dts(First(U)) = cur_dts(p) /\ First(U) <= p
  <2>1. m <= cur_dts(p) + 1 /\ cur_dts(p) \in Int
    BY <1>1, <1>3
  <2>2. cur_dts(First(U)) + 1 = m /\ cur_dts(First(U)) \in Int
    BY <1>1, <1>5
  <2>3. CASE cur_dts(p) + 1 = m
    <3>1. p \in U
      BY <2>3
    <3> QED BY <2>1, <2>2, <2>3, <3>1, <1>5
  <2>4. CASE cur_dts(p) + 1 # m
    <3> HIDE DEF U
    <3> QED BY <1>2, <1>3, <2>1, <2>2, <2>4
  <2> QED BY <2>3, <2>4
<1>7. First(U) \in Unfinished
  BY <1>5
<1> HIDE DEF U
<1> QED BY <1>6, <1>7 DEF Least

-----------------------------------------------------------------------------
(* Frames in order                                                          *)

LEMMA NumberedAppend ==
    ASSUME NEW s \in Seq(Nat), NEW n \in Nat, Numbered(s, n)
    PROVE  Numbered(Append(s, n + 1), n + 1)
<1>1. Len(s) \in Nat /\ Len(Append(s, n + 1)) = Len(s) + 1
  OBVIOUS
<1>2. ASSUME NEW k \in 1..(Len(s) + 1)
      PROVE  Append(s, n + 1)[k] = ((n + 1) - (Len(s) + 1)) + k
  <2>1. CASE k = Len(s) + 1
    <3>1. Append(s, n + 1)[Len(s) + 1] = n + 1
      OBVIOUS
    <3> QED BY <1>1, <2>1, <3>1
  <2>2. CASE k # Len(s) + 1
    <3>1. k \in 1..Len(s)
      BY <1>1, <2>2
    <3>2. Append(s, n + 1)[k] = s[k]
      BY <3>1
    <3>3. s[k] = (n - Len(s)) + k
      BY <3>1 DEF Numbered
    <3> HIDE <1>1
    <3>4. (n - Len(s)) + k = ((n + 1) - (Len(s) + 1)) + k
      BY <1>1, <3>1
    <3> QED BY <3>2, <3>3, <3>4
  <2> QED BY <2>1, <2>2
<1> QED BY <1>1, <1>2 DEF Numbered

LEMMA NumberedTail ==
    ASSUME NEW s \in Seq(Nat), NEW n \in Nat, Numbered(s, n), s # <<>>
    PROVE  Numbered(Tail(s), n)
  BY DEF Numbered

LEMMA NumberedEmpty ==
    ASSUME NEW n \in Nat
    PROVE  Numbered(<<>>, n)
  BY DEF Numbered

-----------------------------------------------------------------------------
(* What the operations of a graph keep                                      *)

LEMMA GraphFields ==
    ASSUME NEW g, NEW J, GraphOk(g, J)
    PROVE  /\ g.inputs = J
           /\ g.known \subseteq J /\ g.eof \subseteq g.known
           /\ g.shut \subseteq J /\ g.asked \subseteq J
           /\ g.wait \in Frames /\ g.src \in Frames
           /\ g.used \in [Streams -> Nat] /\ g.sink \in Nat
           /\ g.built \in BOOLEAN /\ g.lost \in [Streams -> Nat]
           /\ g.built => g.known = J /\ g.wait = Nothing /\ g.shut = g.eof
           /\ ~g.built => g.src = Nothing /\ g.shut = {}
<1>1. g.inputs = J
  BY DEF GraphOk, IsGraph
<1> QED BY <1>1 DEF GraphOk, IsGraph

FieldNames == {"inputs", "known", "built", "wait", "eof", "src", "shut",
               "asked", "used", "sink", "lost"}

\* A record with the fields of a graph; EXCEPT leaves it one.
IsRecord(g) == DOMAIN g = FieldNames /\ g = [x \in DOMAIN g |-> g[x]]

LEMMA RecordOfGraph ==
    ASSUME NEW g, NEW J, GraphOk(g, J)
    PROVE  IsRecord(g)
<1> DEFINE r == [inputs |-> J, known |-> g.known, built |-> g.built,
            wait |-> g.wait, eof |-> g.eof, src |-> g.src, shut |-> g.shut,
            asked |-> g.asked, used |-> g.used, sink |-> g.sink, lost |-> g.lost]
<1>1. g = r
  BY Zenon DEF GraphOk, IsGraph
<1>2. DOMAIN r = FieldNames
  BY DEF FieldNames
<1>3. r = [x \in DOMAIN r |-> r[x]]
  OBVIOUS
<1> HIDE DEF r
<1> QED BY <1>1, <1>2, <1>3 DEF IsRecord

LEMMA GraphOfRecord ==
    ASSUME NEW h, NEW J, IsRecord(h), h.inputs = J,
           h.known \subseteq J, h.eof \subseteq h.known,
           h.shut \subseteq J, h.asked \subseteq J,
           h.wait \in Frames, h.src \in Frames,
           h.used \in [Streams -> Nat], h.sink \in Nat,
           h.built \in BOOLEAN, h.lost \in [Streams -> Nat],
           h.built => h.known = J /\ h.wait = Nothing /\ h.shut = h.eof,
           ~h.built => h.src = Nothing /\ h.shut = {}
    PROVE  GraphOk(h, J)
<1> DEFINE r == [inputs |-> J, known |-> h.known, built |-> h.built,
            wait |-> h.wait, eof |-> h.eof, src |-> h.src, shut |-> h.shut,
            asked |-> h.asked, used |-> h.used, sink |-> h.sink, lost |-> h.lost]
<1>1. DOMAIN r = FieldNames
  BY DEF FieldNames
<1>2. h = r
  BY <1>1 DEF IsRecord, FieldNames
<1>3. h.eof \subseteq J
  OBVIOUS
<1> QED BY <1>2, <1>3 DEF GraphOk, IsGraph

LEMMA NewGraphOk ==
    ASSUME NEW J, J \subseteq Streams
    PROVE  /\ GraphOk(NewGraph(J), J)
           /\ \A i \in J : InputOk(NewGraph(J), i, 0)
           /\ NewGraph(J).eof = {}
<1>1. Nothing \in Frames
  BY DEF Nothing, Frames
<1>2. NewGraph(J).eof = {}
  BY DEF NewGraph
<1>3. IsGraph(NewGraph(J), J)
  BY <1>1 DEF NewGraph, IsGraph
<1>4. GraphOk(NewGraph(J), J)
  BY <1>3 DEF NewGraph, GraphOk
<1>5. ASSUME NEW i \in J
      PROVE  InputOk(NewGraph(J), i, 0)
  <2> DEFINE g == NewGraph(J)
  <2>1. i \in Streams
    OBVIOUS
  <2>2. g.src[i] = <<>> /\ g.wait[i] = <<>> /\ g.used[i] = 0 /\ g.lost[i] = 0
    BY <2>1 DEF Nothing, NewGraph
  <2>3. Numbered(g.src[i], 0) /\ Numbered(g.wait[i], 0)
    BY <2>2, NumberedEmpty
  <2> HIDE DEF g
  <2>4. Len(g.src[i]) = 0 /\ Len(g.wait[i]) = 0
    BY <2>2
  <2>5. (g.used[i] + g.lost[i]) + (Len(g.src[i]) + Len(g.wait[i])) = 0
    BY <2>2, <2>4
  <2>6. ~(0 > 0)
    OBVIOUS
  <2>7. InputOk(g, i, 0)
    BY <2>3, <2>5, <2>6, Zenon DEF InputOk
  <2> QED BY <2>7 DEF g
<1> QED BY <1>2, <1>4, <1>5

LEMMA ReapedOk ==
    ASSUME NEW g, NEW J, GraphOk(g, J)
    PROVE  /\ GraphOk(Reaped(g), J)
           /\ Reaped(g).eof = g.eof
           /\ \A i, n : InputOk(g, i, n) => InputOk(Reaped(g), i, n)
           /\ Emptied(g) => Emptied(Reaped(g))
           /\ Reaped(g).built = g.built /\ Reaped(g).sink = 0
           /\ Reaped(g).inputs = g.inputs /\ Reaped(g).src = g.src
           /\ Reaped(g).shut = g.shut /\ Reaped(g).known = g.known
<1> DEFINE h == Reaped(g)
<1>1. GraphOk(g, J) /\ IsRecord(g)
  BY RecordOfGraph
<1>2. IsRecord(h)
  BY <1>1 DEF IsRecord, Reaped
<1>3. /\ h.inputs = g.inputs /\ h.known = g.known /\ h.eof = g.eof
      /\ h.src = g.src /\ h.wait = g.wait /\ h.used = g.used
      /\ h.lost = g.lost /\ h.built = g.built /\ h.sink = 0
      /\ h.shut = g.shut /\ h.asked = g.asked
  BY <1>1 DEF IsRecord, FieldNames, Reaped
<1> HIDE DEF h
<1>4. GraphOk(h, J)
  <2>1. /\ g.inputs = J
        /\ g.known \subseteq J /\ g.eof \subseteq g.known
        /\ g.shut \subseteq J /\ g.asked \subseteq J
        /\ g.wait \in Frames /\ g.src \in Frames
        /\ g.used \in [Streams -> Nat]
        /\ g.built \in BOOLEAN /\ g.lost \in [Streams -> Nat]
        /\ g.built => g.known = J /\ g.wait = Nothing /\ g.shut = g.eof
        /\ ~g.built => g.src = Nothing /\ g.shut = {}
    BY <1>1, GraphFields
  <2>2. 0 \in Nat
    OBVIOUS
  <2> QED BY <1>2, <1>3, <2>1, <2>2, GraphOfRecord
<1>5. ASSUME NEW i, NEW n, InputOk(g, i, n)
      PROVE  InputOk(h, i, n)
  BY <1>3, <1>5, Zenon DEF InputOk
<1>6. Emptied(g) => Emptied(h)
  BY <1>3 DEF Emptied
<1> QED BY <1>3, <1>4, <1>5, <1>6 DEF h

\* The end of streams of the graph, as the file is drained.
LEMMA SendEofOk ==
    ASSUME NEW g, NEW J, GraphOk(g, J), NEW is, is \subseteq J
    PROVE  /\ GraphOk(SendEof(g, is), J)
           /\ SendEof(g, is).eof = g.eof \cup is
           /\ \A i, n : InputOk(g, i, n) => InputOk(SendEof(g, is), i, n)
           /\ Emptied(g) => Emptied(SendEof(g, is))
<1> DEFINE h == SendEof(g, is)
<1>1. GraphOk(g, J) /\ IsRecord(g)
  BY RecordOfGraph
<1>2. IsRecord(h)
  BY <1>1 DEF IsRecord, SendEof
<1>3. /\ h.inputs = g.inputs /\ h.known = g.known \cup is
      /\ h.eof = g.eof \cup is
      /\ h.src = g.src /\ h.wait = g.wait /\ h.used = g.used
      /\ h.lost = g.lost /\ h.built = g.built /\ h.sink = g.sink
      /\ h.shut = (IF g.built THEN g.shut \cup is ELSE g.shut)
      /\ h.asked = g.asked
  BY <1>1 DEF IsRecord, FieldNames, SendEof
<1> HIDE DEF h
<1>4. GraphOk(h, J)
  <2>1. h.known \subseteq J /\ h.eof \subseteq h.known /\ h.shut \subseteq J
    BY <1>1, <1>3, GraphFields
  <2>2. /\ h.built => h.known = J /\ h.wait = Nothing /\ h.shut = h.eof
        /\ ~h.built => h.src = Nothing /\ h.shut = {}
    BY <1>1, <1>3, GraphFields
  <2>3. /\ g.inputs = J /\ g.asked \subseteq J
        /\ g.wait \in Frames /\ g.src \in Frames
        /\ g.used \in [Streams -> Nat] /\ g.sink \in Nat
        /\ g.built \in BOOLEAN /\ g.lost \in [Streams -> Nat]
    BY <1>1, GraphFields
  <2>4. /\ h.inputs = J /\ h.asked \subseteq J
        /\ h.wait \in Frames /\ h.src \in Frames
        /\ h.used \in [Streams -> Nat] /\ h.sink \in Nat
        /\ h.built \in BOOLEAN /\ h.lost \in [Streams -> Nat]
    BY <1>3, <2>3
  <2> QED BY <1>2, <2>1, <2>2, <2>4, GraphOfRecord
<1>5. ASSUME NEW i, NEW n, InputOk(g, i, n)
      PROVE  InputOk(h, i, n)
  <2>1. n > 0 => i \in h.known
    BY <1>3, <1>5 DEF InputOk
  <2> QED BY <2>1, <1>3, <1>5, Zenon DEF InputOk
<1>6. Emptied(g) => Emptied(h)
  BY <1>1, <1>3, GraphFields DEF Emptied
<1> QED BY <1>3, <1>4, <1>5, <1>6 DEF h

\* Asking changes nothing that matters.
LEMMA AskedOk ==
    ASSUME NEW g, NEW J, GraphOk(g, J), NEW r, r \subseteq J
    PROVE  /\ GraphOk(Asked(g, r), J)
           /\ Asked(g, r).eof = g.eof
           /\ \A i, n : InputOk(g, i, n) => InputOk(Asked(g, r), i, n)
           /\ Emptied(g) => Emptied(Asked(g, r))
           /\ Asked(g, r).asked \subseteq J
<1> DEFINE h == Asked(g, r)
<1>1. GraphOk(g, J) /\ IsRecord(g)
  BY RecordOfGraph
<1>2. IsRecord(h)
  BY <1>1 DEF IsRecord, Asked
<1>3. /\ h.inputs = g.inputs /\ h.known = g.known /\ h.eof = g.eof
      /\ h.src = g.src /\ h.wait = g.wait /\ h.used = g.used
      /\ h.lost = g.lost /\ h.built = g.built /\ h.sink = g.sink
      /\ h.shut = g.shut /\ h.asked = g.asked \cup r
  BY <1>1 DEF IsRecord, FieldNames, Asked
<1> HIDE DEF h
<1>4. GraphOk(h, J) /\ h.asked \subseteq J
  <2>1. h.asked \subseteq J
    BY <1>1, <1>3, GraphFields
  <2> QED BY <1>1, <1>2, <1>3, <2>1, GraphFields, GraphOfRecord
<1>5. ASSUME NEW i, NEW n, InputOk(g, i, n)
      PROVE  InputOk(h, i, n)
  BY <1>3, <1>5, Zenon DEF InputOk
<1>6. Emptied(g) => Emptied(h)
  BY <1>3 DEF Emptied
<1> QED BY <1>3, <1>4, <1>5, <1>6 DEF h

\* A frame is made of what is inside.
LEMMA FilteredOk ==
    ASSUME NEW g, NEW J, J \subseteq Streams, GraphOk(g, J), Ready(g)
    PROVE  /\ GraphOk(Filtered(g), J)
           /\ Filtered(g).eof = g.eof
           /\ \A i \in J : \A n \in Nat :
                 InputOk(g, i, n) => InputOk(Filtered(g), i, n)
           /\ ~Emptied(g)
<1> DEFINE h == Filtered(g)
<1>1. GraphOk(g, J) /\ IsRecord(g) /\ g.built
  BY RecordOfGraph DEF Ready
<1> DEFINE src == [i \in Streams |-> IF g.src[i] = <<>> THEN <<>> ELSE Tail(g.src[i])]
           used == [i \in Streams |-> IF g.src[i] = <<>> THEN g.used[i]
                                                         ELSE g.used[i] + 1]
<1>2. IsRecord(h)
  BY <1>1 DEF IsRecord, Filtered
<1>3. /\ h.inputs = g.inputs /\ h.known = g.known /\ h.eof = g.eof
      /\ h.src = src /\ h.wait = g.wait /\ h.used = used
      /\ h.lost = g.lost /\ h.built = g.built /\ h.sink = g.sink + 1
      /\ h.shut = g.shut /\ h.asked = g.asked
  <2> DEFINE k == g.sink + 1
  <2>1. h = [g EXCEPT !.src = src, !.used = used, !.sink = k]
    BY Zenon DEF Filtered
  <2> HIDE DEF h, src, used, k
  <2>2. /\ h.inputs = g.inputs /\ h.known = g.known /\ h.eof = g.eof
        /\ h.src = src /\ h.wait = g.wait /\ h.used = used
        /\ h.lost = g.lost /\ h.built = g.built /\ h.sink = k
        /\ h.shut = g.shut /\ h.asked = g.asked
    BY <1>1, <2>1 DEF IsRecord, FieldNames
  <2> QED BY <2>2 DEF k
<1> HIDE DEF h
<1>4. src \in Frames
  <2>1. ASSUME NEW i \in Streams
        PROVE  (IF g.src[i] = <<>> THEN <<>> ELSE Tail(g.src[i])) \in Seq(Nat)
    <3>1. g.src[i] \in Seq(Nat)
      BY <1>1, GraphFields DEF Frames
    <3> QED BY <3>1
  <2> QED BY <2>1 DEF Frames
<1>5. used \in [Streams -> Nat]
  <2>1. g.used \in [Streams -> Nat]
    BY <1>1, GraphFields
  <2> QED BY <2>1
<1> HIDE DEF src, used
<1>6. GraphOk(h, J)
  <2>1. /\ g.inputs = J
        /\ g.known \subseteq J /\ g.eof \subseteq g.known
        /\ g.shut \subseteq J /\ g.asked \subseteq J
        /\ g.wait \in Frames /\ g.sink + 1 \in Nat
        /\ g.built \in BOOLEAN /\ g.lost \in [Streams -> Nat]
        /\ g.known = J /\ g.wait = Nothing /\ g.shut = g.eof
    BY <1>1, GraphFields
  <2> QED BY <1>1, <1>2, <1>3, <1>4, <1>5, <2>1, GraphOfRecord
<1>7. ASSUME NEW i \in J, NEW n \in Nat, InputOk(g, i, n)
      PROVE  InputOk(h, i, n)
  <2>1. /\ g.src[i] \in Seq(Nat) /\ g.wait[i] \in Seq(Nat) /\ g.used[i] \in Nat
        /\ g.wait \in Frames /\ g.lost[i] \in Nat
    BY <1>1, GraphFields DEF Frames
  <2>2. i \in Streams
    OBVIOUS
  <2>3. CASE g.src[i] = <<>>
    <3>1. h.src[i] = g.src[i] /\ h.used[i] = g.used[i]
      BY <2>2, <2>3, <1>3 DEF src, used
    <3> QED BY <3>1, <1>3, <1>7, Zenon DEF InputOk
  <2>4. CASE g.src[i] # <<>>
    <3>1. h.src[i] = Tail(g.src[i]) /\ h.used[i] = g.used[i] + 1
      BY <2>2, <2>4, <1>3 DEF src, used
    <3>2. Numbered(h.src[i], n)
      BY <2>1, <2>4, <3>1, <1>7, NumberedTail DEF InputOk
    <3>3. Len(h.src[i]) = Len(g.src[i]) - 1 /\ Len(g.src[i]) \in Nat
      BY <2>1, <2>4, <3>1
    <3>4. Len(g.wait[i]) \in Nat
      BY <2>1
    <3> DEFINE a == Len(g.src[i])
               b == Len(g.wait[i])
               c == Len(h.src[i])
    <3>5. (g.used[i] + g.lost[i]) + (a + b) = n
      BY <1>7, Zenon DEF InputOk
    <3>6. c = a - 1 /\ a \in Nat /\ b \in Nat
      BY <3>3, <3>4
    <3> HIDE DEF a, b, c
    <3>7. (h.used[i] + h.lost[i]) + (c + b) = n
      <4>1. h.lost[i] = g.lost[i]
        BY <1>3
      <4> QED BY <2>1, <3>1, <3>5, <3>6, <4>1
    <3> QED BY <3>2, <3>7, <1>3, <1>7, Zenon DEF InputOk, a, b, c
  <2> QED BY <2>3, <2>4
<1>8. ~Emptied(g)
  BY DEF Ready, Emptied
<1> QED BY <1>3, <1>6, <1>7, <1>8 DEF h

\* A new graph has the frames that waited, and lost those inside the old one.
LEMMA ConfiguredOk ==
    ASSUME NEW g, NEW J, J \subseteq Streams, GraphOk(g, J), g.known = J
    PROVE  /\ GraphOk(Configured(g), J)
           /\ Configured(g).eof = g.eof /\ Configured(g).known = J
           /\ Configured(g).built /\ Configured(g).sink = 0
           /\ Configured(g).inputs = J
           /\ \A i \in J : \A n \in Nat :
                 InputOk(g, i, n) => InputOk(Configured(g), i, n)
<1> DEFINE h == Configured(g)
<1>1. GraphOk(g, J) /\ IsRecord(g)
  BY RecordOfGraph
<1>2. IsRecord(h)
  BY <1>1 DEF IsRecord, Configured
<1>3. /\ h.inputs = g.inputs /\ h.known = g.known /\ h.eof = g.eof
      /\ h.src = g.wait /\ h.wait = Nothing /\ h.used = g.used
      /\ h.lost = Lost(g) /\ h.built = TRUE /\ h.sink = 0
      /\ h.shut = g.eof /\ h.asked = {}
  <2> DEFINE no  == {}
  <2>1. h = [g EXCEPT !.built = TRUE, !.src = g.wait, !.wait = Nothing,
                      !.shut = g.eof, !.asked = no, !.sink = 0, !.lost = Lost(g)]
    BY Zenon DEF Configured
  <2> HIDE DEF h, no
  <2>2. /\ h.inputs = g.inputs /\ h.known = g.known /\ h.eof = g.eof
        /\ h.src = g.wait /\ h.wait = Nothing /\ h.used = g.used
        /\ h.lost = Lost(g) /\ h.built = TRUE /\ h.sink = 0
        /\ h.shut = g.eof /\ h.asked = no
    BY <1>1, <2>1 DEF IsRecord, FieldNames
  <2> QED BY <2>2, Zenon DEF no
<1> HIDE DEF h
<1>4. /\ g.inputs = J
      /\ g.known \subseteq J /\ g.eof \subseteq g.known
      /\ g.shut \subseteq J /\ g.asked \subseteq J
      /\ g.wait \in Frames /\ g.src \in Frames
      /\ g.used \in [Streams -> Nat]
      /\ g.built \in BOOLEAN /\ g.lost \in [Streams -> Nat]
      /\ g.built => g.wait = Nothing
      /\ ~g.built => g.src = Nothing
  BY <1>1, GraphFields
<1>5. Nothing \in Frames /\ \A i \in Streams : Nothing[i] = <<>>
  BY DEF Nothing, Frames
<1>6. GraphOk(h, J)
  <2>1. 0 \in Nat
    OBVIOUS
  <2>2. Lost(g) \in [Streams -> Nat] /\ h.built /\ h.built \in BOOLEAN
    <3>1. ASSUME NEW i \in Streams
          PROVE  g.lost[i] + Len(g.src[i]) \in Nat
      <4>1. g.src[i] \in Seq(Nat) /\ g.lost[i] \in Nat
        BY <1>4 DEF Frames
      <4> QED BY <4>1
    <3> QED BY <1>3, <3>1 DEF Lost
  <2> QED BY <1>2, <1>3, <1>4, <1>5, <2>1, <2>2, GraphOfRecord
<1>7. ASSUME NEW i \in J, NEW n \in Nat, InputOk(g, i, n)
      PROVE  InputOk(h, i, n)
  <2>1. /\ g.src[i] \in Seq(Nat) /\ g.wait[i] \in Seq(Nat) /\ g.used[i] \in Nat
        /\ g.lost[i] \in Nat /\ i \in Streams
    BY <1>4 DEF Frames
  <2>2. /\ h.src[i] = g.wait[i] /\ h.wait[i] = <<>> /\ h.used[i] = g.used[i]
        /\ h.lost[i] = g.lost[i] + Len(g.src[i])
    BY <1>3, <1>5, <2>1 DEF Lost
  <2>3. Numbered(h.src[i], n) /\ Numbered(h.wait[i], n)
    BY <2>2, <1>7, NumberedEmpty DEF InputOk
  <2> DEFINE a == Len(g.src[i])
             b == Len(g.wait[i])
             c == Len(h.src[i])
             d == Len(h.wait[i])
  <2>4. a \in Nat /\ b \in Nat /\ c = b /\ d = 0
    BY <2>1, <2>2
  <2>5. (g.used[i] + g.lost[i]) + (a + b) = n
    BY <1>7, Zenon DEF InputOk
  <2>6. h.lost[i] = g.lost[i] + a
    BY <2>2
  <2> HIDE DEF a, b, c, d
  <2>7. (h.used[i] + h.lost[i]) + (c + d) = n
    BY <2>1, <2>2, <2>4, <2>5, <2>6
  <2>9. n > 0 => i \in h.known
    BY <1>3, <1>7 DEF InputOk
  <2> QED BY <2>3, <2>7, <2>9, Zenon DEF InputOk, c, d
<1> QED BY <1>3, <1>4, <1>6, <1>7 DEF h

\* The frames of an input with one more of them, in the graph or waiting.
LEMMA OneMore ==
    ASSUME NEW q \in Frames, NEW i \in Streams, NEW n \in Nat
    PROVE  LET r == [q EXCEPT ![i] = Append(@, n + 1)]
           IN  /\ r \in Frames
               /\ \A j \in Streams \ {i} : r[j] = q[j]
               /\ Len(r[i]) = Len(q[i]) + 1
               /\ Numbered(q[i], n) => Numbered(r[i], n + 1)
<1> DEFINE t == Append(q[i], n + 1)
           r == [q EXCEPT ![i] = t]
<1>1. q[i] \in Seq(Nat)
  BY DEF Frames
<1>2. t \in Seq(Nat) /\ Len(t) = Len(q[i]) + 1
  BY <1>1
<1>3. Numbered(q[i], n) => Numbered(t, n + 1)
  BY <1>1, NumberedAppend
<1> HIDE DEF t
<1>4. r \in Frames /\ r[i] = t /\ \A j \in Streams \ {i} : r[j] = q[j]
  BY <1>2 DEF Frames
<1> HIDE DEF r
<1>5. /\ r \in Frames
      /\ \A j \in Streams \ {i} : r[j] = q[j]
      /\ Len(r[i]) = Len(q[i]) + 1
      /\ Numbered(q[i], n) => Numbered(r[i], n + 1)
  BY <1>2, <1>3, <1>4
<1> QED BY <1>5, Zenon DEF r, t

\* An input's frames counted: a frame more, whichever queue it goes to.
LEMMA CountedOne ==
    ASSUME NEW u \in Nat, NEW a \in Nat, NEW b \in Nat, NEW n \in Nat,
           u + (a + b) = n
    PROVE  u + ((a + 1) + b) = n + 1 /\ u + (a + (b + 1)) = n + 1
  OBVIOUS

\* A frame goes into a graph that is built, whose inputs have formats.
LEMMA FedOk ==
    ASSUME NEW g, NEW J, J \subseteq Streams, GraphOk(g, J), g.built,
           NEW i \in J, NEW n \in Nat, InputOk(g, i, n)
    PROVE  LET h == Fed(g, i, n + 1)
           IN  /\ GraphOk(h, J) /\ h.eof = g.eof
               /\ InputOk(h, i, n + 1)
               /\ \A j \in J \ {i} : \A m : InputOk(g, j, m) => InputOk(h, j, m)
<1> DEFINE h == Fed(g, i, n + 1)
           src == [g.src EXCEPT ![i] = Append(@, n + 1)]
           asked == g.asked \ {i}
<1>1. GraphOk(g, J) /\ IsRecord(g) /\ i \in Streams
  BY RecordOfGraph
<1>2. h = [g EXCEPT !.src = src, !.asked = asked]
  BY <1>1 DEF Fed, IsRecord, FieldNames
<1> HIDE DEF h, src, asked
<1>3. IsRecord(h)
  BY <1>1, <1>2 DEF IsRecord
<1>4. /\ h.inputs = g.inputs /\ h.known = g.known /\ h.eof = g.eof
      /\ h.src = src /\ h.wait = g.wait /\ h.used = g.used
      /\ h.lost = g.lost /\ h.built = g.built /\ h.sink = g.sink
      /\ h.shut = g.shut /\ h.asked = asked
  BY <1>1, <1>2 DEF IsRecord, FieldNames
<1>5. /\ g.inputs = J
      /\ g.known = J /\ g.eof \subseteq g.known
      /\ g.shut \subseteq J /\ g.asked \subseteq J
      /\ g.wait \in Frames /\ g.src \in Frames
      /\ g.used \in [Streams -> Nat] /\ g.sink \in Nat
      /\ g.built \in BOOLEAN /\ g.lost \in [Streams -> Nat]
      /\ g.wait = Nothing /\ g.shut = g.eof
  BY <1>1, GraphFields
<1>6. /\ src \in Frames
      /\ \A j \in Streams \ {i} : src[j] = g.src[j]
      /\ Len(src[i]) = Len(g.src[i]) + 1
      /\ Numbered(g.src[i], n) => Numbered(src[i], n + 1)
  BY <1>1, <1>5, OneMore DEF src
<1>7. asked \subseteq J
  BY <1>5 DEF asked
<1>8. GraphOk(h, J)
  BY <1>3, <1>4, <1>5, <1>6, <1>7, GraphOfRecord
<1>9. InputOk(h, i, n + 1)
  <2> DEFINE a == Len(g.src[i])
             b == Len(g.wait[i])
  <2>1. /\ a \in Nat /\ b = 0 /\ b \in Nat
        /\ g.used[i] + g.lost[i] \in Nat
    <3>1. /\ g.src[i] \in Seq(Nat) /\ g.wait[i] = <<>> /\ g.used[i] \in Nat
          /\ g.lost[i] \in Nat
      BY <1>1, <1>5 DEF Frames, Nothing
    <3> QED BY <3>1
  <2>2. /\ (g.used[i] + g.lost[i]) + (a + b) = n
        /\ Numbered(g.src[i], n)
    BY Zenon DEF InputOk
  <2>3. Numbered(h.wait[i], n + 1)
    <3>1. h.wait[i] = <<>> /\ n + 1 \in Nat
      BY <1>1, <1>4, <1>5 DEF Nothing
    <3> QED BY <3>1, NumberedEmpty
  <2>4. /\ Len(h.src[i]) = a + 1 /\ Len(h.wait[i]) = b
        /\ h.used[i] = g.used[i] /\ h.lost[i] = g.lost[i]
    BY <1>4, <1>6
  <2> HIDE DEF a, b
  <2>5. (h.used[i] + h.lost[i]) + (Len(h.src[i]) + Len(h.wait[i])) = n + 1
    <3>1. (g.used[i] + g.lost[i]) + ((a + 1) + b) = n + 1
      BY <2>1, <2>2, CountedOne
    <3> QED BY <2>4, <3>1
  <2>6. Numbered(h.src[i], n + 1) /\ i \in h.known
    BY <1>4, <1>5, <1>6, <2>2
  <2> QED BY <2>3, <2>5, <2>6, Zenon DEF InputOk
<1>10. ASSUME NEW j \in J \ {i}, NEW m, InputOk(g, j, m)
       PROVE  InputOk(h, j, m)
  <2>1. h.src[j] = g.src[j]
    BY <1>4, <1>6
  <2> QED BY <2>1, <1>4, <1>10, Zenon DEF InputOk
<1> QED BY <1>4, <1>8, <1>9, <1>10 DEF h

\* An input has a format from its first frame on.
LEMMA KnownOk ==
    ASSUME NEW g, NEW J, GraphOk(g, J), NEW i \in J
    PROVE  LET h == [g EXCEPT !.known = @ \cup {i}]
           IN  /\ GraphOk(h, J) /\ h.eof = g.eof /\ h.built = g.built
               /\ h.known = g.known \cup {i} /\ h.inputs = J
               /\ h.wait = g.wait /\ IsRecord(h)
               /\ \A j, m : InputOk(g, j, m) => InputOk(h, j, m)
<1> DEFINE known == g.known \cup {i}
           h == [g EXCEPT !.known = known]
<1>1. GraphOk(g, J) /\ IsRecord(g)
  BY RecordOfGraph
<1> HIDE DEF known
<1>2. IsRecord(h)
  BY <1>1 DEF IsRecord
<1>3. /\ h.inputs = g.inputs /\ h.known = known /\ h.eof = g.eof
      /\ h.src = g.src /\ h.wait = g.wait /\ h.used = g.used
      /\ h.lost = g.lost /\ h.built = g.built /\ h.sink = g.sink
      /\ h.shut = g.shut /\ h.asked = g.asked
  BY <1>1 DEF IsRecord, FieldNames
<1> HIDE DEF h
<1>4. /\ g.inputs = J /\ g.known \subseteq J
      /\ g.eof \subseteq g.known
      /\ g.shut \subseteq J /\ g.asked \subseteq J
      /\ g.wait \in Frames /\ g.src \in Frames
      /\ g.used \in [Streams -> Nat] /\ g.sink \in Nat
      /\ g.built \in BOOLEAN /\ g.lost \in [Streams -> Nat]
      /\ g.built => g.known = J /\ g.wait = Nothing /\ g.shut = g.eof
      /\ ~g.built => g.src = Nothing /\ g.shut = {}
  BY <1>1, GraphFields
<1>5. /\ known \subseteq J /\ g.eof \subseteq known
      /\ g.built => known = J
  BY <1>4 DEF known
<1>6. GraphOk(h, J)
  BY <1>2, <1>3, <1>4, <1>5, GraphOfRecord
<1>7. ASSUME NEW j, NEW m, InputOk(g, j, m)
      PROVE  InputOk(h, j, m)
  <2>1. m > 0 => j \in h.known
    BY <1>3, <1>7 DEF InputOk, known
  <2> QED BY <2>1, <1>3, <1>7, Zenon DEF InputOk
<1>8. /\ GraphOk(h, J) /\ h.eof = g.eof /\ h.built = g.built
      /\ h.known = known /\ h.inputs = J
      /\ h.wait = g.wait /\ IsRecord(h)
      /\ \A j, m : InputOk(g, j, m) => InputOk(h, j, m)
  BY <1>2, <1>3, <1>4, <1>6, <1>7
<1> QED BY <1>8, Zenon DEF h, known

\* The frame is added to those that wait.
Waiting(g, i, n) == [g EXCEPT !.wait[i] = Append(@, n)]

\* A frame waits for a graph that is not built.
LEMMA WaitsOk ==
    ASSUME NEW g, NEW J, J \subseteq Streams, GraphOk(g, J), ~g.built,
           NEW i \in J, NEW n \in Nat, InputOk(g, i, n), i \in g.known
    PROVE  LET h == Waiting(g, i, n + 1)
           IN  /\ GraphOk(h, J) /\ h.eof = g.eof
               /\ InputOk(h, i, n + 1)
               /\ \A j \in J \ {i} : \A m : InputOk(g, j, m) => InputOk(h, j, m)
<1> DEFINE h == Waiting(g, i, n + 1)
           wait == [g.wait EXCEPT ![i] = Append(@, n + 1)]
<1>1. GraphOk(g, J) /\ IsRecord(g) /\ i \in Streams
  BY RecordOfGraph
<1>2. h = [g EXCEPT !.wait = wait]
  BY <1>1 DEF Waiting, IsRecord, FieldNames
<1> HIDE DEF h, wait
<1>3. IsRecord(h)
  BY <1>1, <1>2 DEF IsRecord
<1>4. /\ h.inputs = g.inputs /\ h.known = g.known /\ h.eof = g.eof
      /\ h.src = g.src /\ h.wait = wait /\ h.used = g.used
      /\ h.lost = g.lost /\ h.built = g.built /\ h.sink = g.sink
      /\ h.shut = g.shut /\ h.asked = g.asked
  BY <1>1, <1>2 DEF IsRecord, FieldNames
<1>5. /\ g.inputs = J /\ g.known \subseteq J
      /\ g.eof \subseteq g.known
      /\ g.shut \subseteq J /\ g.asked \subseteq J
      /\ g.wait \in Frames /\ g.src \in Frames
      /\ g.used \in [Streams -> Nat] /\ g.sink \in Nat
      /\ g.built \in BOOLEAN /\ g.lost \in [Streams -> Nat]
      /\ g.src = Nothing /\ g.shut = {}
  BY <1>1, GraphFields
<1>6. /\ wait \in Frames
      /\ \A j \in Streams \ {i} : wait[j] = g.wait[j]
      /\ Len(wait[i]) = Len(g.wait[i]) + 1
      /\ Numbered(g.wait[i], n) => Numbered(wait[i], n + 1)
  BY <1>1, <1>5, OneMore DEF wait
<1>7. GraphOk(h, J)
  BY <1>3, <1>4, <1>5, <1>6, GraphOfRecord
<1>8. InputOk(h, i, n + 1)
  <2> DEFINE a == Len(g.src[i])
             b == Len(g.wait[i])
  <2>1. /\ b \in Nat /\ a = 0 /\ a \in Nat
        /\ g.used[i] + g.lost[i] \in Nat
    <3>1. /\ g.wait[i] \in Seq(Nat) /\ g.src[i] = <<>> /\ g.used[i] \in Nat
          /\ g.lost[i] \in Nat
      BY <1>1, <1>5 DEF Frames, Nothing
    <3> QED BY <3>1
  <2>2. /\ (g.used[i] + g.lost[i]) + (a + b) = n
        /\ Numbered(g.wait[i], n)
    BY Zenon DEF InputOk
  <2>3. Numbered(h.src[i], n + 1)
    <3>1. h.src[i] = <<>> /\ n + 1 \in Nat
      BY <1>1, <1>4, <1>5 DEF Nothing
    <3> QED BY <3>1, NumberedEmpty
  <2>4. /\ Len(h.src[i]) = a /\ Len(h.wait[i]) = b + 1
        /\ h.used[i] = g.used[i] /\ h.lost[i] = g.lost[i]
    BY <1>4, <1>6
  <2> HIDE DEF a, b
  <2>5. (h.used[i] + h.lost[i]) + (Len(h.src[i]) + Len(h.wait[i])) = n + 1
    <3>1. (g.used[i] + g.lost[i]) + (a + (b + 1)) = n + 1
      BY <2>1, <2>2, CountedOne
    <3> QED BY <2>4, <3>1
  <2>6. Numbered(h.wait[i], n + 1) /\ i \in h.known
    BY <1>4, <1>5, <1>6, <2>2
  <2> QED BY <2>3, <2>5, <2>6, Zenon DEF InputOk
<1>9. ASSUME NEW j \in J \ {i}, NEW m, InputOk(g, j, m)
      PROVE  InputOk(h, j, m)
  <2>1. h.wait[j] = g.wait[j]
    BY <1>4, <1>6
  <2> QED BY <2>1, <1>4, <1>9, Zenon DEF InputOk
<1> QED BY <1>4, <1>7, <1>8, <1>9 DEF h

\* The next frame of an input, wherever it goes.
LEMMA SendFrameOk ==
    ASSUME NEW g, NEW J, J \subseteq Streams, GraphOk(g, J),
           NEW i \in J, NEW n \in Nat, InputOk(g, i, n), NEW changed
    PROVE  LET h == SendFrame(g, i, n + 1, changed)
           IN  /\ GraphOk(h, J) /\ h.eof = g.eof
               /\ InputOk(h, i, n + 1)
               /\ \A j \in J \ {i} : \A m \in Nat : InputOk(g, j, m) => InputOk(h, j, m)
<1> DEFINE k == [g EXCEPT !.known = @ \cup {i}]
           h == SendFrame(g, i, n + 1, changed)
<1>1. /\ GraphOk(k, J) /\ k.eof = g.eof /\ k.built = g.built
      /\ k.known = g.known \cup {i} /\ k.inputs = J
      /\ \A j, m : InputOk(g, j, m) => InputOk(k, j, m)
  BY KnownOk
<1>2. h = IF Builds(g, i, changed) THEN Fed(Configured(k), i, n + 1)
          ELSE IF ~g.built THEN Waiting(k, i, n + 1)
          ELSE Fed(k, i, n + 1)
  BY Zenon DEF SendFrame, Waiting
<1> HIDE DEF k, h
<1>3. g.inputs = J
  BY GraphFields
<1>4. CASE Builds(g, i, changed)
  <2>1. k.known = J
    BY <1>1, <1>3, <1>4 DEF Builds
  <2> DEFINE c == Configured(k)
  <2>2. /\ GraphOk(c, J) /\ c.eof = k.eof /\ c.built
        /\ \A j \in J : \A m \in Nat : InputOk(k, j, m) => InputOk(c, j, m)
    BY <1>1, <2>1, ConfiguredOk
  <2> HIDE DEF c
  <2>3. InputOk(c, i, n)
    BY <1>1, <2>2
  <2>4. /\ GraphOk(Fed(c, i, n + 1), J) /\ Fed(c, i, n + 1).eof = c.eof
        /\ InputOk(Fed(c, i, n + 1), i, n + 1)
        /\ \A j \in J \ {i} : \A m :
              InputOk(c, j, m) => InputOk(Fed(c, i, n + 1), j, m)
    BY <2>2, <2>3, FedOk
  <2>5. h = Fed(c, i, n + 1)
    BY <1>2, <1>4 DEF c
  <2> QED BY <1>1, <2>2, <2>4, <2>5 DEF h
<1>5. CASE ~Builds(g, i, changed) /\ ~g.built
  <2> DEFINE w == Waiting(k, i, n + 1)
  <2>1. h = w
    BY <1>2, <1>5
  <2>2. ~k.built /\ i \in k.known /\ InputOk(k, i, n)
    BY <1>1, <1>5
  <2>3. /\ GraphOk(w, J) /\ w.eof = k.eof
        /\ InputOk(w, i, n + 1)
        /\ \A j \in J \ {i} : \A m : InputOk(k, j, m) => InputOk(w, j, m)
    BY <1>1, <2>2, WaitsOk
  <2> HIDE DEF w
  <2> QED BY <1>1, <2>1, <2>3 DEF h
<1>6. CASE ~Builds(g, i, changed) /\ g.built
  <2>1. h = Fed(k, i, n + 1)
    BY <1>2, <1>6
  <2>2. k.built /\ InputOk(k, i, n)
    BY <1>1, <1>6
  <2>3. /\ GraphOk(Fed(k, i, n + 1), J) /\ Fed(k, i, n + 1).eof = k.eof
        /\ InputOk(Fed(k, i, n + 1), i, n + 1)
        /\ \A j \in J \ {i} : \A m :
              InputOk(k, j, m) => InputOk(Fed(k, i, n + 1), j, m)
    BY <1>1, <2>2, FedOk
  <2> QED BY <1>1, <2>1, <2>3 DEF h
<1> QED BY <1>4, <1>5, <1>6

-----------------------------------------------------------------------------
(* Steps that neither read, decode nor end anything                         *)

LEMMA BooleanUpdate ==
    ASSUME NEW S, NEW f \in [S -> BOOLEAN], NEW x, NEW b \in BOOLEAN
    PROVE  [f EXCEPT ![x] = b] \in [S -> BOOLEAN]
  OBVIOUS

\* Output o has not reached its limit, and the limit is a number.
LEMMA LimitsAreNumbers ==
    ASSUME Types
    PROVE  \A o \in Outputs : max_frames[o] \in Nat /\ frame_number[o] \in Nat
<1>1. max_frames \in [Outputs -> Nat]
  BY TranscodeAssumption DEF Types
<1>2. frame_number \in [Outputs -> Nat]
  BY DEF Types
<1> QED BY <1>1, <1>2

\* Reaping leaves copied outputs alone.
LEMMA ReapedNumbers ==
    ASSUME Types, NEW gs, GraphsOk(gs, decoded)
    PROVE  /\ ReapedNumber(gs) \in [Outputs -> Nat]
           /\ \A o \in Copied : ReapedNumber(gs)[o] = frame_number[o]
<1>1. ASSUME NEW o \in Outputs
      PROVE  (IF o \in Encoded /\ ~finished[o] /\ ~AtLimit(o)
              THEN Smaller(frame_number[o] + gs[o].sink, max_frames[o])
              ELSE frame_number[o]) \in Nat
  <2>1. max_frames[o] \in Nat /\ frame_number[o] \in Nat
    BY LimitsAreNumbers
  <2>2. CASE o \in Encoded
    <3>1. gs[o].sink \in Nat
      BY <2>2, GraphFields DEF GraphsOk
    <3>2. frame_number[o] + gs[o].sink \in Nat
      BY <2>1, <3>1
    <3> QED BY <2>1, <3>2 DEF Smaller
  <2>3. CASE o \notin Encoded
    BY <2>1, <2>3
  <2> QED BY <2>2, <2>3
<1>2. ReapedNumber(gs) \in [Outputs -> Nat]
  BY <1>1 DEF ReapedNumber
<1>3. ASSUME NEW o \in Copied
      PROVE  ReapedNumber(gs)[o] = frame_number[o]
  <2>1. o \in Outputs /\ o \notin Encoded
    BY NumbersOfOutputs
  <2> QED BY <2>1 DEF ReapedNumber
<1> QED BY <1>2, <1>3

\* The graphs after reaping.
LEMMA ReapKeeps ==
    ASSUME NEW gs, NEW d, GraphsOk(gs, d)
    PROVE  LET rs == [o \in Encoded |-> Reaped(gs[o])]
           IN  /\ GraphsOk(rs, d)
               /\ \A o \in Encoded : /\ rs[o].eof = gs[o].eof
                                     /\ Emptied(gs[o]) => Emptied(rs[o])
<1> DEFINE rs == [o \in Encoded |-> Reaped(gs[o])]
<1>1. rs = [o \in Encoded |-> rs[o]]
  OBVIOUS
<1>2. ASSUME NEW o \in Encoded
      PROVE  /\ GraphOk(rs[o], Inputs[o])
             /\ \A i \in Inputs[o] : InputOk(rs[o], i, d[i])
             /\ rs[o].eof = gs[o].eof
             /\ Emptied(gs[o]) => Emptied(rs[o])
  <2>1. rs[o] = Reaped(gs[o])
    OBVIOUS
  <2>2. GraphOk(gs[o], Inputs[o]) /\ \A i \in Inputs[o] : InputOk(gs[o], i, d[i])
    BY DEF GraphsOk
  <2> HIDE DEF rs
  <2> QED BY <2>1, <2>2, ReapedOk
<1> HIDE DEF rs
<1>3. GraphsOk(rs, d)
  BY <1>1, <1>2, Zenon DEF GraphsOk
<1> QED BY <1>2, <1>3, Zenon DEF rs

\* The graphs with one of them changed.
LEMMA WithKeeps ==
    ASSUME NEW d, GraphsOk(graph, d), NEW o \in Encoded, NEW g,
           GraphOk(g, Inputs[o]), \A i \in Inputs[o] : InputOk(g, i, d[i])
    PROVE  /\ GraphsOk(With(g, o), d)
           /\ With(g, o)[o] = g
           /\ \A p \in Encoded \ {o} : With(g, o)[p] = graph[p]
<1> DEFINE gs == With(g, o)
<1>1. /\ gs = [p \in Encoded |-> gs[p]]
      /\ gs[o] = g /\ \A p \in Encoded \ {o} : gs[p] = graph[p]
  BY DEF GraphsOk, With
<1> HIDE DEF gs
<1>2. ASSUME NEW p \in Encoded
      PROVE  GraphOk(gs[p], Inputs[p]) /\ \A i \in Inputs[p] : InputOk(gs[p], i, d[i])
  <2>1. CASE p = o
    BY <1>1, <2>1
  <2>2. CASE p # o
    BY <1>1, <2>2 DEF GraphsOk
  <2> QED BY <2>1, <2>2
<1>3. GraphsOk(gs, d)
  BY <1>1, <1>2, Zenon DEF GraphsOk
<1> QED BY <1>1, <1>3, Zenon DEF gs

\* What such a step has to keep.
Calm ==
    /\ pc # "done"
    /\ UNCHANGED <<max_frames, packets, held, decoded, over, eof_reached, ist, first>>
    /\ GraphsOk(graph', decoded)
    /\ \A o \in Encoded :
          /\ graph'[o].eof = graph[o].eof
          /\ Emptied(graph[o]) => Emptied(graph'[o])
          /\ finished'[o] => finished[o] \/ Emptied(graph'[o])
    /\ \A o \in Copied : /\ finished'[o] = finished[o]
                         /\ initialized'[o]
                         /\ frame_number'[o] = frame_number[o]
    /\ \/ pc' = pc /\ file' = file
       \/ pc \in {"loop", "input", "reap"} /\ pc' = "loop"
       \/ pc = "loop" /\ pc' = "input" /\ ~eof_reached[file']

LEMMA CalmKeeps ==
    ASSUME IInv, Calm, Types'
    PROVE  IInv'
<1>1. /\ Types /\ GraphsOk(graph, decoded) /\ Counts /\ Control
      /\ GraphEnds /\ Copies /\ EncodedEnds /\ Delivered
  BY Zenon DEF IInv
<1>2. /\ pc # "done" /\ pc' # "done"
      /\ max_frames' = max_frames /\ packets' = packets /\ held' = held
      /\ decoded' = decoded /\ over' = over /\ eof_reached' = eof_reached
      /\ ist' = ist
      /\ pc' = "decode" <=> pc = "decode"
      /\ pc' = "ended" <=> pc = "ended"
      /\ pc' \in {"decode", "ended"} => file' = file
  BY DEF Calm
<1>3. GraphsOk(graph, decoded)'
  BY <1>2 DEF Calm, GraphsOk
<1>4. Counts'
  BY <1>1, <1>2 DEF Counts, Decoding
<1>5. Control'
  BY <1>1, <1>2 DEF Calm, Control
<1>6. \A f : Ended(f)' <=> Ended(f)
  BY <1>2 DEF Ended
<1>7. GraphEnds'
  <2>1. ASSUME NEW o \in Encoded, NEW i \in Inputs[o]
        PROVE  /\ Ended(FileOf[i])' => i \in graph'[o].eof
               /\ i \in graph'[o].eof => over'[FileOf[i]] /\ held'[i] = 0
    <3>1. graph'[o].eof = graph[o].eof
      BY DEF Calm
    <3> QED BY <1>1, <1>2, <1>6, <3>1 DEF GraphEnds
  <2> QED BY <2>1, Zenon DEF GraphEnds
<1>8. Copies'
  <2>1. ASSUME NEW o \in Copied
        PROVE  /\ initialized'[o]
               /\ Ended(FileOf[Source[o]])' => finished'[o]
               /\ finished'[o] /\ pc' # "done" => over'[FileOf[Source[o]]]
               /\ AtLimit(o)' \/ Handed(o)'
    <3>1. /\ finished'[o] = finished[o] /\ initialized'[o]
          /\ frame_number'[o] = frame_number[o]
      BY DEF Calm
    <3>2. AtLimit(o)' <=> AtLimit(o)
      BY <1>2, <3>1 DEF AtLimit
    <3>3. Uncopied(Source[o])' = Uncopied(Source[o])
      BY <1>2 DEF Uncopied
    <3>4. first' = first
      BY DEF Calm
    <3>5. Handed(o) => Handed(o)'
      BY <1>2, <3>1, <3>3, <3>4 DEF Handed
    <3> QED BY <1>1, <1>2, <1>6, <3>1, <3>2, <3>5 DEF Copies
  <2> QED BY <2>1, Zenon DEF Copies
<1>9. EncodedEnds'
  BY <1>1, <1>2 DEF Calm, EncodedEnds
<1>10. Delivered'
  BY <1>2 DEF Delivered
<1> QED BY <1>3, <1>4, <1>5, <1>7, <1>8, <1>9, <1>10, Zenon DEF IInv

-----------------------------------------------------------------------------
(* Steps of the main loop                                                   *)

LEMMA InvParts ==
    ASSUME IInv
    PROVE  /\ Types /\ GraphsOk(graph, decoded) /\ Counts /\ Control
           /\ GraphEnds /\ Copies /\ EncodedEnds /\ Delivered
  BY Zenon DEF IInv

LEMMA DtsAreNumbers ==
    ASSUME Types
    PROVE  \A o \in Outputs : cur_dts(o) \in Int /\ cur_dts(o) >= -1
<1>1. ASSUME NEW n \in Nat, NEW m \in Nat
      PROVE  n * m \in Int /\ n * m >= -1
  <2>1. n * m \in Nat
    OBVIOUS
  <2> QED BY <2>1
<1>2. ASSUME NEW o \in Outputs
      PROVE  cur_dts(o) \in Int /\ cur_dts(o) >= -1
  <2>1. frame_number[o] \in Nat /\ Step[o] \in Nat
    BY LimitsAreNumbers, TranscodeAssumption
  <2> DEFINE t == frame_number[o] * Step[o]
  <2>2. t \in Int /\ t >= -1
    BY <1>1, <2>1
  <2>3. cur_dts(o) = t \/ cur_dts(o) = -1
    BY Zenon DEF cur_dts, t
  <2> HIDE DEF t
  <2> QED BY <2>2, <2>3
<1> QED BY <1>2

\* The output chosen is one, and a copied one still runs.
LEMMA Chosen ==
    ASSUME IInv, need_output, choose_output # 0
    PROVE  /\ choose_output \in Outputs
           /\ choose_output \in Copied => ~finished[choose_output]
<1>1. Types /\ Copies
  BY InvParts
<1>2. CASE Uninitialized # {}
  <2>1. Uninitialized \subseteq Nat
    BY NumbersOfOutputs DEF Uninitialized
  <2>2. First(Uninitialized) \in Uninitialized
    BY <1>2, <2>1, FirstIsLeast
  <2>3. choose_output = First(Uninitialized)
    BY <1>2 DEF choose_output
  <2> QED BY <1>1, <2>2, <2>3 DEF Uninitialized, Copies
<1>3. CASE Uninitialized = {}
  <2>1. Least \in Unfinished
    BY <1>1, DtsAreNumbers, LeastRuns DEF need_output
  <2>2. choose_output = Least
    BY <1>3 DEF choose_output
  <2> QED BY <2>1, <2>2 DEF Unfinished
<1> QED BY <1>2, <1>3

\* Nothing changes in the graphs.
LEMMA SameGraphs ==
    ASSUME IInv, UNCHANGED <<graph, finished, frame_number, initialized>>
    PROVE  /\ GraphsOk(graph', decoded)
           /\ \A o \in Encoded :
                 /\ graph'[o].eof = graph[o].eof
                 /\ Emptied(graph[o]) => Emptied(graph'[o])
                 /\ finished'[o] => finished[o] \/ Emptied(graph'[o])
           /\ \A o \in Copied : /\ finished'[o] = finished[o]
                                /\ initialized'[o]
                                /\ frame_number'[o] = frame_number[o]
  BY InvParts, Zenon DEF Copies

LEMMA WaitStep ==
    ASSUME IInv, wait_for_input
    PROVE  IInv'
<1>1. Types'
  <2>1. /\ [f \in Files |-> FALSE] \in [Files -> BOOLEAN]
        /\ [o \in Outputs |-> FALSE] \in [Outputs -> BOOLEAN]
    OBVIOUS
  <2> QED BY <2>1, InvParts DEF Types, wait_for_input, where, streams, ends
<1>2. Calm
  BY SameGraphs DEF wait_for_input, where, streams, ends, Calm
<1> QED BY <1>1, <1>2, CalmKeeps

LEMMA CopyStep ==
    ASSUME IInv, pc = "loop", NEW o \in Outputs, ~finished[o], copy_step(o)
    PROVE  IInv'
<1>1. o \in Copied /\ FileOf[Source[o]] \in Files
  BY NumbersOfOutputs DEF copy_step
<1>2. Types'
  BY <1>1, InvParts DEF Types, copy_step, Read, where, streams, files, ends
<1>3. ~eof_reached[file']
  BY <1>1, InvParts DEF Copies, Ended, copy_step, Read
<1>4. Calm
  BY <1>3, SameGraphs DEF copy_step, Read, streams, files, ends, Calm
<1> QED BY <1>2, <1>4, CalmKeeps

\* Some input can still be read for a format.
LEMMA SomeUnfed ==
    ASSUME IInv, NEW o \in Encoded, ~HasAllFormats(graph[o])
    PROVE  Unfed(o) # {}
<1>1. /\ GraphsOk(graph, decoded) /\ GraphEnds /\ Types
  BY InvParts
<1>2. /\ graph[o].inputs = Inputs[o] /\ graph[o].known \subseteq Inputs[o]
      /\ graph[o].eof \subseteq graph[o].known
  BY <1>1, GraphFields DEF GraphsOk
<1>3. PICK i \in Inputs[o] : i \notin graph[o].known
  BY <1>2 DEF HasAllFormats
<1>4. InputOk(graph[o], i, decoded[i]) /\ decoded[i] \in Nat
  BY <1>1, NumbersOfOutputs DEF GraphsOk, Types
<1>5. decoded[i] = 0
  <2>1. ~(decoded[i] > 0)
    BY <1>3, <1>4, Zenon DEF InputOk
  <2> QED BY <1>4, <2>1
<1>6. ~eof_reached[FileOf[i]]
  BY <1>1, <1>2, <1>3 DEF GraphEnds, Ended
<1> QED BY <1>5, <1>6 DEF Unfed

LEMMA FormatStep ==
    ASSUME IInv, pc = "loop", NEW o \in Outputs, format_step(o)
    PROVE  IInv'
<1>1. o \in Encoded /\ ~HasAllFormats(graph[o])
  BY DEF format_step
<1>2. Unfed(o) # {}
  BY <1>1, SomeUnfed
<1>3. First(Unfed(o)) \in Unfed(o)
  <2>1. Unfed(o) \subseteq Nat
    BY <1>1, NumbersOfOutputs DEF Unfed
  <2> QED BY <1>2, <2>1, FirstIsLeast
<1>4. /\ FileOf[First(Unfed(o))] \in Files
      /\ ~eof_reached[FileOf[First(Unfed(o))]]
  BY <1>1, <1>3, NumbersOfOutputs DEF Unfed
<1>5. Read(o, FileOf[First(Unfed(o))])
  BY <1>2 DEF format_step
<1>6. inputs_done' = [p \in Outputs |-> FALSE]
  <2>1. (Unfed(o) = {}) = FALSE
    BY <1>2
  <2>2. inputs_done' = [inputs_done EXCEPT ![o] = FALSE]
    BY <2>1, Zenon DEF format_step
  <2>3. inputs_done = [p \in Outputs |-> FALSE]
    BY InvParts DEF Types
  <2> QED BY <2>2, <2>3
<1>7. Types'
  BY <1>4, <1>5, <1>6, InvParts DEF Types, format_step, Read, streams, files
<1>8. Calm
  BY <1>4, <1>5, SameGraphs DEF format_step, Read, streams, files, Calm
<1> QED BY <1>7, <1>8, CalmKeeps

\* The graph a step works with, built if it has to be.
LEMMA BuiltOk ==
    ASSUME IInv, NEW o, HasGraph(o)
    PROVE  /\ o \in Encoded /\ o \in Outputs
           /\ GraphOk(Built(o), Inputs[o]) /\ Built(o).built
           /\ \A i \in Inputs[o] : InputOk(Built(o), i, decoded[i])
           /\ Built(o).eof = graph[o].eof
           /\ Emptied(graph[o]) => Emptied(Built(o))
<1>1. o \in Encoded /\ o \in Outputs /\ Inputs[o] \subseteq Streams
  BY NumbersOfOutputs DEF HasGraph
<1>2. /\ GraphOk(graph[o], Inputs[o])
      /\ \A i \in Inputs[o] : InputOk(graph[o], i, decoded[i])
      /\ \A i \in Inputs[o] : decoded[i] \in Nat
  BY <1>1, InvParts DEF GraphsOk, Types
<1>3. CASE graph[o].built
  <2>1. Built(o) = graph[o]
    BY <1>3 DEF Built
  <2> QED BY <1>1, <1>2, <1>3, <2>1
<1>4. CASE ~graph[o].built
  <2>1. Built(o) = Configured(graph[o])
    BY <1>4 DEF Built
  <2>2. graph[o].known = Inputs[o]
    BY <1>2, <1>4, GraphFields DEF HasGraph, HasAllFormats
  <2>3. /\ GraphOk(Configured(graph[o]), Inputs[o])
        /\ Configured(graph[o]).built
        /\ Configured(graph[o]).eof = graph[o].eof
        /\ \A i \in Inputs[o] : \A n \in Nat :
              InputOk(graph[o], i, n) => InputOk(Configured(graph[o]), i, n)
    BY <1>1, <1>2, <2>2, ConfiguredOk
  <2>4. ~Emptied(graph[o])
    BY <1>4 DEF Emptied
  <2> QED BY <1>1, <1>2, <2>1, <2>3, <2>4
<1> QED BY <1>3, <1>4

\* All sinks are reaped, after one graph or none changed.
LEMMA ReapStep ==
    ASSUME IInv, NEW gs, GraphsOk(gs, decoded), Reap(gs)
    PROVE  /\ GraphsOk(graph', decoded)
           /\ \A o \in Encoded : /\ graph'[o].eof = gs[o].eof
                                 /\ Emptied(gs[o]) => Emptied(graph'[o])
                                 /\ graph'[o] = Reaped(gs[o])
           /\ frame_number' \in [Outputs -> Nat]
           /\ initialized' \in [Outputs -> BOOLEAN]
           /\ \A o \in Copied : /\ initialized'[o]
                                /\ frame_number'[o] = frame_number[o]
<1>1. Types /\ Copies
  BY InvParts
<1>2. graph' = [o \in Encoded |-> Reaped(gs[o])] /\ frame_number' = ReapedNumber(gs)
  BY Zenon DEF Reap
<1>3. /\ GraphsOk(graph', decoded)
      /\ \A o \in Encoded : /\ graph'[o].eof = gs[o].eof
                            /\ Emptied(gs[o]) => Emptied(graph'[o])
  <2> DEFINE rs == [o \in Encoded |-> Reaped(gs[o])]
  <2>1. /\ GraphsOk(rs, decoded)
        /\ \A o \in Encoded : /\ rs[o].eof = gs[o].eof
                              /\ Emptied(gs[o]) => Emptied(rs[o])
    BY ReapKeeps, Zenon
  <2> HIDE DEF rs
  <2>2. graph' = rs
    BY <1>2 DEF rs
  <2> QED BY <2>1, <2>2
<1>4. /\ frame_number' \in [Outputs -> Nat]
      /\ \A o \in Copied : frame_number'[o] = frame_number[o]
  BY <1>1, <1>2, ReapedNumbers
<1>5. /\ initialized' \in [Outputs -> BOOLEAN]
      /\ \A o \in Copied : initialized'[o]
  <2> DEFINE b(o) == initialized[o] \/ (o \in Encoded /\ gs[o].built)
  <2>1. \A o \in Outputs : b(o) \in BOOLEAN
    OBVIOUS
  <2>2. \A o \in Copied : b(o) /\ o \in Outputs
    BY <1>1, NumbersOfOutputs DEF Copies
  <2>3. initialized' = [o \in Outputs |-> b(o)]
    BY Zenon DEF Reap
  <2> HIDE DEF b
  <2> QED BY <2>1, <2>2, <2>3
<1> QED BY <1>2, <1>3, <1>4, <1>5

\* One graph becomes g and the sinks are reaped.
LEMMA ReapWith ==
    ASSUME IInv, NEW o \in Encoded, NEW g, Reap(With(g, o)),
           GraphOk(g, Inputs[o]), \A i \in Inputs[o] : InputOk(g, i, decoded[i]),
           g.eof = graph[o].eof, Emptied(graph[o]) => Emptied(g)
    PROVE  /\ GraphsOk(graph', decoded)
           /\ \A p \in Encoded : /\ graph'[p].eof = graph[p].eof
                                 /\ Emptied(graph[p]) => Emptied(graph'[p])
           /\ graph'[o] = Reaped(g)
           /\ frame_number' \in [Outputs -> Nat]
           /\ initialized' \in [Outputs -> BOOLEAN]
           /\ \A p \in Copied : /\ initialized'[p]
                                /\ frame_number'[p] = frame_number[p]
<1>1. GraphsOk(graph, decoded)
  BY InvParts
<1>2. /\ GraphsOk(With(g, o), decoded)
      /\ With(g, o)[o] = g
      /\ \A p \in Encoded \ {o} : With(g, o)[p] = graph[p]
  BY <1>1, WithKeeps
<1>3. \A p \in Encoded : /\ With(g, o)[p].eof = graph[p].eof
                         /\ Emptied(graph[p]) => Emptied(With(g, o)[p])
  BY <1>2
<1>4. /\ GraphsOk(graph', decoded)
      /\ \A p \in Encoded : /\ graph'[p].eof = With(g, o)[p].eof
                            /\ Emptied(With(g, o)[p]) => Emptied(graph'[p])
                            /\ graph'[p] = Reaped(With(g, o)[p])
      /\ frame_number' \in [Outputs -> Nat]
      /\ initialized' \in [Outputs -> BOOLEAN]
      /\ \A p \in Copied : /\ initialized'[p]
                           /\ frame_number'[p] = frame_number[p]
  BY <1>2, ReapStep
<1> QED BY <1>2, <1>3, <1>4

LEMMA FrameStep ==
    ASSUME IInv, pc = "loop", NEW o, filter_frame(o)
    PROVE  IInv'
<1> DEFINE g == IF Built(o).sink > 0 THEN Built(o) ELSE Filtered(Built(o))
<1>1. HasGraph(o) /\ (Built(o).sink > 0 \/ Ready(Built(o))) /\ Reap(With(g, o))
  BY Zenon DEF filter_frame
<1>2. /\ o \in Encoded /\ o \in Outputs
      /\ GraphOk(Built(o), Inputs[o]) /\ Built(o).built
      /\ \A i \in Inputs[o] : InputOk(Built(o), i, decoded[i])
      /\ Built(o).eof = graph[o].eof
      /\ Emptied(graph[o]) => Emptied(Built(o))
  BY <1>1, BuiltOk
<1>3. /\ GraphOk(g, Inputs[o])
      /\ \A i \in Inputs[o] : InputOk(g, i, decoded[i])
      /\ g.eof = graph[o].eof
      /\ Emptied(graph[o]) => Emptied(g)
  <2>1. CASE Built(o).sink > 0
    BY <1>2, <2>1
  <2>2. CASE ~(Built(o).sink > 0)
    <3>1. Inputs[o] \subseteq Streams /\ \A i \in Inputs[o] : decoded[i] \in Nat
      BY <1>2, NumbersOfOutputs, InvParts DEF Types
    <3> DEFINE h == Filtered(Built(o))
    <3>2. /\ GraphOk(h, Inputs[o]) /\ h.eof = Built(o).eof
          /\ \A i \in Inputs[o] : \A n \in Nat :
                InputOk(Built(o), i, n) => InputOk(h, i, n)
          /\ ~Emptied(Built(o))
      BY <1>1, <1>2, <2>2, <3>1, FilteredOk
    <3>3. g = h
      BY <2>2
    <3> HIDE DEF g, h
    <3> QED BY <1>2, <3>1, <3>2, <3>3
  <2> QED BY <2>1, <2>2
<1> HIDE DEF g
<1>4. /\ GraphsOk(graph', decoded)
      /\ \A p \in Encoded : /\ graph'[p].eof = graph[p].eof
                            /\ Emptied(graph[p]) => Emptied(graph'[p])
      /\ frame_number' \in [Outputs -> Nat]
      /\ initialized' \in [Outputs -> BOOLEAN]
      /\ \A p \in Copied : /\ initialized'[p]
                           /\ frame_number'[p] = frame_number[p]
  BY <1>1, <1>2, <1>3, ReapWith
<1>5. UNCHANGED <<pc, file, out, ist, max_frames, packets, held, decoded, over,
                  eagain, eof_reached, unavailable, inputs_done, finished,
                  first, changes, received_sigterm>>
  BY Zenon DEF filter_frame, where, streams, files, ends
<1>6. Types'
  BY <1>4, <1>5, InvParts DEF Types
<1>7. Calm
  BY <1>4, <1>5 DEF Calm
<1> QED BY <1>6, <1>7, CalmKeeps

LEMMA FilterEofStep ==
    ASSUME IInv, pc = "loop", NEW o, filter_eof(o)
    PROVE  IInv'
<1> DEFINE g == Built(o)
<1>1. HasGraph(o) /\ g.sink = 0 /\ Drained(g) /\ Reap(With(g, o))
  BY Zenon DEF filter_eof
<1>2. /\ o \in Encoded /\ o \in Outputs
      /\ GraphOk(g, Inputs[o]) /\ g.built
      /\ \A i \in Inputs[o] : InputOk(g, i, decoded[i])
      /\ g.eof = graph[o].eof
      /\ Emptied(graph[o]) => Emptied(g)
  BY <1>1, BuiltOk
<1>3. Emptied(g)
  BY <1>1, <1>2, GraphFields DEF Emptied, Drained
<1> HIDE DEF g
<1>4. /\ GraphsOk(graph', decoded)
      /\ \A p \in Encoded : /\ graph'[p].eof = graph[p].eof
                            /\ Emptied(graph[p]) => Emptied(graph'[p])
      /\ graph'[o] = Reaped(g)
      /\ frame_number' \in [Outputs -> Nat]
      /\ initialized' \in [Outputs -> BOOLEAN]
      /\ \A p \in Copied : /\ initialized'[p]
                           /\ frame_number'[p] = frame_number[p]
  BY <1>1, <1>2, ReapWith
<1>5. Emptied(graph'[o])
  BY <1>2, <1>3, <1>4, ReapedOk
<1>6. /\ UNCHANGED <<pc, file, out, ist, max_frames, packets, held, decoded, over,
                     eagain, eof_reached, unavailable, inputs_done,
                     first, changes, received_sigterm>>
      /\ finished' = [finished EXCEPT ![o] = TRUE]
  BY Zenon DEF filter_eof, where, streams, files
<1>7. /\ finished' \in [Outputs -> BOOLEAN]
      /\ \A p \in Outputs \ {o} : finished'[p] = finished[p]
  <2>1. finished \in [Outputs -> BOOLEAN]
    BY InvParts DEF Types
  <2> QED BY <1>6, <2>1
<1>8. Types'
  BY <1>4, <1>6, <1>7, InvParts DEF Types
<1>9. /\ \A p \in Encoded : finished'[p] => finished[p] \/ Emptied(graph'[p])
      /\ \A p \in Copied : finished'[p] = finished[p]
  BY <1>2, <1>5, <1>7, NumbersOfOutputs
<1>10. Calm
  BY <1>4, <1>6, <1>9 DEF Calm
<1> QED BY <1>8, <1>10, CalmKeeps

LEMMA AsksStep ==
    ASSUME IInv, pc = "loop", NEW o, filter_asks(o)
    PROVE  IInv'
<1>1. HasGraph(o)
  BY DEF filter_asks
<1>2. /\ o \in Encoded /\ o \in Outputs
      /\ GraphOk(Built(o), Inputs[o]) /\ Built(o).built
      /\ \A i \in Inputs[o] : InputOk(Built(o), i, decoded[i])
      /\ Built(o).eof = graph[o].eof
      /\ Emptied(graph[o]) => Emptied(Built(o))
  BY <1>1, BuiltOk
<1>3. PICK r \in (SUBSET Hungry(Built(o))) \ {{}} :
          LET g == Asked(Built(o), r)
              best == {i \in g.asked : MayRead(i)}
          IN  /\ graph' = With(g, o)
              /\ \/ \E i \in best : Read(o, FileOf[i]) /\ UNCHANGED unavailable
                 \/ /\ best = {}
                    /\ unavailable' = [unavailable EXCEPT ![o] = TRUE]
                    /\ UNCHANGED <<pc, where>>
  BY Zenon DEF filter_asks
<1> DEFINE g == Asked(Built(o), r)
<1>4. r \subseteq Inputs[o]
  BY <1>2, GraphFields DEF Hungry
<1>5. /\ GraphOk(g, Inputs[o]) /\ g.eof = Built(o).eof
      /\ \A i, n : InputOk(Built(o), i, n) => InputOk(g, i, n)
      /\ Emptied(Built(o)) => Emptied(g)
      /\ g.asked \subseteq Inputs[o]
  BY <1>2, <1>4, AskedOk
<1>6. /\ graph' = With(g, o)
      /\ \/ \E i \in g.asked : /\ MayRead(i)
                               /\ Read(o, FileOf[i]) /\ UNCHANGED unavailable
         \/ /\ unavailable' = [unavailable EXCEPT ![o] = TRUE]
            /\ UNCHANGED <<pc, where>>
  BY <1>3
<1> HIDE DEF g
<1>7. GraphsOk(graph, decoded) /\ Types /\ Copies
  BY InvParts
<1>8. /\ GraphsOk(graph', decoded)
      /\ \A p \in Encoded : /\ graph'[p].eof = graph[p].eof
                            /\ Emptied(graph[p]) => Emptied(graph'[p])
  <2>1. /\ GraphsOk(With(g, o), decoded)
        /\ With(g, o)[o] = g
        /\ \A p \in Encoded \ {o} : With(g, o)[p] = graph[p]
    BY <1>2, <1>5, <1>7, WithKeeps
  <2> QED BY <1>2, <1>5, <1>6, <2>1
<1>9. /\ UNCHANGED <<max_frames, packets, held, decoded, over, eagain,
                     eof_reached, inputs_done, finished, frame_number, first,
                     changes, received_sigterm>>
      /\ initialized' = [initialized EXCEPT ![o] = TRUE]
  BY Zenon DEF filter_asks, streams, files, ends
<1>10. initialized' \in [Outputs -> BOOLEAN] /\ \A p \in Copied : initialized'[p]
  <2>1. initialized \in [Outputs -> BOOLEAN] /\ \A p \in Copied : initialized[p]
    BY <1>7 DEF Types, Copies
  <2> QED BY <1>9, <2>1, NumbersOfOutputs
<1>11. /\ ist' = ist /\ unavailable' \in [Outputs -> BOOLEAN]
       /\ \/ pc' = pc /\ file' = file /\ out' = out
          \/ /\ pc' = "input" /\ ~eof_reached[file'] /\ file' \in Files
             /\ out' = o
  <2>0. unavailable \in [Outputs -> BOOLEAN]
    BY <1>7 DEF Types
  <2>1. CASE \E i \in g.asked : /\ MayRead(i)
                                /\ Read(o, FileOf[i]) /\ UNCHANGED unavailable
    <3>1. PICK i \in g.asked : /\ MayRead(i)
                               /\ Read(o, FileOf[i]) /\ UNCHANGED unavailable
      BY <2>1
    <3>2. FileOf[i] \in Files /\ ~eof_reached[FileOf[i]]
      BY <1>2, <1>5, <3>1, NumbersOfOutputs DEF MayRead
    <3> QED BY <2>0, <3>1, <3>2 DEF Read
  <2>2. CASE /\ unavailable' = [unavailable EXCEPT ![o] = TRUE]
             /\ UNCHANGED <<pc, where>>
    <3>1. unavailable' \in [Outputs -> BOOLEAN]
      BY <2>0, <2>2
    <3> QED BY <2>2, <3>1 DEF where
  <2> QED BY <1>6, <2>1, <2>2
<1>12. Types'
  BY <1>2, <1>7, <1>9, <1>10, <1>11 DEF Types
<1>13. Calm
  BY <1>8, <1>9, <1>10, <1>11 DEF Calm
<1> QED BY <1>12, <1>13, CalmKeeps

LEMMA TranscodeStep ==
    ASSUME IInv, transcode_step
    PROVE  IInv'
<1> DEFINE o == choose_output
<1>1. /\ pc = "loop" /\ need_output /\ o # 0
      /\ copy_step(o) \/ format_step(o) \/ filter_frame(o) \/ filter_eof(o)
         \/ filter_asks(o)
  BY Zenon DEF transcode_step
<1>2. o \in Outputs /\ (o \in Copied => ~finished[o])
  BY <1>1, Chosen
<1> HIDE DEF o
<1>3. CASE copy_step(o)
  BY <1>1, <1>2, <1>3, CopyStep DEF copy_step
<1>4. CASE format_step(o)
  BY <1>1, <1>2, <1>4, FormatStep
<1>5. CASE filter_frame(o)
  BY <1>1, <1>5, FrameStep
<1>6. CASE filter_eof(o)
  BY <1>1, <1>6, FilterEofStep
<1>7. CASE filter_asks(o)
  BY <1>1, <1>7, AsksStep
<1> QED BY <1>1, <1>3, <1>4, <1>5, <1>6, <1>7

LEMMA EagainStep ==
    ASSUME IInv, input_eagain
    PROVE  IInv'
<1>1. Types'
  <2>1. /\ eagain \in [Files -> BOOLEAN] /\ unavailable \in [Outputs -> BOOLEAN]
    BY InvParts DEF Types
  <2>2. /\ eagain' \in [Files -> BOOLEAN] /\ unavailable' \in [Outputs -> BOOLEAN]
    BY <2>1, BooleanUpdate DEF input_eagain
  <2> QED BY <2>2, InvParts DEF Types, input_eagain, where, streams, ends
<1>2. Calm
  BY SameGraphs DEF input_eagain, where, streams, ends, Calm
<1> QED BY <1>1, <1>2, CalmKeeps

LEMMA PushStep ==
    ASSUME IInv, push_frame
    PROVE  IInv'
<1>1. PICK o \in Encoded : Ready(graph[o]) /\ graph' = With(Filtered(graph[o]), o)
  BY Zenon DEF push_frame
<1> DEFINE g == Filtered(graph[o])
<1>2. GraphsOk(graph, decoded) /\ Types /\ Copies
  BY InvParts
<1>3. /\ GraphOk(g, Inputs[o]) /\ g.eof = graph[o].eof
      /\ \A i \in Inputs[o] : InputOk(g, i, decoded[i])
      /\ ~Emptied(graph[o])
  <2>1. /\ GraphOk(graph[o], Inputs[o]) /\ Inputs[o] \subseteq Streams
        /\ \A i \in Inputs[o] : InputOk(graph[o], i, decoded[i]) /\ decoded[i] \in Nat
    BY <1>2, NumbersOfOutputs DEF GraphsOk, Types
  <2> QED BY <1>1, <2>1, FilteredOk
<1> HIDE DEF g
<1>4. /\ GraphsOk(graph', decoded)
      /\ \A p \in Encoded : /\ graph'[p].eof = graph[p].eof
                            /\ Emptied(graph[p]) => Emptied(graph'[p])
  <2>1. /\ GraphsOk(With(g, o), decoded)
        /\ With(g, o)[o] = g
        /\ \A p \in Encoded \ {o} : With(g, o)[p] = graph[p]
    BY <1>2, <1>3, WithKeeps
  <2>2. graph' = With(g, o)
    BY <1>1 DEF g
  <2> QED BY <1>3, <2>1, <2>2
<1>5. /\ pc \in {"decode", "reap", "ended"}
      /\ UNCHANGED <<pc, file, out, ist, max_frames, packets, held, decoded,
                     over, eagain, eof_reached, initialized, unavailable,
                     inputs_done, finished, frame_number, first, changes,
                     received_sigterm>>
  BY Zenon DEF push_frame, where, streams, files, ends
<1>6. Types'
  BY <1>2, <1>5 DEF Types
<1>7. Calm
  BY <1>2, <1>4, <1>5 DEF Calm, Copies
<1> QED BY <1>6, <1>7, CalmKeeps

LEMMA ReapFiltersStep ==
    ASSUME IInv, reap_filters
    PROVE  IInv'
<1>1. GraphsOk(graph, decoded) /\ Types
  BY InvParts
<1>2. /\ GraphsOk(graph', decoded)
      /\ \A o \in Encoded : /\ graph'[o].eof = graph[o].eof
                            /\ Emptied(graph[o]) => Emptied(graph'[o])
      /\ frame_number' \in [Outputs -> Nat]
      /\ initialized' \in [Outputs -> BOOLEAN]
      /\ \A o \in Copied : /\ initialized'[o]
                           /\ frame_number'[o] = frame_number[o]
  BY <1>1, ReapStep DEF reap_filters
<1>3. /\ pc = "reap" /\ pc' = "loop"
      /\ UNCHANGED <<file, out, ist, max_frames, packets, held, decoded, over,
                     eagain, eof_reached, unavailable, inputs_done, finished,
                     first, changes, received_sigterm>>
  BY Zenon DEF reap_filters, where, streams, files, ends
<1>4. Types'
  BY <1>1, <1>2, <1>3 DEF Types
<1>5. Calm
  BY <1>2, <1>3 DEF Calm
<1> QED BY <1>4, <1>5, CalmKeeps

-----------------------------------------------------------------------------
(* The end of the loop                                                      *)

LEMMA SigtermStep ==
    ASSUME IInv, sigterm
    PROVE  IInv'
<1>1. /\ Types /\ GraphsOk(graph, decoded) /\ Counts /\ Control
      /\ GraphEnds /\ Copies
  BY InvParts
<1>2. /\ pc = "loop" /\ pc' = "done" /\ received_sigterm' = TRUE
      /\ UNCHANGED <<file, out, ist, max_frames, packets, held, decoded, over,
                     eagain, eof_reached, graph, initialized, unavailable,
                     inputs_done, finished, frame_number, first, changes>>
  BY Zenon DEF sigterm, where, streams, files, ends
<1>3. Types'
  BY <1>1, <1>2 DEF Types
<1>4. GraphsOk(graph, decoded)' /\ Counts' /\ Control' /\ GraphEnds'
  BY <1>1, <1>2 DEF GraphsOk, Counts, Control, GraphEnds, Decoding, Ended
<1>5. Copies'
  BY <1>1, <1>2 DEF Copies, Handed, Ended, AtLimit, Uncopied
<1>6. EncodedEnds' /\ Delivered'
  BY <1>2 DEF EncodedEnds, Delivered
<1> QED BY <1>3, <1>4, <1>5, <1>6, Zenon DEF IInv

\* All outputs ended below their limits: all has been delivered.
LEMMA EndedAll ==
    ASSUME IInv, pc = "loop", \A o \in Outputs : finished[o] /\ ~AtLimit(o)
    PROVE  /\ \A o \in Copied : frame_number[o] > 0 =>
                 first[o] + frame_number[o] = packets[Source[o]] + 1
           /\ \A o \in Encoded : \A i \in Inputs[o] :
                 graph[o].used[i] + graph[o].lost[i] = packets[i] /\ graph[o].sink = 0
<1>1. /\ Types /\ GraphsOk(graph, decoded) /\ Counts
      /\ GraphEnds /\ Copies /\ EncodedEnds
  BY InvParts
<1>2. ASSUME NEW o \in Copied, frame_number[o] > 0
      PROVE  first[o] + frame_number[o] = packets[Source[o]] + 1
  <2>1. ~AtLimit(o) /\ frame_number[o] \in Nat
    BY <1>1, NumbersOfOutputs, LimitsAreNumbers
  <2>2. first[o] + (frame_number[o] + 0) = packets[Source[o]] + 1
    BY <1>1, <1>2, <2>1 DEF Copies, Handed, Uncopied
  <2> QED BY <2>1, <2>2
<1>3. ASSUME NEW o \in Encoded, NEW i \in Inputs[o]
      PROVE  graph[o].used[i] + graph[o].lost[i] = packets[i] /\ graph[o].sink = 0
  <2>1. Emptied(graph[o]) /\ i \in Streams
    BY <1>1, NumbersOfOutputs DEF EncodedEnds
  <2>2. /\ graph[o].inputs = Inputs[o]
        /\ graph[o].built => graph[o].wait = Nothing
        /\ graph[o].used \in [Streams -> Nat] /\ graph[o].lost \in [Streams -> Nat]
    BY <1>1, GraphFields DEF GraphsOk
  <2>3. /\ graph[o].src[i] = <<>> /\ graph[o].sink = 0 /\ i \in graph[o].eof
        /\ graph[o].wait = Nothing
    BY <2>1, <2>2 DEF Emptied
  <2>4. graph[o].wait[i] = <<>>
    BY <2>1, <2>3 DEF Nothing
  <2>5. held[i] = 0 /\ decoded[i] \in Nat
    BY <1>1, <2>1, <2>3 DEF GraphEnds, Types
  <2>6. Decoding(i)
    BY DEF Decoding
  <2>7. decoded[i] = packets[i]
    BY <1>1, <2>1, <2>5, <2>6 DEF Counts
  <2>8. (graph[o].used[i] + graph[o].lost[i])
           + (Len(graph[o].src[i]) + Len(graph[o].wait[i])) = decoded[i]
    BY <1>1, Zenon DEF GraphsOk, InputOk
  <2> QED BY <2>1, <2>2, <2>3, <2>4, <2>7, <2>8
<1> QED BY <1>2, <1>3

LEMMA NoMoreStep ==
    ASSUME IInv, no_more_output
    PROVE  IInv'
<1>1. /\ Types /\ GraphsOk(graph, decoded) /\ Counts /\ Control
      /\ GraphEnds /\ Copies
  BY InvParts
<1>2. /\ pc = "loop" /\ pc' = "done" /\ ~need_output
      /\ finished' = [o \in Outputs |-> TRUE]
      /\ UNCHANGED <<file, out, ist, max_frames, packets, held, decoded, over,
                     eagain, eof_reached, graph, initialized, unavailable,
                     inputs_done, frame_number, first, changes, received_sigterm>>
  BY Zenon DEF no_more_output, where, streams, files
<1>3. Types'
  <2>1. finished' \in [Outputs -> BOOLEAN]
    BY <1>2
  <2> QED BY <1>1, <1>2, <2>1 DEF Types
<1>4. GraphsOk(graph, decoded)' /\ Counts' /\ Control' /\ GraphEnds'
  BY <1>1, <1>2 DEF GraphsOk, Counts, Control, GraphEnds, Decoding, Ended
<1>5. Copies'
  <2>1. \A o \in Copied : finished'[o]
    BY <1>2, NumbersOfOutputs
  <2> QED BY <1>1, <1>2, <2>1 DEF Copies, Handed, Ended, AtLimit, Uncopied
<1>6. EncodedEnds'
  BY <1>2 DEF EncodedEnds
<1>7. Delivered'
  <2>1. \A o \in Outputs : AtLimit(o)' <=> AtLimit(o)
    BY <1>2 DEF AtLimit
  <2>2. SUFFICES ASSUME \A o \in Outputs : ~AtLimit(o)
                 PROVE  /\ \A o \in Copied : frame_number[o] > 0 =>
                              first[o] + frame_number[o] = packets[Source[o]] + 1
                        /\ \A o \in Encoded : \A i \in Inputs[o] :
                              /\ graph[o].used[i] + graph[o].lost[i] = packets[i]
                              /\ graph[o].sink = 0
    BY <1>2, <2>1 DEF Delivered
  <2>3. Unfinished = {}
    <3>1. SUFFICES ASSUME Unfinished # {}
                   PROVE  FALSE
      OBVIOUS
    <3>2. Unfinished \subseteq Nat /\ Unfinished \subseteq Outputs
      BY NumbersOfOutputs DEF Unfinished
    <3>3. First(Unfinished) \in Outputs
      BY <3>1, <3>2, FirstIsLeast
    <3> QED BY <1>2, <2>2, <3>1, <3>3 DEF need_output
  <2>4. \A o \in Outputs : finished[o] /\ ~AtLimit(o)
    BY <2>2, <2>3 DEF Unfinished
  <2> QED BY <1>2, <2>4, EndedAll
<1> QED BY <1>3, <1>4, <1>5, <1>6, <1>7, Zenon DEF IInv

-----------------------------------------------------------------------------
(* A frame comes out of a decoder                                           *)

\* Frame n of stream i is sent to the graphs that i feeds.
SentTo(gs, i, n, changed) ==
    [o \in Encoded |-> IF i \in Inputs[o] THEN SendFrame(gs[o], i, n, changed)
                                          ELSE gs[o]]

LEMMA SentKeeps ==
    ASSUME Types, NEW gs, GraphsOk(gs, decoded), NEW i \in Streams, NEW changed
    PROVE  LET n  == decoded[i] + 1
               hs == SentTo(gs, i, n, changed)
           IN  /\ GraphsOk(hs, [decoded EXCEPT ![i] = n])
               /\ \A o \in Encoded : /\ hs[o].eof = gs[o].eof
                                     /\ i \notin Inputs[o] => hs[o] = gs[o]
<1> DEFINE n  == decoded[i] + 1
           hs == SentTo(gs, i, n, changed)
           d  == [decoded EXCEPT ![i] = n]
<1> USE DEF SentTo
<1>1. decoded \in [Streams -> Nat]
  BY DEF Types
<1>2. d[i] = n /\ \A j \in Streams \ {i} : d[j] = decoded[j]
  BY <1>1
<1>3. hs = [o \in Encoded |-> hs[o]]
  OBVIOUS
<1>4. ASSUME NEW o \in Encoded
      PROVE  /\ GraphOk(hs[o], Inputs[o])
             /\ \A j \in Inputs[o] : InputOk(hs[o], j, d[j])
             /\ hs[o].eof = gs[o].eof
             /\ i \notin Inputs[o] => hs[o] = gs[o]
  <2>1. /\ GraphOk(gs[o], Inputs[o]) /\ Inputs[o] \subseteq Streams
        /\ \A j \in Inputs[o] : InputOk(gs[o], j, decoded[j])
    BY NumbersOfOutputs DEF GraphsOk
  <2>2. CASE i \in Inputs[o]
    <3> DEFINE h == SendFrame(gs[o], i, n, changed)
    <3>1. hs[o] = h
      BY <2>2
    <3>2. decoded[i] \in Nat /\ InputOk(gs[o], i, decoded[i])
      BY <1>1, <2>1, <2>2
    <3>3. /\ GraphOk(h, Inputs[o]) /\ h.eof = gs[o].eof
          /\ InputOk(h, i, n)
          /\ \A j \in Inputs[o] \ {i} : \A m \in Nat :
                InputOk(gs[o], j, m) => InputOk(h, j, m)
      BY <2>1, <2>2, <3>2, SendFrameOk
    <3> HIDE DEF h, hs, d, n
    <3>4. ASSUME NEW j \in Inputs[o]
          PROVE  InputOk(h, j, d[j])
      <4>1. CASE j = i
        BY <1>2, <3>3, <4>1
      <4>2. CASE j # i
        <5>1. j \in Streams \ {i} /\ decoded[j] \in Nat
          BY <1>1, <2>1, <4>2
        <5>2. d[j] = decoded[j] /\ InputOk(gs[o], j, decoded[j])
          BY <1>2, <2>1, <5>1
        <5> QED BY <3>3, <4>2, <5>1, <5>2
      <4> QED BY <4>1, <4>2
    <3> QED BY <2>2, <3>1, <3>3, <3>4
  <2>3. CASE i \notin Inputs[o]
    <3>1. hs[o] = gs[o]
      BY <2>3
    <3>2. \A j \in Inputs[o] : d[j] = decoded[j]
      BY <1>2, <2>1, <2>3
    <3> HIDE DEF hs, d
    <3> QED BY <2>1, <3>1, <3>2
  <2> QED BY <2>2, <2>3
<1> HIDE DEF hs, d
<1>5. GraphsOk(hs, d)
  BY <1>3, <1>4, Zenon DEF GraphsOk
<1> QED BY <1>4, <1>5, Zenon DEF hs, d, n

LEMMA SendStep ==
    ASSUME IInv, NEW gs, GraphsOk(gs, decoded), NEW i \in Streams, held[i] > 0,
           NEW changed, send_frame_to_filters(gs, i, changed)
    PROVE  /\ decoded' \in [Streams -> Nat] /\ held' \in [Streams -> Nat]
           /\ decoded'[i] = decoded[i] + 1 /\ held'[i] = held[i] - 1
           /\ \A j \in Streams \ {i} : decoded'[j] = decoded[j] /\ held'[j] = held[j]
           /\ GraphsOk(graph', decoded')
           /\ \A o \in Encoded :
                 /\ graph'[o].eof = gs[o].eof
                 /\ i \notin Inputs[o] /\ Emptied(gs[o]) => Emptied(graph'[o])
           /\ frame_number' \in [Outputs -> Nat]
           /\ initialized' \in [Outputs -> BOOLEAN]
           /\ \A o \in Copied : /\ initialized'[o]
                                /\ frame_number'[o] = frame_number[o]
<1>1. Types /\ Copies
  BY InvParts
<1>2. /\ decoded' = [decoded EXCEPT ![i] = decoded[i] + 1]
      /\ held' = [held EXCEPT ![i] = @ - 1]
  BY Zenon DEF send_frame_to_filters
<1>3. /\ decoded' \in [Streams -> Nat] /\ held' \in [Streams -> Nat]
      /\ decoded'[i] = decoded[i] + 1 /\ held'[i] = held[i] - 1
      /\ \A j \in Streams \ {i} : decoded'[j] = decoded[j] /\ held'[j] = held[j]
  <2>1. decoded \in [Streams -> Nat] /\ held \in [Streams -> Nat]
    BY <1>1 DEF Types
  <2> QED BY <1>2, <2>1
<1> DEFINE n == decoded[i] + 1
           Sent(g) == SendFrame(g, i, n, changed)
           builds == \E o \in Encoded : i \in Inputs[o] /\ Builds(gs[o], i, changed)
<1>4. CASE builds
  <2> DEFINE rs == [o \in Encoded |-> Reaped(gs[o])]
             hs == SentTo(rs, i, n, changed)
  <2>1. /\ frame_number' = ReapedNumber(gs)
        /\ initialized' = [o \in Outputs |->
                             initialized[o] \/ (o \in Encoded /\ gs[o].built)]
        /\ graph' = [o \in Encoded |-> IF i \in Inputs[o] THEN Sent(Reaped(gs[o]))
                                                          ELSE Reaped(gs[o])]
    BY <1>4, Zenon DEF send_frame_to_filters
  <2>2. graph' = hs
    BY <2>1 DEF SentTo
  <2>3. /\ GraphsOk(rs, decoded)
        /\ \A o \in Encoded : /\ rs[o].eof = gs[o].eof
                              /\ Emptied(gs[o]) => Emptied(rs[o])
    BY ReapKeeps, Zenon
  <2>4. frame_number' \in [Outputs -> Nat]
        /\ \A o \in Copied : frame_number'[o] = frame_number[o]
    BY <1>1, <2>1, ReapedNumbers
  <2>5. /\ initialized' \in [Outputs -> BOOLEAN]
        /\ \A o \in Copied : initialized'[o]
    <3> DEFINE b(o) == initialized[o] \/ (o \in Encoded /\ gs[o].built)
    <3>1. \A o \in Outputs : b(o) \in BOOLEAN
      OBVIOUS
    <3>2. \A o \in Copied : b(o) /\ o \in Outputs
      BY <1>1, NumbersOfOutputs DEF Copies
    <3>3. initialized' = [o \in Outputs |-> b(o)]
      BY <2>1
    <3> HIDE DEF b
    <3> QED BY <3>1, <3>2, <3>3
  <2> HIDE DEF rs
  <2>6. /\ GraphsOk(hs, [decoded EXCEPT ![i] = n])
        /\ \A o \in Encoded : /\ hs[o].eof = rs[o].eof
                              /\ i \notin Inputs[o] => hs[o] = rs[o]
    BY <1>1, <2>3, SentKeeps
  <2> HIDE DEF hs
  <2>7. GraphsOk(graph', decoded')
    BY <1>2, <2>2, <2>6
  <2> QED BY <1>3, <2>2, <2>3, <2>4, <2>5, <2>6, <2>7
<1>5. CASE ~builds
  <2> DEFINE hs == SentTo(gs, i, n, changed)
  <2>1. /\ frame_number' = frame_number /\ initialized' = initialized
        /\ graph' = [o \in Encoded |-> IF i \in Inputs[o] THEN Sent(gs[o]) ELSE gs[o]]
    BY <1>5, Zenon DEF send_frame_to_filters
  <2>2. graph' = hs
    BY <2>1 DEF SentTo
  <2>3. /\ frame_number' \in [Outputs -> Nat]
        /\ initialized' \in [Outputs -> BOOLEAN]
        /\ \A o \in Copied : /\ initialized'[o]
                             /\ frame_number'[o] = frame_number[o]
    BY <1>1, <2>1 DEF Types, Copies
  <2>4. /\ GraphsOk(hs, [decoded EXCEPT ![i] = n])
        /\ \A o \in Encoded : /\ hs[o].eof = gs[o].eof
                              /\ i \notin Inputs[o] => hs[o] = gs[o]
    BY <1>1, SentKeeps
  <2> HIDE DEF hs
  <2>5. GraphsOk(graph', decoded')
    BY <1>2, <2>2, <2>4
  <2> QED BY <1>3, <2>2, <2>3, <2>4, <2>5
<1> QED BY <1>4, <1>5

\* A decoder gives a frame.
LEMMA GivesStep ==
    ASSUME IInv, NEW gs, GraphsOk(gs, decoded), NEW i \in Streams,
           DecoderGives(gs, i)
    PROVE  /\ held[i] > 0
           /\ decoded' \in [Streams -> Nat] /\ held' \in [Streams -> Nat]
           /\ decoded'[i] = decoded[i] + 1 /\ held'[i] = held[i] - 1
           /\ \A j \in Streams \ {i} : decoded'[j] = decoded[j] /\ held'[j] = held[j]
           /\ GraphsOk(graph', decoded')
           /\ \A o \in Encoded :
                 /\ graph'[o].eof = gs[o].eof
                 /\ i \notin Inputs[o] /\ Emptied(gs[o]) => Emptied(graph'[o])
           /\ frame_number' \in [Outputs -> Nat]
           /\ initialized' \in [Outputs -> BOOLEAN]
           /\ \A o \in Copied : /\ initialized'[o]
                                /\ frame_number'[o] = frame_number[o]
           /\ changes' \in 0..MaxChanges
<1>1. held[i] > 0 /\ changes' \in 0..MaxChanges
  <2>1. changes \in 0..MaxChanges /\ MaxChanges \in Nat
    BY InvParts, TranscodeAssumption DEF Types
  <2>2. held[i] > 0 /\ (changes' = changes \/ (changes < MaxChanges /\ changes' = changes + 1))
    BY Zenon DEF DecoderGives
  <2> QED BY <2>1, <2>2
<1>2. PICK c \in {TRUE, FALSE} : send_frame_to_filters(gs, i, c)
  BY Zenon DEF DecoderGives
<1> QED BY <1>1, <1>2, SendStep

LEMMA DecodeStep ==
    ASSUME IInv, decode_frame
    PROVE  IInv'
<1>1. /\ Types /\ GraphsOk(graph, decoded) /\ Counts /\ Control
      /\ GraphEnds /\ Copies /\ EncodedEnds
  BY InvParts
<1>2. /\ pc = "decode" /\ pc' = "decode"
      /\ UNCHANGED <<file, out, ist, max_frames, packets, over, eagain,
                     eof_reached, unavailable, inputs_done, finished,
                     first, received_sigterm>>
      /\ DecoderGives(graph, ist)
  BY Zenon DEF decode_frame, where, files, ends
<1>3. ist \in Streams
  BY <1>1 DEF Types
<1>4. /\ held[ist] > 0
      /\ decoded' \in [Streams -> Nat] /\ held' \in [Streams -> Nat]
      /\ decoded'[ist] = decoded[ist] + 1 /\ held'[ist] = held[ist] - 1
      /\ \A j \in Streams \ {ist} : decoded'[j] = decoded[j] /\ held'[j] = held[j]
      /\ GraphsOk(graph', decoded')
      /\ \A o \in Encoded :
            /\ graph'[o].eof = graph[o].eof
            /\ ist \notin Inputs[o] /\ Emptied(graph[o]) => Emptied(graph'[o])
      /\ frame_number' \in [Outputs -> Nat]
      /\ initialized' \in [Outputs -> BOOLEAN]
      /\ \A o \in Copied : /\ initialized'[o]
                           /\ frame_number'[o] = frame_number[o]
      /\ changes' \in 0..MaxChanges
  BY <1>1, <1>2, <1>3, GivesStep
<1>5. Types'
  BY <1>1, <1>2, <1>4 DEF Types
<1>6. Counts'
  <2>1. ASSUME NEW i \in Streams
        PROVE  /\ held'[i] + decoded'[i] = held[i] + decoded[i]
               /\ held'[i] > Delay => i = ist /\ held'[i] = Delay + 1
    <3>1. held[i] \in Nat /\ decoded[i] \in Nat /\ Delay \in Nat
      BY <1>1, TranscodeAssumption DEF Types
    <3>2. held[i] > Delay => i = ist /\ held[i] = Delay + 1
      BY <1>1 DEF Counts
    <3>3. CASE i = ist
      BY <1>4, <3>1, <3>2, <3>3
    <3>4. CASE i # ist
      BY <1>4, <3>1, <3>2, <3>4
    <3> QED BY <3>3, <3>4
  <2> QED BY <1>1, <1>2, <2>1 DEF Counts, Decoding
<1>7. Control'
  BY <1>1, <1>2 DEF Control
<1>8. GraphEnds'
  <2>1. ASSUME NEW o \in Encoded, NEW i \in Inputs[o]
        PROVE  /\ Ended(FileOf[i])' => i \in graph'[o].eof
               /\ i \in graph'[o].eof => over'[FileOf[i]] /\ held'[i] = 0
    <3>1. graph'[o].eof = graph[o].eof /\ i \in Streams
      BY <1>4, NumbersOfOutputs
    <3>2. Ended(FileOf[i])' <=> Ended(FileOf[i])
      BY <1>2 DEF Ended
    <3>3. /\ Ended(FileOf[i]) => i \in graph[o].eof
          /\ i \in graph[o].eof => over[FileOf[i]] /\ held[i] = 0
      BY <1>1 DEF GraphEnds
    <3>4. i \in graph[o].eof => i # ist
      BY <1>4, <3>3
    <3> QED BY <1>2, <1>4, <3>1, <3>2, <3>3, <3>4
  <2> QED BY <2>1, Zenon DEF GraphEnds
<1>9. Copies'
  <2>1. ASSUME NEW o \in Copied
        PROVE  /\ AtLimit(o)' <=> AtLimit(o)
               /\ Uncopied(Source[o])' = Uncopied(Source[o])
               /\ Ended(FileOf[Source[o]])' <=> Ended(FileOf[Source[o]])
    BY <1>2, <1>4 DEF AtLimit, Uncopied, Ended
  <2>2. ASSUME NEW o \in Copied
        PROVE  /\ initialized'[o]
               /\ Ended(FileOf[Source[o]])' => finished'[o]
               /\ finished'[o] /\ pc' # "done" => over'[FileOf[Source[o]]]
               /\ AtLimit(o)' \/ Handed(o)'
    <3>1. Handed(o) => Handed(o)'
      BY <1>2, <1>4, <2>1 DEF Handed
    <3> QED BY <1>1, <1>2, <1>4, <2>1, <3>1 DEF Copies
  <2> QED BY <2>2, Zenon DEF Copies
<1>10. EncodedEnds'
  <2>1. ASSUME NEW o \in Encoded, finished'[o]
        PROVE  Emptied(graph'[o])
    <3>1. Emptied(graph[o])
      BY <1>1, <1>2, <2>1 DEF EncodedEnds
    <3>2. graph[o].inputs = Inputs[o]
      BY <1>1, GraphFields DEF GraphsOk
    <3>3. ist \notin Inputs[o]
      BY <1>1, <1>4, <3>1, <3>2 DEF GraphEnds, Emptied
    <3> QED BY <1>4, <3>1, <3>3
  <2> QED BY <2>1 DEF EncodedEnds
<1>11. Delivered'
  BY <1>2 DEF Delivered
<1>12. GraphsOk(graph, decoded)'
  BY <1>4
<1> QED BY <1>5, <1>6, <1>7, <1>8, <1>9, <1>10, <1>11, <1>12, Zenon DEF IInv

LEMMA PacketStep ==
    ASSUME IInv, input_packet
    PROVE  IInv'
<1>1. /\ Types /\ GraphsOk(graph, decoded) /\ Counts /\ Control
      /\ GraphEnds /\ Copies /\ EncodedEnds
  BY InvParts
<1>2. /\ pc = "input" /\ pc' = "decode" /\ ~over[file]
      /\ UNCHANGED <<file, out, max_frames, decoded, over, eof_reached, graph,
                     initialized, inputs_done, finished, frame_number, first, changes,
                     received_sigterm>>
      /\ eagain' = [f \in Files |-> FALSE]
      /\ unavailable' = [o \in Outputs |-> FALSE]
  BY Zenon DEF input_packet, ends
<1>3. PICK i \in StreamsOf(file) :
          /\ packets[i] < MaxPackets
          /\ packets' = [packets EXCEPT ![i] = @ + 1]
          /\ held' = [held EXCEPT ![i] = IF Decoding(i) THEN @ + 1 ELSE @]
          /\ ist' = i
  BY Zenon DEF input_packet
<1>4. i \in Streams /\ FileOf[i] = file
  BY DEF StreamsOf
<1>5. /\ packets' \in [Streams -> 0..MaxPackets] /\ packets'[i] = packets[i] + 1
      /\ \A j \in Streams \ {i} : packets'[j] = packets[j]
  <2>1. packets \in [Streams -> 0..MaxPackets] /\ MaxPackets \in Nat
    BY <1>1, TranscodeAssumption DEF Types
  <2> QED BY <1>3, <1>4, <2>1
<1>6. /\ held' \in [Streams -> Nat]
      /\ held'[i] = held[i] + (IF Decoding(i) THEN 1 ELSE 0)
      /\ \A j \in Streams \ {i} : held'[j] = held[j]
  <2>1. held \in [Streams -> Nat]
    BY <1>1 DEF Types
  <2>2. CASE Decoding(i)
    <3>1. held' = [held EXCEPT ![i] = @ + 1]
      BY <1>3, <2>2
    <3> QED BY <1>4, <2>1, <2>2, <3>1
  <2>3. CASE ~Decoding(i)
    <3>1. held' = [held EXCEPT ![i] = @]
      BY <1>3, <2>3
    <3> QED BY <1>4, <2>1, <2>3, <3>1
  <2> QED BY <2>2, <2>3
<1>7. Types'
  <2>1. /\ eagain' \in [Files -> BOOLEAN] /\ unavailable' \in [Outputs -> BOOLEAN]
    BY <1>2
  <2> QED BY <1>1, <1>2, <1>3, <1>4, <1>5, <1>6, <2>1 DEF Types
<1>8. Counts'
  <2>1. ASSUME NEW j \in Streams
        PROVE  /\ held'[j] + decoded'[j] = IF Decoding(j) THEN packets'[j] ELSE 0
               /\ held'[j] > Delay => j = i /\ held'[j] = Delay + 1
    <3>1. /\ held[j] \in Nat /\ decoded[j] \in Nat /\ Delay \in Nat
          /\ packets[j] \in Nat /\ decoded'[j] = decoded[j]
      BY <1>1, <1>2, TranscodeAssumption DEF Types
    <3>2. /\ held[j] + decoded[j] = IF Decoding(j) THEN packets[j] ELSE 0
          /\ ~(held[j] > Delay)
      BY <1>1, <1>2 DEF Counts
    <3>3. CASE j = i
      <4>1. /\ held'[j] = held[j] + (IF Decoding(j) THEN 1 ELSE 0)
            /\ packets'[j] = packets[j] + 1
        BY <1>5, <1>6, <3>3
      <4>2. CASE Decoding(j)
        BY <3>1, <3>2, <3>3, <4>1, <4>2
      <4>3. CASE ~Decoding(j)
        BY <3>1, <3>2, <3>3, <4>1, <4>3
      <4> QED BY <4>2, <4>3
    <3>4. CASE j # i
      <4>1. held'[j] = held[j] /\ packets'[j] = packets[j]
        BY <1>5, <1>6, <3>4
      <4> QED BY <3>1, <3>2, <4>1
    <3> QED BY <3>3, <3>4
  <2> QED BY <1>2, <1>3, <2>1 DEF Counts, Decoding
<1>9. Control'
  BY <1>2, <1>3, <1>4 DEF Control
<1>10. \A f : Ended(f)' <=> eof_reached[f]
  BY <1>2 DEF Ended
<1>11. GraphEnds'
  <2>1. ASSUME NEW o \in Encoded, NEW j \in Inputs[o]
        PROVE  /\ Ended(FileOf[j])' => j \in graph'[o].eof
               /\ j \in graph'[o].eof => over'[FileOf[j]] /\ held'[j] = 0
    <3>1. /\ Ended(FileOf[j]) => j \in graph[o].eof
          /\ j \in graph[o].eof => over[FileOf[j]] /\ held[j] = 0
      BY <1>1 DEF GraphEnds
    <3>2. j \in Streams /\ (j \in graph[o].eof => j # i)
      BY <1>2, <1>4, <3>1, NumbersOfOutputs
    <3> QED BY <1>2, <1>6, <1>10, <3>1, <3>2 DEF Ended
  <2> QED BY <2>1, Zenon DEF GraphEnds
<1>12. Copies'
  <2>1. ASSUME NEW o \in Copied
        PROVE  /\ initialized'[o]
               /\ Ended(FileOf[Source[o]])' => finished'[o]
               /\ finished'[o] /\ pc' # "done" => over'[FileOf[Source[o]]]
               /\ AtLimit(o)' \/ Handed(o)'
    <3>1. /\ Source[o] \in Streams /\ o \in Outputs
      BY NumbersOfOutputs
    <3>2. /\ frame_number[o] \in Nat /\ packets[Source[o]] \in Nat
          /\ first[o] \in Nat
      BY <1>1, <3>1, LimitsAreNumbers DEF Types
    <3>3. AtLimit(o)' <=> AtLimit(o)
      BY <1>2 DEF AtLimit
    <3>4. Uncopied(Source[o]) = 0
      BY <1>2 DEF Uncopied
    <3>5. AtLimit(o) \/ Handed(o)'
      <4>1. \/ AtLimit(o)
            \/ frame_number[o] > 0 =>
                  first[o] + (frame_number[o] + 0) = packets[Source[o]] + 1
        BY <1>1, <3>4 DEF Copies, Handed
      <4>2. CASE Source[o] = i
        <5>1. Uncopied(Source[o])' = 1 /\ packets'[Source[o]] = packets[Source[o]] + 1
          BY <1>2, <1>3, <1>5, <4>2 DEF Uncopied
        <5> QED BY <1>2, <3>2, <4>1, <5>1 DEF Handed
      <4>3. CASE Source[o] # i
        <5>1. Uncopied(Source[o])' = 0 /\ packets'[Source[o]] = packets[Source[o]]
          BY <1>2, <1>3, <1>5, <3>1, <4>3 DEF Uncopied
        <5> QED BY <1>2, <4>1, <5>1 DEF Handed
      <4> QED BY <4>2, <4>3
    <3> QED BY <1>1, <1>2, <1>10, <3>3, <3>5 DEF Copies, Ended
  <2> QED BY <2>1, Zenon DEF Copies
<1>13. EncodedEnds' /\ Delivered' /\ GraphsOk(graph, decoded)'
  BY <1>1, <1>2 DEF EncodedEnds, Delivered, GraphsOk
<1> QED BY <1>7, <1>8, <1>9, <1>11, <1>12, <1>13, Zenon DEF IInv

LEMMA StreamcopyStep ==
    ASSUME IInv, do_streamcopy
    PROVE  IInv'
<1>1. /\ Types /\ GraphsOk(graph, decoded) /\ Counts /\ Control
      /\ GraphEnds /\ Copies /\ EncodedEnds
  BY InvParts
<1>2. /\ pc = "decode" /\ pc' = "reap" /\ held[ist] <= Delay
      /\ UNCHANGED <<file, out, ist, max_frames, packets, held, decoded, over,
                     eagain, eof_reached, graph, initialized, unavailable,
                     inputs_done, finished, changes, received_sigterm>>
  BY Zenon DEF do_streamcopy, where, streams, files, ends
<1>3. PICK drop \in SUBSET {o \in Copying : MayDrop(o)} :
          LET taking == {o \in Copying \ drop : ~AtLimit(o)}
          IN  /\ frame_number' = [o \in Outputs |-> IF o \in taking
                                                    THEN frame_number[o] + 1
                                                    ELSE frame_number[o]]
              /\ first' = [o \in Copied |-> IF o \in taking /\ frame_number[o] = 0
                                            THEN packets[ist] ELSE first[o]]
  BY Zenon DEF do_streamcopy
<1> DEFINE taking == {o \in Copying \ drop : ~AtLimit(o)}
<1>4. /\ \A o \in Outputs : frame_number[o] \in Nat /\ max_frames[o] \in Nat
      /\ packets[ist] \in 0..MaxPackets /\ first \in [Copied -> 0..MaxPackets]
  BY <1>1, LimitsAreNumbers DEF Types
<1>5. /\ frame_number' \in [Outputs -> Nat]
      /\ \A o \in Outputs : frame_number'[o] = IF o \in taking THEN frame_number[o] + 1
                                                               ELSE frame_number[o]
      /\ first' \in [Copied -> 0..MaxPackets]
      /\ \A o \in Copied : first'[o] = IF o \in taking /\ frame_number[o] = 0
                                        THEN packets[ist] ELSE first[o]
  <2> HIDE DEF taking
  <2> QED BY <1>3, <1>4 DEF taking
<1>6. Types'
  BY <1>1, <1>2, <1>5 DEF Types
<1>7. Counts'
  <2>1. ASSUME NEW i \in Streams
        PROVE  ~(held[i] > Delay)
    <3>1. held[i] \in Nat /\ Delay \in Nat
      BY <1>1, TranscodeAssumption DEF Types
    <3>2. CASE i = ist
      BY <1>2, <3>1, <3>2
    <3>3. CASE i # ist
      BY <1>1, <3>3 DEF Counts
    <3> QED BY <3>2, <3>3
  <2> QED BY <1>1, <1>2, <2>1 DEF Counts, Decoding
<1>8. Control' /\ GraphEnds'
  BY <1>1, <1>2 DEF Control, GraphEnds, Ended
<1>9. Copies'
  <2>1. ASSUME NEW o \in Copied
        PROVE  /\ initialized'[o]
               /\ Ended(FileOf[Source[o]])' => finished'[o]
               /\ finished'[o] /\ pc' # "done" => over'[FileOf[Source[o]]]
               /\ AtLimit(o)' \/ Handed(o)'
    <3>1. /\ Source[o] \in Streams /\ o \in Outputs
      BY NumbersOfOutputs
    <3>2. /\ frame_number[o] \in Nat /\ packets[Source[o]] \in Nat
          /\ max_frames[o] \in Nat
      BY <1>1, <1>4, <3>1 DEF Types
    <3>3. AtLimit(o) \/ Handed(o)
      BY <1>1 DEF Copies
    <3>4. Uncopied(Source[o])' = 0 /\ first[o] \in Nat
      BY <1>2, <1>4 DEF Uncopied
    <3>5. AtLimit(o)' \/ Handed(o)'
      <4>1. CASE AtLimit(o)
        <5>1. frame_number'[o] = frame_number[o]
          BY <1>5, <3>1, <4>1
        <5> QED BY <1>2, <4>1, <5>1 DEF AtLimit
      <4>2. CASE ~AtLimit(o) /\ Source[o] = ist /\ o \in taking
        <5>1. /\ frame_number'[o] = frame_number[o] + 1
              /\ first'[o] = IF frame_number[o] = 0 THEN packets[ist] ELSE first[o]
          BY <1>5, <3>1, <4>2
        <5>2. frame_number[o] > 0 =>
                 first[o] + (frame_number[o] + 1) = packets[ist] + 1
          BY <1>2, <3>3, <4>2 DEF Handed, Uncopied
        <5>3. first'[o] + (frame_number'[o] + 0) = packets[ist] + 1
          BY <3>2, <3>4, <4>2, <5>1, <5>2
        <5> QED BY <1>2, <3>4, <4>2, <5>3 DEF Handed
      <4>3. CASE ~AtLimit(o) /\ Source[o] = ist /\ o \notin taking
        <5>1. ~finished[o]
          BY <1>1, <1>2, <4>3 DEF Copies, Control
        <5>2. frame_number[o] = 0
          BY <4>3, <5>1 DEF Copying, MayDrop
        <5>3. frame_number'[o] = 0
          BY <1>5, <3>1, <4>3, <5>2
        <5> QED BY <5>3 DEF Handed
      <4>4. CASE ~AtLimit(o) /\ Source[o] # ist
        <5>1. o \notin taking
          BY <4>4 DEF Copying
        <5>2. frame_number'[o] = frame_number[o] /\ first'[o] = first[o]
          BY <1>5, <3>1, <5>1
        <5>3. Uncopied(Source[o]) = 0
          BY <4>4 DEF Uncopied
        <5> QED BY <1>2, <3>3, <3>4, <4>4, <5>2, <5>3 DEF Handed
      <4> QED BY <4>1, <4>2, <4>3, <4>4
    <3> QED BY <1>1, <1>2, <3>5 DEF Copies, Ended
  <2> QED BY <2>1, Zenon DEF Copies
<1>10. EncodedEnds' /\ Delivered' /\ GraphsOk(graph, decoded)'
  BY <1>1, <1>2 DEF EncodedEnds, Delivered, GraphsOk
<1> QED BY <1>6, <1>7, <1>8, <1>9, <1>10, Zenon DEF IInv

-----------------------------------------------------------------------------
(* The end of a file                                                        *)

\* A stream whose end is told has nothing left, and is not the one drained.
LEMMA DrainedHoldNothing ==
    ASSUME Types, NEW i \in DrainedStreams
    PROVE  /\ i \in Streams /\ FileOf[i] = file /\ held[i] = 0
           /\ Undrained # {} => i # First(Undrained)
<1>1. /\ i \in Streams /\ FileOf[i] = file /\ held[i] \in Nat /\ i \in Nat
      /\ Undrained = {} \/ i < First(Undrained)
  BY NumbersOfOutputs DEF DrainedStreams, StreamsOf, Types
<1>2. Undrained \subseteq Nat
  BY NumbersOfOutputs DEF Undrained, StreamsOf
<1>3. Undrained # {} => First(Undrained) \in Nat /\ i < First(Undrained)
  BY <1>1, <1>2, FirstIsLeast
<1>4. i \notin Undrained
  <2>1. SUFFICES ASSUME i \in Undrained
                 PROVE  FALSE
    OBVIOUS
  <2>2. First(Undrained) <= i
    BY <1>2, <2>1, FirstIsLeast
  <2> QED BY <1>1, <1>3, <2>1, <2>2
<1>5. held[i] = 0
  BY <1>1, <1>4 DEF Undrained, StreamsOf
<1> QED BY <1>1, <1>3, <1>5

\* Telling graphs the ends.
LEMMA EndedGraphOk ==
    ASSUME IInv
    PROVE  /\ GraphsOk(EndedGraph, decoded)
           /\ \A o \in Encoded :
                 /\ EndedGraph[o].eof = graph[o].eof \cup (DrainedStreams \cap Inputs[o])
                 /\ Emptied(graph[o]) => Emptied(EndedGraph[o])
<1>1. GraphsOk(graph, decoded)
  BY InvParts
<1> DEFINE gs == EndedGraph
<1>2. gs = [o \in Encoded |-> gs[o]]
  BY DEF EndedGraph
<1>3. ASSUME NEW o \in Encoded
      PROVE  /\ GraphOk(gs[o], Inputs[o])
             /\ \A i \in Inputs[o] : InputOk(gs[o], i, decoded[i])
             /\ gs[o].eof = graph[o].eof \cup (DrainedStreams \cap Inputs[o])
             /\ Emptied(graph[o]) => Emptied(gs[o])
  <2> DEFINE is == DrainedStreams \cap Inputs[o]
  <2>1. gs[o] = SendEof(graph[o], is)
    BY DEF EndedGraph
  <2>2. /\ GraphOk(graph[o], Inputs[o]) /\ is \subseteq Inputs[o]
        /\ \A i \in Inputs[o] : InputOk(graph[o], i, decoded[i])
    BY <1>1 DEF GraphsOk
  <2> HIDE DEF gs, is
  <2>3. /\ GraphOk(gs[o], Inputs[o])
        /\ \A i \in Inputs[o] : InputOk(gs[o], i, decoded[i])
        /\ gs[o].eof = graph[o].eof \cup is
        /\ Emptied(graph[o]) => Emptied(gs[o])
    BY <2>1, <2>2, SendEofOk
  <2> QED BY <2>3 DEF is
<1> HIDE DEF gs
<1>4. GraphsOk(gs, decoded)
  BY <1>2, <1>3, Zenon DEF GraphsOk
<1> QED BY <1>3, <1>4 DEF gs

\* Ending the copied outputs of drained streams.
LEMMA EndedCopiesOk ==
    ASSUME Types
    PROVE  /\ EndedCopies \in [Outputs -> BOOLEAN]
           /\ \A o \in Encoded : EndedCopies[o] = finished[o]
           /\ \A o \in Copied :
                 EndedCopies[o] <=> finished[o] \/ Source[o] \in DrainedStreams
<1> DEFINE b(o) == finished[o] \/ (o \in Copied /\ Source[o] \in DrainedStreams)
<1>1. /\ \A o \in Outputs : b(o) \in BOOLEAN
      /\ \A o \in Copied : b(o) <=> finished[o] \/ Source[o] \in DrainedStreams
  OBVIOUS
<1>2. \A o \in Encoded : b(o) = finished[o]
  <2>1. finished \in [Outputs -> BOOLEAN]
    BY DEF Types
  <2> QED BY <2>1, NumbersOfOutputs
<1>3. EndedCopies = [o \in Outputs |-> b(o)]
  BY DEF EndedCopies
<1> HIDE DEF b
<1> QED BY <1>1, <1>2, <1>3, NumbersOfOutputs

\* What both steps at the end of a file keep of the copied outputs.
LEMMA EndCopies ==
    ASSUME IInv, pc = "input", pc' \in {"reap", "ended"},
           UNCHANGED <<file, max_frames, packets, eof_reached, first>>,
           over' = [over EXCEPT ![file] = TRUE],
           finished' = EndedCopies,
           \A o \in Copied : initialized'[o] /\ frame_number'[o] = frame_number[o],
           pc' = "ended" => DrainedStreams = StreamsOf(file)
    PROVE  Copies'
<1>1. Types /\ Copies
  BY InvParts
<1>2. over'[file] /\ \A f \in Files : over[f] => over'[f]
  BY <1>1 DEF Types
<1>3. ASSUME NEW o \in Copied
      PROVE  /\ initialized'[o]
             /\ Ended(FileOf[Source[o]])' => finished'[o]
             /\ finished'[o] /\ pc' # "done" => over'[FileOf[Source[o]]]
             /\ AtLimit(o)' \/ Handed(o)'
  <2>1. Source[o] \in Streams /\ FileOf[Source[o]] \in Files
    BY NumbersOfOutputs
  <2>2. finished'[o] <=> finished[o] \/ Source[o] \in DrainedStreams
    BY <1>1, EndedCopiesOk
  <2>3. Ended(FileOf[Source[o]])' => finished'[o]
    <3>1. CASE eof_reached[FileOf[Source[o]]]
      BY <1>1, <2>2, <3>1 DEF Copies, Ended
    <3>2. CASE pc' = "ended" /\ FileOf[Source[o]] = file
      <4>1. Source[o] \in DrainedStreams
        BY <2>1, <3>2 DEF StreamsOf
      <4> QED BY <2>2, <4>1
    <3> QED BY <3>1, <3>2 DEF Ended
  <2>4. finished'[o] => over'[FileOf[Source[o]]]
    <3>1. CASE finished[o]
      BY <1>1, <1>2, <2>1, <3>1 DEF Copies
    <3>2. CASE Source[o] \in DrainedStreams
      BY <1>1, <1>2, <3>2, DrainedHoldNothing
    <3> QED BY <2>2, <3>1, <3>2
  <2>5. (AtLimit(o)' <=> AtLimit(o)) /\ Uncopied(Source[o])' = Uncopied(Source[o])
    BY DEF AtLimit, Uncopied
  <2>6. Handed(o) => Handed(o)'
    BY <2>5 DEF Handed
  <2> QED BY <1>1, <2>3, <2>4, <2>5, <2>6 DEF Copies
<1> QED BY <1>3, Zenon DEF Copies

LEMMA DrainFrameStep ==
    ASSUME IInv, drain_frame
    PROVE  IInv'
<1> DEFINE j == First(Undrained)
<1>1. /\ Types /\ GraphsOk(graph, decoded) /\ Counts /\ Control
      /\ GraphEnds /\ Copies /\ EncodedEnds
  BY InvParts
<1>2. /\ pc = "input" /\ pc' = "reap" /\ Undrained # {}
      /\ over' = [over EXCEPT ![file] = TRUE]
      /\ finished' = EndedCopies
      /\ DecoderGives(EndedGraph, j)
      /\ UNCHANGED <<file, out, ist, max_frames, packets, eagain, eof_reached,
                     unavailable, inputs_done, first, received_sigterm>>
  BY Zenon DEF drain_frame, where
<1>3. j \in Streams
  <2>1. Undrained \subseteq Nat /\ Undrained \subseteq Streams
    BY NumbersOfOutputs DEF Undrained, StreamsOf
  <2> QED BY <1>2, <2>1, FirstIsLeast
<1>4. /\ GraphsOk(EndedGraph, decoded)
      /\ \A o \in Encoded :
            /\ EndedGraph[o].eof = graph[o].eof \cup (DrainedStreams \cap Inputs[o])
            /\ Emptied(graph[o]) => Emptied(EndedGraph[o])
  BY EndedGraphOk
<1>5. \A i \in DrainedStreams : /\ i \in Streams /\ FileOf[i] = file
                                /\ held[i] = 0 /\ i # j
  BY <1>1, <1>2, DrainedHoldNothing
<1> HIDE DEF j
<1>6. /\ held[j] > 0
      /\ decoded' \in [Streams -> Nat] /\ held' \in [Streams -> Nat]
      /\ decoded'[j] = decoded[j] + 1 /\ held'[j] = held[j] - 1
      /\ \A i \in Streams \ {j} : decoded'[i] = decoded[i] /\ held'[i] = held[i]
      /\ GraphsOk(graph', decoded')
      /\ \A o \in Encoded :
            /\ graph'[o].eof = EndedGraph[o].eof
            /\ j \notin Inputs[o] /\ Emptied(EndedGraph[o]) => Emptied(graph'[o])
      /\ frame_number' \in [Outputs -> Nat]
      /\ initialized' \in [Outputs -> BOOLEAN]
      /\ \A o \in Copied : /\ initialized'[o]
                           /\ frame_number'[o] = frame_number[o]
      /\ changes' \in 0..MaxChanges
  BY <1>2, <1>3, <1>4, GivesStep
<1>7. /\ over' \in [Files -> BOOLEAN] /\ over'[file]
      /\ \A f \in Files : over[f] => over'[f]
  <2>1. over \in [Files -> BOOLEAN] /\ file \in Files
    BY <1>1 DEF Types
  <2> QED BY <1>2, <2>1
<1>8. Types'
  <2>1. finished' \in [Outputs -> BOOLEAN]
    BY <1>1, <1>2, EndedCopiesOk
  <2> QED BY <1>1, <1>2, <1>6, <1>7, <2>1 DEF Types
<1>9. Counts'
  <2>1. ASSUME NEW i \in Streams
        PROVE  held'[i] + decoded'[i] = held[i] + decoded[i] /\ ~(held'[i] > Delay)
    <3>1. held[i] \in Nat /\ decoded[i] \in Nat /\ Delay \in Nat
      BY <1>1, TranscodeAssumption DEF Types
    <3>2. ~(held[i] > Delay)
      BY <1>1, <1>2 DEF Counts
    <3>3. CASE i = j
      BY <1>6, <3>1, <3>2, <3>3
    <3>4. CASE i # j
      BY <1>6, <3>1, <3>2, <3>4
    <3> QED BY <3>3, <3>4
  <2> QED BY <1>1, <1>2, <2>1 DEF Counts, Decoding
<1>10. Control'
  BY <1>2 DEF Control
<1>11. GraphEnds'
  <2>1. ASSUME NEW o \in Encoded, NEW i \in Inputs[o]
        PROVE  /\ Ended(FileOf[i])' => i \in graph'[o].eof
               /\ i \in graph'[o].eof => over'[FileOf[i]] /\ held'[i] = 0
    <3>1. i \in Streams /\ FileOf[i] \in Files
      BY NumbersOfOutputs
    <3>2. graph'[o].eof = graph[o].eof \cup (DrainedStreams \cap Inputs[o])
      BY <1>4, <1>6
    <3>3. Ended(FileOf[i])' => Ended(FileOf[i])
      BY <1>2 DEF Ended
    <3>4. /\ Ended(FileOf[i]) => i \in graph[o].eof
          /\ i \in graph[o].eof => over[FileOf[i]] /\ held[i] = 0
      BY <1>1 DEF GraphEnds
    <3>5. i \in graph[o].eof => over'[FileOf[i]] /\ held'[i] = 0
      BY <1>6, <1>7, <3>1, <3>4
    <3>6. i \in DrainedStreams => over'[FileOf[i]] /\ held'[i] = 0
      BY <1>5, <1>6, <1>7
    <3> QED BY <3>2, <3>3, <3>4, <3>5, <3>6
  <2> QED BY <2>1, Zenon DEF GraphEnds
<1>12. Copies'
  BY <1>2, <1>6, EndCopies
<1>13. EncodedEnds'
  <2>1. ASSUME NEW o \in Encoded, finished'[o]
        PROVE  Emptied(graph'[o])
    <3>1. finished[o]
      BY <1>1, <1>2, <2>1, EndedCopiesOk
    <3>2. Emptied(graph[o])
      BY <1>1, <1>2, <3>1 DEF EncodedEnds
    <3>3. graph[o].inputs = Inputs[o]
      BY <1>1, GraphFields DEF GraphsOk
    <3>4. j \notin Inputs[o]
      BY <1>1, <1>6, <3>2, <3>3 DEF GraphEnds, Emptied
    <3> QED BY <1>4, <1>6, <3>2, <3>4
  <2> QED BY <2>1 DEF EncodedEnds
<1>14. Delivered' /\ GraphsOk(graph, decoded)'
  BY <1>2, <1>6 DEF Delivered
<1> QED BY <1>8, <1>9, <1>10, <1>11, <1>12, <1>13, <1>14, Zenon DEF IInv

LEMMA DrainedStep ==
    ASSUME IInv, drained
    PROVE  IInv'
<1>1. /\ Types /\ GraphsOk(graph, decoded) /\ Counts /\ Control
      /\ GraphEnds /\ Copies /\ EncodedEnds
  BY InvParts
<1>2. /\ pc = "input" /\ pc' = "ended" /\ Undrained = {}
      /\ over' = [over EXCEPT ![file] = TRUE]
      /\ graph' = EndedGraph
      /\ finished' = EndedCopies
      /\ UNCHANGED <<file, out, ist, max_frames, packets, held, decoded, eagain,
                     eof_reached, initialized, unavailable, inputs_done,
                     frame_number, first, changes, received_sigterm>>
  BY Zenon DEF drained, where, streams
<1>3. DrainedStreams = StreamsOf(file)
  BY <1>2 DEF DrainedStreams
<1>4. /\ GraphsOk(EndedGraph, decoded)
      /\ \A o \in Encoded :
            /\ EndedGraph[o].eof = graph[o].eof \cup (DrainedStreams \cap Inputs[o])
            /\ Emptied(graph[o]) => Emptied(EndedGraph[o])
  BY EndedGraphOk
<1>5. \A i \in DrainedStreams : i \in Streams /\ FileOf[i] = file /\ held[i] = 0
  BY <1>1, DrainedHoldNothing
<1>6. /\ over' \in [Files -> BOOLEAN] /\ over'[file]
      /\ \A f \in Files : over[f] => over'[f]
  <2>1. over \in [Files -> BOOLEAN] /\ file \in Files
    BY <1>1 DEF Types
  <2> QED BY <1>2, <2>1
<1>7. Types'
  <2>1. finished' \in [Outputs -> BOOLEAN]
    BY <1>1, <1>2, EndedCopiesOk
  <2> QED BY <1>1, <1>2, <1>6, <2>1 DEF Types
<1>8. Counts' /\ Control'
  BY <1>1, <1>2 DEF Counts, Control, Decoding
<1>9. GraphEnds'
  <2>1. ASSUME NEW o \in Encoded, NEW i \in Inputs[o]
        PROVE  /\ Ended(FileOf[i])' => i \in graph'[o].eof
               /\ i \in graph'[o].eof => over'[FileOf[i]] /\ held'[i] = 0
    <3>1. i \in Streams /\ FileOf[i] \in Files
      BY NumbersOfOutputs
    <3>2. graph'[o].eof = graph[o].eof \cup (DrainedStreams \cap Inputs[o])
      BY <1>2, <1>4
    <3>3. Ended(FileOf[i])' => eof_reached[FileOf[i]] \/ FileOf[i] = file
      BY <1>2 DEF Ended
    <3>4. eof_reached[FileOf[i]] => i \in graph[o].eof
      BY <1>1 DEF GraphEnds, Ended
    <3>5. FileOf[i] = file => i \in DrainedStreams
      BY <1>3, <3>1 DEF StreamsOf
    <3>6. i \in graph[o].eof => over[FileOf[i]] /\ held[i] = 0
      BY <1>1 DEF GraphEnds
    <3>7. i \in graph[o].eof => over'[FileOf[i]] /\ held'[i] = 0
      BY <1>2, <1>6, <3>1, <3>6
    <3>8. i \in DrainedStreams => over'[FileOf[i]] /\ held'[i] = 0
      BY <1>2, <1>5, <1>6
    <3> QED BY <3>2, <3>3, <3>4, <3>5, <3>7, <3>8
  <2> QED BY <2>1, Zenon DEF GraphEnds
<1>10. Copies'
  <2>1. \A o \in Copied : initialized'[o] /\ frame_number'[o] = frame_number[o]
    BY <1>1, <1>2 DEF Copies
  <2> QED BY <1>2, <1>3, <2>1, EndCopies
<1>11. EncodedEnds'
  <2>1. ASSUME NEW o \in Encoded, finished'[o]
        PROVE  Emptied(graph'[o])
    <3>1. finished[o]
      BY <1>1, <1>2, <2>1, EndedCopiesOk
    <3> QED BY <1>1, <1>2, <1>4, <3>1 DEF EncodedEnds
  <2> QED BY <2>1 DEF EncodedEnds
<1>12. Delivered' /\ GraphsOk(graph, decoded)'
  BY <1>2, <1>4 DEF Delivered
<1> QED BY <1>7, <1>8, <1>9, <1>10, <1>11, <1>12, Zenon DEF IInv

LEMMA EofStep ==
    ASSUME IInv, input_eof
    PROVE  IInv'
<1>1. /\ Types /\ GraphsOk(graph, decoded) /\ Counts /\ Control
      /\ GraphEnds /\ Copies /\ EncodedEnds
  BY InvParts
<1>2. /\ pc = "ended" /\ pc' = "loop"
      /\ eof_reached' = [eof_reached EXCEPT ![file] = TRUE]
      /\ unavailable' = [unavailable EXCEPT ![out] = @ \/ eagain[file]]
      /\ UNCHANGED <<file, out, ist, max_frames, packets, held, decoded, over,
                     eagain, graph, initialized, inputs_done, finished,
                     frame_number, first, changes, received_sigterm>>
  BY Zenon DEF input_eof, EndOf, where, streams, ends
<1>3. /\ eof_reached' \in [Files -> BOOLEAN]
      /\ \A f \in Files : Ended(f)' => Ended(f)
  <2>1. eof_reached \in [Files -> BOOLEAN] /\ file \in Files
    BY <1>1 DEF Types
  <2>2. \A f \in Files : eof_reached'[f] => eof_reached[f] \/ f = file
    BY <1>2, <2>1
  <2> QED BY <1>2, <2>1, <2>2 DEF Ended
<1>4. Types'
  <2> DEFINE b == unavailable[out] \/ eagain[file]
  <2>1. unavailable \in [Outputs -> BOOLEAN] /\ b \in BOOLEAN
    BY <1>1 DEF Types
  <2>2. unavailable' = [unavailable EXCEPT ![out] = b]
    BY <1>2
  <2> HIDE DEF b
  <2>3. unavailable' \in [Outputs -> BOOLEAN]
    BY <2>1, <2>2, BooleanUpdate
  <2> QED BY <1>1, <1>2, <1>3, <2>3 DEF Types
<1>5. Counts' /\ Control'
  BY <1>1, <1>2 DEF Counts, Control, Decoding
<1>6. GraphEnds'
  BY <1>1, <1>2, <1>3, NumbersOfOutputs DEF GraphEnds
<1>7. Copies'
  BY <1>1, <1>2, <1>3, NumbersOfOutputs DEF Copies, Handed, AtLimit, Uncopied
<1>8. EncodedEnds' /\ Delivered' /\ GraphsOk(graph, decoded)'
  BY <1>1, <1>2 DEF EncodedEnds, Delivered, GraphsOk
<1> QED BY <1>4, <1>5, <1>6, <1>7, <1>8, Zenon DEF IInv

-----------------------------------------------------------------------------
(* The invariant                                                            *)

LEMMA InitInv == Init => IInv
<1> SUFFICES ASSUME Init
             PROVE  IInv
  OBVIOUS
<1>1. Types
  <2>1. /\ [i \in Streams |-> 0] \in [Streams -> Nat]
        /\ [i \in Streams |-> 0] \in [Streams -> 0..MaxPackets]
        /\ [f \in Files |-> FALSE] \in [Files -> BOOLEAN]
        /\ [o \in Outputs |-> FALSE] \in [Outputs -> BOOLEAN]
        /\ [o \in Outputs |-> o \in Copied] \in [Outputs -> BOOLEAN]
        /\ [o \in Outputs |-> 0] \in [Outputs -> Nat]
        /\ [o \in Copied |-> 0] \in [Copied -> 0..MaxPackets]
        /\ 0 \in 0..MaxChanges /\ 1 \in Outputs
    BY TranscodeAssumption DEF Outputs
  <2> QED BY <2>1 DEF Init, Types
<1>2. GraphsOk(graph, decoded)
  <2>1. graph = [o \in Encoded |-> NewGraph(Inputs[o])]
    BY DEF Init
  <2>2. ASSUME NEW o \in Encoded
        PROVE  /\ GraphOk(graph[o], Inputs[o])
               /\ \A i \in Inputs[o] : InputOk(graph[o], i, decoded[i])
    <3>1. graph[o] = NewGraph(Inputs[o]) /\ Inputs[o] \subseteq Streams
      BY <2>1, NumbersOfOutputs
    <3>2. \A i \in Inputs[o] : decoded[i] = 0
      BY <3>1 DEF Init
    <3> QED BY <3>1, <3>2, NewGraphOk
  <2>3. graph = [o \in Encoded |-> graph[o]]
    BY <2>1
  <2> QED BY <2>2, <2>3, Zenon DEF GraphsOk
<1>3. Counts
  <2>1. ASSUME NEW i \in Streams
        PROVE  held[i] = 0 /\ decoded[i] = 0 /\ packets[i] = 0
    BY DEF Init
  <2>2. 0 + 0 = 0 /\ ~(0 > Delay)
    BY TranscodeAssumption
  <2> QED BY <2>1, <2>2, Zenon DEF Counts
<1>4. Control /\ EncodedEnds /\ Delivered
  BY NumbersOfOutputs DEF Init, Control, EncodedEnds, Delivered
<1>5. GraphEnds
  <2>1. ASSUME NEW o \in Encoded, NEW i \in Inputs[o]
        PROVE  /\ ~Ended(FileOf[i]) /\ graph[o].eof = {}
    <3>1. FileOf[i] \in Files /\ Inputs[o] \subseteq Streams
      BY NumbersOfOutputs
    <3>2. graph[o] = NewGraph(Inputs[o])
      BY DEF Init
    <3> QED BY <3>1, <3>2, NewGraphOk DEF Init, Ended
  <2> QED BY <2>1 DEF GraphEnds
<1>6. Copies
  <2>1. ASSUME NEW o \in Copied
        PROVE  /\ initialized[o] /\ ~Ended(FileOf[Source[o]]) /\ ~finished[o]
               /\ Handed(o)
    <3>1. o \in Outputs /\ Source[o] \in Streams /\ FileOf[Source[o]] \in Files
      BY NumbersOfOutputs
    <3>2. initialized[o] /\ ~Ended(FileOf[Source[o]]) /\ ~finished[o]
      BY <3>1 DEF Init, Ended
    <3>3. frame_number[o] = 0 /\ ~(0 > 0)
      BY <3>1 DEF Init
    <3> QED BY <3>2, <3>3 DEF Handed
  <2> QED BY <2>1 DEF Copies
<1> QED BY <1>1, <1>2, <1>3, <1>4, <1>5, <1>6, Zenon DEF IInv

LEMMA StutterStep ==
    ASSUME IInv, UNCHANGED vars
    PROVE  IInv'
<1>1. UNCHANGED <<pc, file, out, ist, max_frames, packets, held, decoded, over,
                  eagain, eof_reached, graph, initialized, unavailable,
                  inputs_done, finished, frame_number, first, changes,
                  received_sigterm>>
  BY Zenon DEF vars, where, streams, files, ends
<1>2. Types' /\ GraphsOk(graph, decoded)' /\ Counts' /\ Control'
  BY <1>1, InvParts DEF Types, GraphsOk, Counts, Control, Decoding
<1>3. GraphEnds' /\ EncodedEnds'
  BY <1>1, InvParts DEF GraphEnds, Ended, EncodedEnds
<1>4. Copies'
  BY <1>1, InvParts DEF Copies, Handed, Ended, AtLimit, Uncopied
<1>5. Delivered'
  BY <1>1, InvParts DEF Delivered, AtLimit
<1> QED BY <1>2, <1>3, <1>4, <1>5, Zenon DEF IInv

LEMMA NextInv == IInv /\ [Next]_vars => IInv'
<1> SUFFICES ASSUME IInv, [Next]_vars
             PROVE  IInv'
  OBVIOUS
<1>1. CASE sigterm
  BY <1>1, SigtermStep
<1>2. CASE no_more_output
  BY <1>2, NoMoreStep
<1>3. CASE wait_for_input
  BY <1>3, WaitStep
<1>4. CASE transcode_step
  BY <1>4, TranscodeStep
<1>5. CASE input_eagain
  BY <1>5, EagainStep
<1>6. CASE process_input
  BY <1>6, PacketStep, DecodeStep, StreamcopyStep, DrainFrameStep, DrainedStep,
     EofStep DEF process_input
<1>7. CASE push_frame
  BY <1>7, PushStep
<1>8. CASE reap_filters
  BY <1>8, ReapFiltersStep
<1>9. CASE UNCHANGED vars
  BY <1>9, StutterStep
<1> QED BY <1>1, <1>2, <1>3, <1>4, <1>5, <1>6, <1>7, <1>8, <1>9 DEF Next

LEMMA Invariance == Spec => []IInv
<1> QED BY InitInv, NextInv, PTL DEF Spec

-----------------------------------------------------------------------------
(* The theorems                                                             *)

LEMMA InvTypes == IInv => TypeOK
<1> SUFFICES ASSUME IInv
             PROVE  TypeOK
  OBVIOUS
<1>1. Types /\ GraphsOk(graph, decoded) /\ Counts
  BY InvParts
<1>2. ASSUME NEW i \in Streams
      PROVE  held[i] \in 0..(Delay + 1) /\ decoded[i] \in 0..MaxPackets
  <2>1. /\ held[i] \in Nat /\ decoded[i] \in Nat /\ Delay \in Nat
        /\ packets[i] \in 0..MaxPackets /\ MaxPackets \in Nat
    BY <1>1, TranscodeAssumption DEF Types
  <2>2. held[i] > Delay => held[i] = Delay + 1
    BY <1>1 DEF Counts
  <2>3. held[i] + decoded[i] = packets[i] \/ held[i] + decoded[i] = 0
    BY <1>1 DEF Counts
  <2> QED BY <2>1, <2>2, <2>3
<1>3. held \in [Streams -> 0..(Delay + 1)] /\ decoded \in [Streams -> 0..MaxPackets]
  <2>1. held \in [Streams -> Nat] /\ decoded \in [Streams -> Nat]
    BY <1>1 DEF Types
  <2> QED BY <1>2, <2>1
<1>4. inputs_done \in [Outputs -> BOOLEAN]
  BY <1>1 DEF Types
<1>5. \A o \in Encoded : IsGraph(graph[o], Inputs[o])
  BY <1>1 DEF GraphsOk, GraphOk
<1> QED BY <1>1, <1>3, <1>4, <1>5 DEF Types, TypeOK

\* Every variable keeps its type: a decoder never holds more than one frame
\* beyond its delay nor gives more frames than there are packets, and a graph
\* only ever knows, shuts and asks inputs of its own.
THEOREM TypeCorrect == Spec => []TypeOK
<1> QED BY Invariance, InvTypes, PTL

\* A file is read only until its end has been dealt with.
OnlyOpenFilesRead == pc = "input" => ~eof_reached[file]

LEMMA InvOpen == IInv => OnlyOpenFilesRead
  BY InvParts DEF Control, OnlyOpenFilesRead

\* process_input is never called for a file whose end has been dealt with,
\* whichever output choose_output picked and however it came to want a frame.
THEOREM OpenFilesRead == Spec => []OnlyOpenFilesRead
<1> QED BY Invariance, InvOpen, PTL

LEMMA InvGivenUp == IInv => NoOutputGivenUp
  BY InvParts DEF Types, NoOutputGivenUp

\* transcode_step never sets inputs_done: as long as a format is missing, some
\* input of the graph can be read for it.
THEOREM NoneGivenUp == Spec => []NoOutputGivenUp
<1> QED BY Invariance, InvGivenUp, PTL

LEMMA InvOrder == IInv => FramesInOrder
<1> SUFFICES ASSUME IInv, NEW o \in Encoded, NEW i \in Inputs[o]
             PROVE  LET inside == graph[o].src[i] \o graph[o].wait[i]
                        before == decoded[i] - Len(inside)
                    IN  /\ \A k \in 1..Len(inside) : inside[k] = before + k
                        /\ graph[o].used[i] + graph[o].lost[i] = before
  BY Zenon DEF FramesInOrder
<1> DEFINE src  == graph[o].src[i]
           wait == graph[o].wait[i]
           used == graph[o].used[i] + graph[o].lost[i]
           n    == decoded[i]
           inside == src \o wait
<1>1. /\ GraphOk(graph[o], Inputs[o]) /\ InputOk(graph[o], i, n)
      /\ i \in Streams /\ n \in Nat
  BY InvParts, NumbersOfOutputs DEF GraphsOk, Types
<1>2. src \in Seq(Nat) /\ wait \in Seq(Nat) /\ used \in Nat
  BY <1>1, GraphFields DEF Frames
<1>3. src = <<>> \/ wait = <<>>
  <2>1. graph[o].wait = Nothing \/ graph[o].src = Nothing
    BY <1>1, GraphFields
  <2>2. Nothing[i] = <<>>
    BY <1>1 DEF Nothing
  <2> QED BY <2>1, <2>2
<1>4. /\ Numbered(src, n) /\ Numbered(wait, n)
      /\ used + (Len(src) + Len(wait)) = n
  BY <1>1, Zenon DEF InputOk
<1> HIDE DEF src, wait, used, n
<1>5. /\ Len(inside) = Len(src) + Len(wait)
      /\ inside = src \/ inside = wait
  <2>1. Len(inside) = Len(src) + Len(wait)
    BY <1>2
  <2>2. /\ src \o <<>> = src
        /\ <<>> \o wait = wait
    BY <1>2, ConcatEmptySeq
  <2> QED BY <1>3, <2>1, <2>2
<1>6. Numbered(inside, n)
  <2> HIDE DEF inside
  <2> QED BY <1>4, <1>5
<1> DEFINE l == Len(inside)
<1>7. l \in Nat /\ used + l = n
  BY <1>2, <1>4, <1>5
<1>8. \A k \in 1..l : inside[k] = (n - l) + k
  BY <1>6, Zenon DEF Numbered
<1> HIDE DEF l, inside
<1>9. used = n - l
  BY <1>1, <1>2, <1>7 DEF n
<1> QED BY <1>8, <1>9, Zenon DEF l, inside, src, wait, used, n

\* Frames reach each graph in the order of decoding and once each, whether they
\* waited for it or not; only building it anew loses frames, those inside.
THEOREM FramesOrdered == Spec => []FramesInOrder
<1> QED BY Invariance, InvOrder, PTL

LEMMA InvEnds == IInv => EndsReachGraphs
<1> SUFFICES ASSUME IInv, NEW o \in Encoded, NEW i \in Inputs[o],
                    eof_reached[FileOf[i]]
             PROVE  /\ i \in graph[o].known
                    /\ graph[o].built => i \in graph[o].shut
  BY DEF EndsReachGraphs
<1>1. GraphOk(graph[o], Inputs[o]) /\ i \in graph[o].eof
  BY InvParts DEF GraphsOk, GraphEnds, Ended
<1> QED BY <1>1, GraphFields

\* Once process_input has dealt with the end of a file, every graph fed from it
\* has got the end, however often it was built before or is built later.
THEOREM EndsToldToGraphs == Spec => []EndsReachGraphs
<1> QED BY Invariance, InvEnds, PTL
=============================================================================
