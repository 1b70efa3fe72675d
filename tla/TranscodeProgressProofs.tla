---------------------- MODULE TranscodeProgressProofs ----------------------
(* Proofs about the progress of Transcode: what an unavailable output waits *)
(* for, that no step of the main loop is in vain, and that what goes in has *)
(* come out when the loop ends.                                             *)
EXTENDS TranscodeProofs

-----------------------------------------------------------------------------
(* Outputs that wait                                                        *)

\* The files an output gets its packets from.
FilesOf(o) == {FileOf[i] : i \in IF o \in Copied THEN {Source[o]} ELSE Inputs[o]}

\* The file at hand is one that the output at hand needs, and its end has not
\* been dealt with yet.
AtHand ==
    /\ pc \in {"input", "ended"} => file \in FilesOf(out)
    /\ pc = "ended" => ~eof_reached[file]

\* An output is only unavailable while a file it needs says EAGAIN: were it
\* set for any other reason, choose_output could hide the outputs behind it and
\* the loop sleep for an input that is ready.
UnavailableMeansEagain ==
    \A o \in Outputs : unavailable[o] => \E f \in FilesOf(o) : eagain[f]

WInv == AtHand /\ UnavailableMeansEagain

LEMMA FilesOfOutputs ==
    ASSUME NEW o \in Outputs
    PROVE  /\ FilesOf(o) \subseteq Files
           /\ o \in Copied => FileOf[Source[o]] \in FilesOf(o)
           /\ o \in Encoded => \A i \in Inputs[o] : FileOf[i] \in FilesOf(o)
  BY NumbersOfOutputs DEF FilesOf

\* A step that leaves the flags alone.
LEMMA SameFlags ==
    ASSUME WInv, UNCHANGED <<eagain, unavailable>>, AtHand'
    PROVE  WInv'
<1>1. eagain' = eagain /\ unavailable' = unavailable
  OBVIOUS
<1>2. UnavailableMeansEagain'
  BY <1>1, Zenon DEF WInv, UnavailableMeansEagain, FilesOf
<1> QED BY <1>2, Zenon DEF WInv

\* A step that has nothing at hand, or the same thing as before.
LEMMA SameAtHand ==
    ASSUME WInv, \/ pc' \notin {"input", "ended"}
                 \/ UNCHANGED <<pc, file, out, eof_reached>>
    PROVE  AtHand'
  BY DEF WInv, AtHand, FilesOf

\* A step that resets the flags.
LEMMA ResetFlags ==
    ASSUME unavailable' = [o \in Outputs |-> FALSE],
           pc' \notin {"input", "ended"}
    PROVE  WInv'
  BY DEF WInv, AtHand, UnavailableMeansEagain

\* A step that reads file f for output o.
LEMMA ReadAtHand ==
    ASSUME NEW o, NEW f \in FilesOf(o), Read(o, f)
    PROVE  AtHand'
  BY DEF Read, AtHand, FilesOf

LEMMA AsksWaits ==
    ASSUME IInv, WInv, pc = "loop", NEW o, filter_asks(o)
    PROVE  WInv'
<1>1. HasGraph(o)
  BY DEF filter_asks
<1>2. /\ o \in Encoded /\ o \in Outputs
      /\ GraphOk(Built(o), Inputs[o]) /\ Built(o).built
      /\ Built(o).eof = graph[o].eof
  BY <1>1, BuiltOk
<1>3. PICK r \in (SUBSET Hungry(Built(o))) \ {{}} :
          LET g == Asked(Built(o), r)
              best == {i \in g.asked : MayRead(i)}
          IN  /\ graph' = With(g, o)
              /\ \/ \E i \in best : Read(o, FileOf[i]) /\ UNCHANGED unavailable
                 \/ /\ best = {}
                    /\ unavailable' = [unavailable EXCEPT ![o] = TRUE]
                    /\ UNCHANGED <<pc, where>>
  BY Zenon DEF filter_asks
<1> DEFINE g == Asked(Built(o), r)
<1>4. r \subseteq Inputs[o] /\ r # {} /\ \A i \in r : i \notin Built(o).shut
  <2>1. Built(o).inputs = Inputs[o]
    BY <1>2, GraphFields
  <2>2. r \subseteq Hungry(Built(o)) /\ r # {}
    OBVIOUS
  <2> QED BY <2>1, <2>2 DEF Hungry
<1>5. g.asked \subseteq Inputs[o] /\ r \subseteq g.asked
  <2>1. g.asked \subseteq Inputs[o]
    BY <1>2, <1>4, AskedOk
  <2>2. IsRecord(Built(o))
    BY <1>2, RecordOfGraph
  <2>3. g.asked = Built(o).asked \cup r
    BY <2>2 DEF Asked, IsRecord, FieldNames
  <2> QED BY <2>1, <2>3
<1>6. eagain' = eagain
  BY DEF filter_asks, files
<1>7. CASE \E i \in g.asked : Read(o, FileOf[i]) /\ UNCHANGED unavailable
  <2>1. PICK i \in g.asked : Read(o, FileOf[i]) /\ UNCHANGED unavailable
    BY <1>7
  <2>2. FileOf[i] \in FilesOf(o)
    BY <1>2, <1>5, FilesOfOutputs
  <2>3. AtHand'
    BY <2>1, <2>2, ReadAtHand
  <2> QED BY <1>6, <2>1, <2>3, SameFlags
<1>8. CASE /\ \A i \in g.asked : ~MayRead(i)
           /\ unavailable' = [unavailable EXCEPT ![o] = TRUE]
           /\ UNCHANGED <<pc, where>>
  <2>1. PICK i \in r : TRUE
    BY <1>4
  <2>2. ~MayRead(i) /\ i \in Inputs[o]
    BY <1>4, <1>5, <1>8, <2>1
  <2>3. ~eof_reached[FileOf[i]]
    <3>1. i \notin graph[o].eof
      BY <1>2, <1>4, <2>1, GraphFields
    <3>2. GraphEnds
      BY InvParts
    <3> QED BY <1>2, <2>2, <3>1, <3>2 DEF GraphEnds, Ended
  <2>4. eagain[FileOf[i]] /\ FileOf[i] \in FilesOf(o)
    BY <1>2, <2>2, <2>3, FilesOfOutputs DEF MayRead
  <2>5. \A p \in Outputs : unavailable'[p] => unavailable[p] \/ p = o
    <3>1. unavailable \in [Outputs -> BOOLEAN]
      BY InvParts DEF Types
    <3> QED BY <1>8, <3>1
  <2>6. UnavailableMeansEagain'
    BY <1>6, <2>4, <2>5 DEF WInv, UnavailableMeansEagain, FilesOf
  <2>7. pc' \notin {"input", "ended"}
    BY <1>8
  <2>8. AtHand'
    BY <2>7, SameAtHand
  <2> QED BY <2>6, <2>8 DEF WInv
<1> QED BY <1>3, <1>7, <1>8

LEMMA TranscodeWaits ==
    ASSUME IInv, WInv, transcode_step
    PROVE  WInv'
<1> DEFINE o == choose_output
<1>1. /\ pc = "loop" /\ need_output /\ o # 0
      /\ copy_step(o) \/ format_step(o) \/ filter_frame(o) \/ filter_eof(o)
         \/ filter_asks(o)
  BY Zenon DEF transcode_step
<1>2. o \in Outputs
  BY <1>1, Chosen
<1> HIDE DEF o
<1>3. CASE copy_step(o)
  <2>1. FileOf[Source[o]] \in FilesOf(o)
    BY <1>2, <1>3, FilesOfOutputs DEF copy_step
  <2>2. AtHand'
    BY <1>3, <2>1, ReadAtHand DEF copy_step
  <2> QED BY <1>3, <2>2, SameFlags DEF copy_step, files
<1>4. CASE format_step(o)
  <2>1. o \in Encoded /\ ~HasAllFormats(graph[o])
    BY <1>4 DEF format_step
  <2>2. Unfed(o) # {} /\ Unfed(o) \subseteq Nat
    BY <2>1, SomeUnfed, NumbersOfOutputs DEF Unfed
  <2>3. First(Unfed(o)) \in Inputs[o]
    BY <2>2, FirstIsLeast DEF Unfed
  <2>4. FileOf[First(Unfed(o))] \in FilesOf(o)
    BY <1>2, <2>1, <2>3, FilesOfOutputs
  <2>5. AtHand'
    BY <1>4, <2>2, <2>4, ReadAtHand DEF format_step
  <2> QED BY <1>4, <2>5, SameFlags DEF format_step, files
<1>5. CASE filter_frame(o)
  BY <1>5, SameAtHand, SameFlags DEF filter_frame, where, files
<1>6. CASE filter_eof(o)
  BY <1>6, SameAtHand, SameFlags DEF filter_eof, where, files
<1>7. CASE filter_asks(o)
  BY <1>1, <1>7, AsksWaits
<1> QED BY <1>1, <1>3, <1>4, <1>5, <1>6, <1>7

LEMMA EagainWaits ==
    ASSUME IInv, WInv, input_eagain
    PROVE  WInv'
<1>1. Types
  BY InvParts
<1>2. eagain'[file] /\ \A f \in Files : eagain[f] => eagain'[f]
  BY <1>1 DEF Types, input_eagain
<1>3. \A p \in Outputs : unavailable'[p] => unavailable[p] \/ p = out
  BY <1>1 DEF Types, input_eagain
<1>4. file \in FilesOf(out)
  BY DEF WInv, AtHand, input_eagain
<1>5. UnavailableMeansEagain'
  <2>1. ASSUME NEW o \in Outputs, unavailable'[o]
        PROVE  \E f \in FilesOf(o) : eagain'[f]
    <3>1. CASE o = out
      BY <1>2, <1>4, <3>1
    <3>2. CASE o # out
      <4>1. PICK f \in FilesOf(o) : eagain[f]
        BY <1>3, <2>1, <3>2 DEF WInv, UnavailableMeansEagain
      <4> QED BY <1>2, <4>1, FilesOfOutputs
    <3> QED BY <3>1, <3>2
  <2> QED BY <2>1 DEF UnavailableMeansEagain, FilesOf
<1>6. AtHand'
  BY SameAtHand DEF input_eagain
<1> QED BY <1>5, <1>6 DEF WInv

LEMMA EofWaits ==
    ASSUME IInv, WInv, input_eof
    PROVE  WInv'
<1>1. \A p \in Outputs : unavailable'[p] =>
         unavailable[p] \/ (p = out /\ eagain[file])
  BY InvParts DEF Types, input_eof
<1>2. file \in FilesOf(out) /\ eagain' = eagain
  BY DEF WInv, AtHand, input_eof
<1>3. UnavailableMeansEagain'
  BY <1>1, <1>2 DEF WInv, UnavailableMeansEagain, FilesOf
<1>4. AtHand'
  BY SameAtHand DEF input_eof
<1> QED BY <1>3, <1>4 DEF WInv

LEMMA NextWaits == IInv /\ WInv /\ [Next]_vars => WInv'
<1> SUFFICES ASSUME IInv, WInv, [Next]_vars
             PROVE  WInv'
  OBVIOUS
<1>1. CASE sigterm
  BY <1>1, SameAtHand, SameFlags DEF sigterm, files
<1>2. CASE no_more_output
  BY <1>2, SameAtHand, SameFlags DEF no_more_output, files
<1>3. CASE wait_for_input
  BY <1>3, ResetFlags DEF wait_for_input
<1>4. CASE transcode_step
  BY <1>4, TranscodeWaits
<1>5. CASE input_eagain
  BY <1>5, EagainWaits
<1>6. CASE process_input
  <2>1. CASE input_packet
    BY <2>1, ResetFlags DEF input_packet
  <2>2. CASE decode_frame
    BY <2>2, SameAtHand, SameFlags DEF decode_frame, where, files
  <2>3. CASE do_streamcopy
    BY <2>3, SameAtHand, SameFlags DEF do_streamcopy, files
  <2>4. CASE drain_frame
    BY <2>4, SameAtHand, SameFlags DEF drain_frame
  <2>5. CASE drained
    <3>1. ~eof_reached[file] /\ file \in FilesOf(out)
      BY <2>5, InvParts DEF Control, drained, WInv, AtHand
    <3>2. AtHand'
      BY <2>5, <3>1 DEF AtHand, drained, where, FilesOf
    <3> QED BY <2>5, <3>2, SameFlags DEF drained
  <2>6. CASE input_eof
    BY <2>6, EofWaits
  <2> QED BY <1>6, <2>1, <2>2, <2>3, <2>4, <2>5, <2>6 DEF process_input
<1>7. CASE push_frame
  BY <1>7, SameAtHand, SameFlags DEF push_frame, where, files
<1>8. CASE reap_filters
  BY <1>8, SameAtHand, SameFlags DEF reap_filters, files
<1>9. CASE UNCHANGED vars
  BY <1>9, SameAtHand, SameFlags DEF vars, where, files
<1> QED BY <1>1, <1>2, <1>3, <1>4, <1>5, <1>6, <1>7, <1>8, <1>9 DEF Next

LEMMA InitWaits == Init => WInv
  BY DEF Init, WInv, AtHand, UnavailableMeansEagain

LEMMA Waits == Spec => []WInv
<1> QED BY Invariance, InitWaits, NextWaits, PTL DEF Spec

LEMMA WaitsForEagain == WInv => UnavailableMeansEagain
  BY DEF WInv

\* An output that choose_output finds unavailable needs a file that has said
\* EAGAIN since the flags were last reset.
THEOREM WaitsOnlyForInput == Spec => []UnavailableMeansEagain
<1> QED BY Waits, WaitsForEagain, PTL

-----------------------------------------------------------------------------
(* What the operations of a graph do to the frames it used and made         *)

\* The frames made and not reaped yet: none before the graph is built.
Made(g) == IF g.built THEN g.sink ELSE 0

LEMMA ReapedUse ==
    ASSUME NEW g, NEW J, GraphOk(g, J)
    PROVE  /\ Reaped(g).used = g.used /\ Reaped(g).sink = 0
           /\ Reaped(g).lost = g.lost /\ Made(Reaped(g)) = 0
<1>1. Reaped(g).used = g.used /\ Reaped(g).sink = 0 /\ Reaped(g).lost = g.lost
  BY RecordOfGraph DEF IsRecord, FieldNames, Reaped
<1> QED BY <1>1 DEF Made

LEMMA SendEofUse ==
    ASSUME NEW g, NEW J, GraphOk(g, J), NEW is
    PROVE  /\ SendEof(g, is).used = g.used /\ SendEof(g, is).sink = g.sink
           /\ SendEof(g, is).lost = g.lost /\ Made(SendEof(g, is)) = Made(g)
<1>1. /\ SendEof(g, is).used = g.used /\ SendEof(g, is).sink = g.sink
      /\ SendEof(g, is).lost = g.lost /\ SendEof(g, is).built = g.built
  BY RecordOfGraph DEF IsRecord, FieldNames, SendEof
<1> QED BY <1>1 DEF Made

LEMMA AskedUse ==
    ASSUME NEW g, NEW J, GraphOk(g, J), NEW r
    PROVE  /\ Asked(g, r).used = g.used /\ Asked(g, r).sink = g.sink
           /\ Asked(g, r).lost = g.lost /\ Made(Asked(g, r)) = Made(g)
<1>1. /\ Asked(g, r).used = g.used /\ Asked(g, r).sink = g.sink
      /\ Asked(g, r).lost = g.lost /\ Asked(g, r).built = g.built
  BY RecordOfGraph DEF IsRecord, FieldNames, Asked
<1> QED BY <1>1 DEF Made

LEMMA ConfiguredUse ==
    ASSUME NEW g, NEW J, GraphOk(g, J)
    PROVE  /\ Configured(g).used = g.used /\ Configured(g).sink = 0
           /\ Made(Configured(g)) = 0
           /\ Configured(g).lost = Lost(g)
<1> DEFINE lost == Lost(g)
<1>1. Configured(g) = [g EXCEPT !.built = TRUE, !.src = g.wait, !.wait = Nothing,
                                !.shut = g.eof, !.asked = {}, !.sink = 0,
                                !.lost = lost]
  BY Zenon DEF Configured
<1> HIDE DEF lost
<1>2. /\ Configured(g).used = g.used /\ Configured(g).sink = 0
      /\ Configured(g).built /\ Configured(g).lost = lost
  BY <1>1, RecordOfGraph DEF IsRecord, FieldNames
<1> QED BY <1>2 DEF lost, Made

\* A graph that holds no frame loses none by being built.
LEMMA NoneLostUnbuilt ==
    ASSUME NEW g, NEW J, GraphOk(g, J), ~g.built
    PROVE  \A i \in Streams : Lost(g)[i] = g.lost[i]
<1>1. \A i \in Streams : g.src[i] = <<>> /\ g.lost[i] \in Nat
  <2>1. g.src = Nothing /\ g.lost \in [Streams -> Nat]
    BY GraphFields
  <2> QED BY <2>1 DEF Nothing
<1>2. Len(<<>>) = 0
  OBVIOUS
<1>3. \A n \in Nat : n + 0 = n
  OBVIOUS
<1>4. \A i \in Streams : Lost(g)[i] = g.lost[i] + Len(g.src[i])
  BY DEF Lost
<1> QED BY <1>1, <1>2, <1>3, <1>4

\* A frame in takes none out; frames are lost when parameters change.
LEMMA SendFrameUse ==
    ASSUME NEW g, NEW J, J \subseteq Streams, GraphOk(g, J), NEW i \in J,
           NEW n, NEW changed
    PROVE  LET h == SendFrame(g, i, n, changed)
           IN  /\ h.used = g.used /\ (h.sink = g.sink \/ h.sink = 0)
               /\ ~changed => \A j \in J : h.lost[j] = g.lost[j]
               /\ Made(h) = IF Builds(g, i, changed) THEN 0 ELSE Made(g)
<1> DEFINE k == [g EXCEPT !.known = @ \cup {i}]
           c == Configured(k)
           h == SendFrame(g, i, n, changed)
<1>1. /\ GraphOk(k, J) /\ k.inputs = J /\ k.known = g.known \cup {i}
      /\ k.built = g.built
  BY KnownOk
<1>2. /\ k.used = g.used /\ k.sink = g.sink /\ k.lost = g.lost
      /\ k.built = g.built
  BY RecordOfGraph DEF IsRecord, FieldNames
<1>3. h = IF Builds(g, i, changed) THEN Fed(c, i, n)
          ELSE IF ~g.built THEN Waiting(k, i, n) ELSE Fed(k, i, n)
  BY Zenon DEF SendFrame, Waiting
<1>4. ASSUME NEW f, IsRecord(f)
      PROVE  /\ Fed(f, i, n).used = f.used /\ Fed(f, i, n).sink = f.sink
             /\ Waiting(f, i, n).used = f.used /\ Waiting(f, i, n).sink = f.sink
             /\ Fed(f, i, n).lost = f.lost /\ Fed(f, i, n).built = f.built
             /\ Waiting(f, i, n).lost = f.lost /\ Waiting(f, i, n).built = f.built
  BY <1>4 DEF IsRecord, FieldNames, Fed, Waiting
<1>5. IsRecord(k)
  BY <1>1, RecordOfGraph
<1>6. ASSUME Builds(g, i, changed)
      PROVE  /\ IsRecord(c) /\ c.used = k.used /\ c.sink = 0
             /\ c.lost = Lost(k) /\ Made(c) = 0
  <2>1. g.inputs = J
    BY GraphFields
  <2>2. k.known = J
    BY <1>1, <1>6, <2>1 DEF Builds
  <2> HIDE DEF k
  <2>3. GraphOk(c, J)
    BY <1>1, <2>2, ConfiguredOk
  <2> QED BY <1>1, <2>3, RecordOfGraph, ConfiguredUse
<1> HIDE DEF k, c, h
<1>7. h.used = g.used /\ (h.sink = g.sink \/ h.sink = 0)
  BY <1>2, <1>3, <1>4, <1>5, <1>6
<1>8. Made(h) = IF Builds(g, i, changed) THEN 0 ELSE Made(g)
  BY <1>2, <1>3, <1>4, <1>5, <1>6 DEF Made
<1>9. ASSUME ~changed, NEW j \in J
      PROVE  h.lost[j] = g.lost[j]
  <2>1. CASE Builds(g, i, changed)
    <3>1. ~g.built \/ i \notin g.known
      BY <1>9, <2>1 DEF Builds
    <3>2. g.built => g.known = J
      BY GraphFields
    <3>3. ~k.built
      BY <1>2, <3>1, <3>2
    <3>4. Lost(k)[j] = k.lost[j]
      BY <1>1, <3>3, NoneLostUnbuilt
    <3>5. h.lost = Lost(k)
      BY <1>3, <1>4, <1>6, <2>1
    <3> QED BY <1>2, <3>4, <3>5
  <2>2. CASE ~Builds(g, i, changed)
    BY <1>2, <1>3, <1>4, <1>5, <2>2
  <2> QED BY <2>1, <2>2
<1> QED BY <1>7, <1>8, <1>9, Zenon DEF h

\* A graph that is ready takes at least one frame and puts none back.
LEMMA FilteredUse ==
    ASSUME NEW g, NEW J, J \subseteq Streams, GraphOk(g, J), Ready(g)
    PROVE  /\ \A i \in J : g.used[i] <= Filtered(g).used[i]
           /\ \E i \in J : g.used[i] < Filtered(g).used[i]
           /\ \A i \in J : Filtered(g).used[i] <= g.used[i] + 1
           /\ Made(Filtered(g)) = g.sink + 1 /\ Made(g) = g.sink
           /\ Filtered(g).lost = g.lost
<1> DEFINE src  == [i \in Streams |-> IF g.src[i] = <<>> THEN <<>> ELSE Tail(g.src[i])]
           used == [i \in Streams |-> IF g.src[i] = <<>> THEN g.used[i]
                                                         ELSE g.used[i] + 1]
<1>1. Filtered(g) = [g EXCEPT !.src = src, !.used = used, !.sink = @ + 1]
  BY Zenon DEF Filtered
<1>2. \A i \in Streams : used[i] = IF g.src[i] = <<>> THEN g.used[i] ELSE g.used[i] + 1
  OBVIOUS
<1> HIDE DEF src, used
<1>3. /\ Filtered(g).used = used /\ Filtered(g).sink = g.sink + 1
      /\ Filtered(g).lost = g.lost /\ Filtered(g).built = g.built
  BY <1>1, RecordOfGraph DEF IsRecord, FieldNames
<1>4. g.used \in [Streams -> Nat] /\ g.inputs = J
  BY GraphFields
<1>5. PICK j \in J : g.src[j] # <<>>
  BY <1>4 DEF Ready
<1>6. Made(Filtered(g)) = g.sink + 1 /\ Made(g) = g.sink
  BY <1>3 DEF Made, Ready
<1>7. /\ \A i \in J : g.used[i] <= used[i] /\ used[i] <= g.used[i] + 1
      /\ \E i \in J : g.used[i] < used[i]
  BY <1>2, <1>4, <1>5
<1> QED BY <1>3, <1>6, <1>7

LEMMA BuiltUse ==
    ASSUME IInv, NEW o, HasGraph(o)
    PROVE  /\ Built(o).used = graph[o].used
           /\ Built(o).sink = graph[o].sink \/ Built(o).sink = 0
           /\ Made(Built(o)) = Made(graph[o]) /\ Built(o).sink = Made(graph[o])
           /\ \A i \in Inputs[o] : Built(o).lost[i] = graph[o].lost[i]
<1>1. GraphOk(graph[o], Inputs[o]) /\ Inputs[o] \subseteq Streams
  BY InvParts, NumbersOfOutputs DEF GraphsOk, HasGraph
<1>2. CASE graph[o].built
  BY <1>2 DEF Built, Made
<1>3. CASE ~graph[o].built
  <2>1. Built(o) = Configured(graph[o])
    BY <1>3 DEF Built
  <2>2. /\ Configured(graph[o]).used = graph[o].used
        /\ Configured(graph[o]).sink = 0
        /\ Made(Configured(graph[o])) = 0
        /\ Configured(graph[o]).lost = Lost(graph[o])
    BY <1>1, ConfiguredUse
  <2>3. \A i \in Inputs[o] : Lost(graph[o])[i] = graph[o].lost[i]
    BY <1>1, <1>3, NoneLostUnbuilt
  <2>4. Made(graph[o]) = 0
    BY <1>3 DEF Made
  <2> QED BY <2>1, <2>2, <2>3, <2>4
<1> QED BY <1>2, <1>3

-----------------------------------------------------------------------------
(* Steps that advance                                                       *)

LEMMA Places ==
    /\ pc = "decode" => Left = 5
    /\ pc = "reap" => Left = 4
    /\ pc = "loop" => Left = 3
    /\ pc = "input" => Left = 2
    /\ pc = "ended" => Left = 1
    /\ pc = "done" => Left = 0
    /\ pc' = "decode" => Left' = 5
    /\ pc' = "reap" => Left' = 4
    /\ pc' = "loop" => Left' = 3
    /\ pc' = "input" => Left' = 2
    /\ pc' = "ended" => Left' = 1
    /\ pc' = "done" => Left' = 0
  BY DEF Left

\* The outputs only gain, as in every step.
OutputsKeep ==
    \A o \in Outputs : /\ initialized[o] => initialized'[o]
                       /\ finished[o] => finished'[o]

\* Nothing is lost where nothing is counted.
LEMMA NothingCounted ==
    ASSUME IInv, UNCHANGED <<packets, decoded, eof_reached>>, OutputsKeep,
           \A o \in Encoded : \A i \in Inputs[o] : graph[o].used[i] <= graph'[o].used[i]
    PROVE  LosesNothing
<1>1. /\ packets \in [Streams -> Int]
      /\ decoded \in [Streams -> Nat]
  <2>1. \A n \in 0..MaxPackets : n \in Int
    OBVIOUS
  <2> QED BY <2>1, InvParts DEF Types
<1>2. \A i \in Streams : packets[i] <= packets'[i] /\ decoded[i] <= decoded'[i]
  BY <1>1
<1> QED BY <1>2, Zenon DEF LosesNothing, OutputsKeep

LEMMA UsedNumbers ==
    ASSUME NEW gs, NEW d, GraphsOk(gs, d), NEW o \in Encoded, NEW i \in Inputs[o]
    PROVE  gs[o].used[i] \in Nat
  BY GraphFields, NumbersOfOutputs DEF GraphsOk

\* The same, for the steps that leave the graphs' use alone.
LEMMA NothingUsed ==
    ASSUME IInv, UNCHANGED <<packets, decoded, eof_reached>>, OutputsKeep,
           \A o \in Encoded : graph'[o].used = graph[o].used
    PROVE  LosesNothing
<1>1. \A o \in Encoded : \A i \in Inputs[o] : graph[o].used[i] <= graph'[o].used[i]
  <2>1. GraphsOk(graph, decoded)
    BY InvParts
  <2>2. \A n \in Nat : n <= n
    OBVIOUS
  <2> QED BY <2>1, <2>2, UsedNumbers
<1> QED BY <1>1, NothingCounted

\* The call at hand comes nearer its end, and nothing is put in a sink.
LEMMA NearerTheEnd ==
    ASSUME Left' < Left, unavailable' = unavailable,
           \A o \in Encoded : graph'[o].sink > 0 => graph[o].sink > 0
    PROVE  Advances
<1>1. Tried \subseteq Tried'
  BY DEF Tried
<1>2. InSinks' => InSinks
  BY DEF InSinks
<1> QED BY <1>1, <1>2 DEF Advances

LEMMA SigtermProgress ==
    ASSUME IInv, sigterm
    PROVE  Progress
<1>1. /\ pc = "loop" /\ pc' = "done"
      /\ UNCHANGED <<packets, decoded, eof_reached, graph, initialized,
                     unavailable, finished>>
  BY Zenon DEF sigterm, streams, files, ends
<1>2. LosesNothing
  BY <1>1, NothingUsed DEF OutputsKeep
<1>3. Advances
  BY <1>1, Places, NearerTheEnd
<1> QED BY <1>2, <1>3 DEF Progress

LEMMA NoMoreProgress ==
    ASSUME IInv, no_more_output
    PROVE  Progress
<1>1. /\ pc = "loop" /\ pc' = "done"
      /\ UNCHANGED <<packets, decoded, eof_reached, graph, initialized, unavailable>>
      /\ finished' = [o \in Outputs |-> TRUE]
  BY Zenon DEF no_more_output, streams, files
<1>2. LosesNothing
  BY <1>1, NothingUsed DEF OutputsKeep
<1>3. Advances
  BY <1>1, Places, NearerTheEnd
<1> QED BY <1>2, <1>3 DEF Progress

LEMMA WaitProgress ==
    ASSUME IInv, WInv, wait_for_input
    PROVE  Progress
<1>1. /\ need_output /\ choose_output = 0
      /\ UNCHANGED <<packets, decoded, eof_reached, graph, initialized, finished>>
  BY Zenon DEF wait_for_input, streams, ends
<1>2. LosesNothing
  BY <1>1, NothingUsed DEF OutputsKeep
<1>3. Uninitialized = {}
  <2>1. SUFFICES ASSUME Uninitialized # {}
                 PROVE  FALSE
    OBVIOUS
  <2>2. Uninitialized \subseteq Outputs /\ Uninitialized \subseteq Nat
    BY NumbersOfOutputs DEF Uninitialized
  <2>3. First(Uninitialized) \in Outputs /\ choose_output = First(Uninitialized)
    BY <2>1, <2>2, FirstIsLeast DEF choose_output
  <2>4. 0 \notin Outputs
    BY TranscodeAssumption DEF Outputs
  <2> QED BY <1>1, <2>3, <2>4
<1>4. Least \in Outputs /\ Least # 0
  <2>1. Least \in Unfinished
    BY <1>1, InvParts, DtsAreNumbers, LeastRuns DEF need_output
  <2> QED BY <2>1, TranscodeAssumption DEF Unfinished, Outputs
<1>5. unavailable[Least]
  BY <1>1, <1>3, <1>4 DEF choose_output
<1>6. \E f \in Files : eagain[f]
  BY <1>4, <1>5, FilesOfOutputs DEF WInv, UnavailableMeansEagain
<1> QED BY <1>2, <1>6 DEF Progress

LEMMA CopyProgress ==
    ASSUME IInv, pc = "loop", NEW o \in Outputs, copy_step(o)
    PROVE  Progress
<1>1. /\ pc' = "input"
      /\ UNCHANGED <<packets, decoded, eof_reached, graph, initialized,
                     unavailable, finished>>
  BY Zenon DEF copy_step, Read, streams, files, ends
<1>2. LosesNothing
  BY <1>1, NothingUsed DEF OutputsKeep
<1>3. Advances
  BY <1>1, Places, NearerTheEnd
<1> QED BY <1>2, <1>3 DEF Progress

LEMMA FormatProgress ==
    ASSUME IInv, pc = "loop", NEW o \in Outputs, format_step(o)
    PROVE  Progress
<1>1. Unfed(o) # {}
  BY SomeUnfed DEF format_step
<1>2. /\ pc' = "input"
      /\ UNCHANGED <<packets, decoded, eof_reached, graph, initialized,
                     unavailable, finished>>
  BY <1>1, Zenon DEF format_step, Read, streams, files
<1>3. LosesNothing
  BY <1>2, NothingUsed DEF OutputsKeep
<1>4. Advances
  BY <1>2, Places, NearerTheEnd
<1> QED BY <1>3, <1>4 DEF Progress

\* What reaping does, with the graph of o changed or not.
LEMMA ReapUse ==
    ASSUME IInv, NEW gs, GraphsOk(gs, decoded), Reap(gs)
    PROVE  /\ \A o \in Encoded : /\ graph'[o].used = gs[o].used
                                 /\ graph'[o].sink = 0
           /\ \A o \in Outputs : initialized[o] => initialized'[o]
           /\ \A o \in Encoded : gs[o].built => initialized'[o]
<1>1. \A o \in Encoded : graph'[o] = Reaped(gs[o])
  BY ReapStep
<1>2. \A o \in Encoded : GraphOk(gs[o], Inputs[o])
  BY DEF GraphsOk
<1>3. initialized' = [o \in Outputs |-> \/ initialized[o]
                                        \/ o \in Encoded /\ gs[o].built]
  BY Zenon DEF Reap
<1> QED BY <1>1, <1>2, <1>3, ReapedUse, NumbersOfOutputs

\* The output chosen: either it has no parameters yet, or it still runs and can
\* be tried.
LEMMA ChosenRuns ==
    ASSUME IInv, need_output, choose_output # 0
    PROVE  \/ ~initialized[choose_output]
           \/ ~finished[choose_output] /\ ~unavailable[choose_output]
<1>1. CASE Uninitialized # {}
  <2>1. Uninitialized \subseteq Nat
    BY NumbersOfOutputs DEF Uninitialized
  <2>2. First(Uninitialized) \in Uninitialized
    BY <1>1, <2>1, FirstIsLeast
  <2> QED BY <1>1, <2>2 DEF choose_output, Uninitialized
<1>2. CASE Uninitialized = {}
  <2>1. Least \in Unfinished
    BY InvParts, DtsAreNumbers, LeastRuns DEF need_output
  <2> QED BY <1>2, <2>1 DEF choose_output, Unfinished
<1> QED BY <1>1, <1>2

LEMMA FrameProgress ==
    ASSUME IInv, NEW o, filter_frame(o)
    PROVE  Progress
<1> DEFINE b == Built(o)
           g == IF b.sink > 0 THEN b ELSE Filtered(b)
<1>1. HasGraph(o) /\ (b.sink > 0 \/ Ready(b)) /\ Reap(With(g, o))
  BY Zenon DEF filter_frame
<1>2. /\ o \in Encoded /\ o \in Outputs /\ Inputs[o] \subseteq Streams
      /\ GraphOk(b, Inputs[o])
      /\ \A i \in Inputs[o] : InputOk(b, i, decoded[i])
      /\ b.used = graph[o].used
      /\ b.sink = graph[o].sink \/ b.sink = 0
  BY <1>1, BuiltOk, BuiltUse, NumbersOfOutputs
<1>3. UNCHANGED <<packets, decoded, eof_reached, finished>>
  BY Zenon DEF filter_frame, streams, files, ends
<1>4. GraphsOk(graph, decoded)
  BY InvParts
<1>5. /\ GraphOk(g, Inputs[o])
      /\ \A i \in Inputs[o] : InputOk(g, i, decoded[i])
      /\ \A i \in Inputs[o] : graph[o].used[i] <= g.used[i]
      /\ \/ graph[o].sink > 0
         \/ \E i \in Inputs[o] : graph[o].used[i] < g.used[i]
  <2>0. \A i \in Inputs[o] : graph[o].used[i] \in Nat
    BY <1>2, <1>4, UsedNumbers
  <2>1. CASE b.sink > 0
    <3>1. g = b
      BY <2>1
    <3>2. \A n \in Nat : n <= n
      OBVIOUS
    <3>3. graph[o].sink > 0
      <4>1. ~(0 > 0)
        OBVIOUS
      <4> QED BY <1>2, <2>1, <4>1
    <3> HIDE DEF b, g
    <3> QED BY <1>2, <2>0, <3>1, <3>2, <3>3
  <2>2. CASE ~(b.sink > 0)
    <3> HIDE DEF b
    <3>1. Ready(b) /\ \A i \in Inputs[o] : decoded[i] \in Nat
      BY <1>1, <1>2, <2>2, InvParts DEF Types
    <3> DEFINE h == Filtered(b)
    <3>2. /\ GraphOk(h, Inputs[o])
          /\ \A i \in Inputs[o] : \A n \in Nat : InputOk(b, i, n) => InputOk(h, i, n)
      BY <1>2, <3>1, FilteredOk
    <3>3. /\ \A i \in Inputs[o] : b.used[i] <= h.used[i]
          /\ \E i \in Inputs[o] : b.used[i] < h.used[i]
      BY <1>2, <3>1, FilteredUse
    <3>4. g = h
      BY <2>2
    <3> HIDE DEF g, h
    <3> QED BY <1>2, <3>1, <3>2, <3>3, <3>4
  <2> QED BY <2>1, <2>2
<1> HIDE DEF b, g
<1>6. /\ GraphsOk(With(g, o), decoded)
      /\ With(g, o)[o] = g
      /\ \A p \in Encoded \ {o} : With(g, o)[p] = graph[p]
  BY <1>2, <1>4, <1>5, WithKeeps
<1>7. /\ \A p \in Encoded : /\ graph'[p].used = With(g, o)[p].used
                            /\ graph'[p].sink = 0
      /\ \A p \in Outputs : initialized[p] => initialized'[p]
  BY <1>1, <1>6, ReapUse
<1>8. \A p \in Encoded : \A i \in Inputs[p] : graph[p].used[i] <= graph'[p].used[i]
  <2>1. ASSUME NEW p \in Encoded, NEW i \in Inputs[p]
        PROVE  graph[p].used[i] <= graph'[p].used[i]
    <3>1. CASE p = o
      BY <1>5, <1>6, <1>7, <3>1
    <3>2. CASE p # o
      <4>1. graph[p].used[i] \in Nat
        BY <1>4, UsedNumbers
      <4>2. graph'[p].used[i] = graph[p].used[i]
        BY <1>6, <1>7, <3>2
      <4> QED BY <4>1, <4>2
    <3> QED BY <3>1, <3>2
  <2> QED BY <2>1
<1>9. LosesNothing
  BY <1>3, <1>7, <1>8, NothingCounted DEF OutputsKeep
<1>10. CASE graph[o].sink > 0
  <2>1. ~InSinks'
    <3>1. ~(0 > 0)
      OBVIOUS
    <3> QED BY <1>7, <3>1 DEF InSinks
  <2>2. InSinks
    BY <1>2, <1>10 DEF InSinks
  <2> QED BY <1>9, <2>1, <2>2 DEF Advances, Progress
<1>11. CASE \E i \in Inputs[o] : graph[o].used[i] < g.used[i]
  <2>1. PICK i \in Inputs[o] : graph[o].used[i] < g.used[i]
    BY <1>11
  <2>2. graph'[o].used = g.used
    BY <1>2, <1>6, <1>7
  <2>3. graph[o].used[i] \in Nat /\ graph'[o].used[i] > graph[o].used[i]
    <3>1. graph[o].used[i] \in Nat /\ g.used[i] \in Nat
      BY <1>2, <1>4, <1>5, UsedNumbers, GraphFields
    <3> QED BY <2>1, <2>2, <3>1
  <2>4. Gains
    BY <1>2, <2>3 DEF Gains
  <2> QED BY <1>9, <2>4 DEF Progress
<1> QED BY <1>5, <1>10, <1>11

LEMMA FilterEofProgress ==
    ASSUME IInv, NEW o, filter_eof(o), ~initialized[o] \/ ~finished[o]
    PROVE  Progress
<1> DEFINE g == Built(o)
<1>1. HasGraph(o) /\ Reap(With(g, o)) /\ finished' = [finished EXCEPT ![o] = TRUE]
  BY Zenon DEF filter_eof
<1>2. /\ o \in Encoded /\ o \in Outputs
      /\ GraphOk(g, Inputs[o]) /\ g.built
      /\ \A i \in Inputs[o] : InputOk(g, i, decoded[i])
      /\ g.used = graph[o].used
  BY <1>1, BuiltOk, BuiltUse
<1> HIDE DEF g
<1>3. UNCHANGED <<packets, decoded, eof_reached>>
  BY Zenon DEF filter_eof, streams, files
<1>4. /\ GraphsOk(With(g, o), decoded)
      /\ With(g, o)[o] = g
      /\ \A p \in Encoded \ {o} : With(g, o)[p] = graph[p]
  BY <1>2, WithKeeps, InvParts
<1>5. /\ \A p \in Encoded : graph'[p].used = With(g, o)[p].used
      /\ \A p \in Outputs : initialized[p] => initialized'[p]
      /\ \A p \in Encoded : With(g, o)[p].built => initialized'[p]
  BY <1>1, <1>4, ReapUse
<1>6. \A p \in Encoded : graph'[p].used = graph[p].used
  BY <1>2, <1>4, <1>5
<1>7. finished'[o] /\ \A p \in Outputs : finished[p] => finished'[p]
  <2>1. finished \in [Outputs -> BOOLEAN]
    BY InvParts DEF Types
  <2> QED BY <1>1, <1>2, <2>1
<1>8. LosesNothing
  BY <1>3, <1>5, <1>6, <1>7, NothingUsed DEF OutputsKeep
<1>9. initialized'[o]
  BY <1>2, <1>4, <1>5
<1>10. Gains
  BY <1>2, <1>7, <1>9 DEF Gains
<1> QED BY <1>8, <1>10 DEF Progress

LEMMA AsksProgress ==
    ASSUME IInv, pc = "loop", NEW o, filter_asks(o),
           ~initialized[o] \/ ~unavailable[o]
    PROVE  Progress
<1>1. /\ HasGraph(o) /\ Built(o).sink = 0
      /\ initialized' = [initialized EXCEPT ![o] = TRUE]
      /\ UNCHANGED <<packets, decoded, eof_reached, finished>>
  BY Zenon DEF filter_asks, streams, files, ends
<1>2. /\ o \in Encoded /\ o \in Outputs
      /\ GraphOk(Built(o), Inputs[o])
      /\ Built(o).used = graph[o].used
  BY <1>1, BuiltOk, BuiltUse
<1>3. PICK r \in (SUBSET Hungry(Built(o))) \ {{}} :
          LET g == Asked(Built(o), r)
              best == {i \in g.asked : MayRead(i)}
          IN  /\ graph' = With(g, o)
              /\ \/ \E i \in best : Read(o, FileOf[i]) /\ UNCHANGED unavailable
                 \/ /\ best = {}
                    /\ unavailable' = [unavailable EXCEPT ![o] = TRUE]
                    /\ UNCHANGED <<pc, where>>
  BY Zenon DEF filter_asks
<1> DEFINE g == Asked(Built(o), r)
<1>4. g.used = graph[o].used /\ g.sink = 0
  BY <1>1, <1>2, AskedUse
<1>5. /\ graph' = With(g, o)
      /\ \/ pc' = "input" /\ UNCHANGED unavailable
         \/ /\ unavailable' = [unavailable EXCEPT ![o] = TRUE]
            /\ pc' = pc
  BY <1>3 DEF Read
<1> HIDE DEF g
<1>6. graph'[o] = g /\ \A p \in Encoded \ {o} : graph'[p] = graph[p]
  <2>1. graph = [p \in Encoded |-> graph[p]]
    BY InvParts DEF GraphsOk
  <2> QED BY <1>2, <1>5, <2>1 DEF With
<1>7. /\ \A p \in Encoded : graph'[p].used = graph[p].used
      /\ \A p \in Encoded : graph'[p].sink > 0 => graph[p].sink > 0
  <2>1. ~(0 > 0)
    OBVIOUS
  <2> QED BY <1>4, <1>6, <2>1
<1>8. initialized'[o] /\ \A p \in Outputs : initialized[p] => initialized'[p]
  <2>1. initialized \in [Outputs -> BOOLEAN]
    BY InvParts DEF Types
  <2> QED BY <1>1, <1>2, <2>1
<1>9. LosesNothing
  BY <1>1, <1>7, <1>8, NothingUsed DEF OutputsKeep
<1>10. CASE ~initialized[o]
  BY <1>2, <1>8, <1>9, <1>10 DEF Gains, Progress
<1>11. CASE pc' = "input" /\ UNCHANGED unavailable
  <2>1. Advances
    BY <1>7, <1>11, Places, NearerTheEnd
  <2> QED BY <1>9, <2>1 DEF Progress
<1>12. CASE /\ ~unavailable[o]
            /\ unavailable' = [unavailable EXCEPT ![o] = TRUE]
  <2>1. unavailable'[o] /\ \A p \in Outputs : unavailable[p] => unavailable'[p]
    <3>1. unavailable \in [Outputs -> BOOLEAN]
      BY InvParts DEF Types
    <3> QED BY <1>2, <1>12, <3>1
  <2>2. Tried \subseteq Tried' /\ o \in Tried' /\ o \notin Tried
    BY <1>2, <1>12, <2>1 DEF Tried
  <2>3. InSinks' => InSinks
    BY <1>7 DEF InSinks
  <2>4. Advances
    BY <2>2, <2>3 DEF Advances
  <2> QED BY <1>9, <2>4 DEF Progress
<1> QED BY <1>5, <1>10, <1>11, <1>12

LEMMA TranscodeProgress ==
    ASSUME IInv, transcode_step
    PROVE  Progress
<1> DEFINE o == choose_output
<1>1. /\ pc = "loop" /\ need_output /\ o # 0
      /\ copy_step(o) \/ format_step(o) \/ filter_frame(o) \/ filter_eof(o)
         \/ filter_asks(o)
  BY Zenon DEF transcode_step
<1>2. o \in Outputs /\ (~initialized[o] \/ (~finished[o] /\ ~unavailable[o]))
  BY <1>1, Chosen, ChosenRuns
<1> HIDE DEF o
<1> QED BY <1>1, <1>2, CopyProgress, FormatProgress, FrameProgress,
           FilterEofProgress, AsksProgress

LEMMA EagainProgress ==
    ASSUME IInv, input_eagain
    PROVE  Progress
<1>1. UNCHANGED <<packets, decoded, eof_reached, graph, initialized, finished>>
  BY Zenon DEF input_eagain, streams, ends
<1>2. LosesNothing
  BY <1>1, NothingUsed DEF OutputsKeep
<1> QED BY <1>2 DEF Progress

\* A step that counts a packet, a frame or an end, and takes no frame out of a
\* graph.
LEMMA Counted ==
    ASSUME IInv, OutputsKeep,
           \A o \in Encoded : graph'[o].used = graph[o].used,
           \A i \in Streams : packets[i] <= packets'[i] /\ decoded[i] <= decoded'[i],
           \A f \in Files : eof_reached[f] => eof_reached'[f]
    PROVE  LosesNothing
<1>1. \A o \in Encoded : \A i \in Inputs[o] : graph[o].used[i] <= graph'[o].used[i]
  <2>1. GraphsOk(graph, decoded)
    BY InvParts
  <2>2. \A n \in Nat : n <= n
    OBVIOUS
  <2> QED BY <2>1, <2>2, UsedNumbers
<1> QED BY <1>1, Zenon DEF LosesNothing, OutputsKeep

LEMMA PacketProgress ==
    ASSUME IInv, input_packet
    PROVE  Progress
<1>1. UNCHANGED <<decoded, eof_reached, graph, initialized, finished>>
  BY Zenon DEF input_packet, ends
<1>2. PICK i \in StreamsOf(file) : packets' = [packets EXCEPT ![i] = @ + 1]
  BY Zenon DEF input_packet
<1>3. packets \in [Streams -> Int] /\ decoded \in [Streams -> Nat]
  <2>1. \A n \in 0..MaxPackets : n \in Int
    OBVIOUS
  <2> QED BY <2>1, InvParts DEF Types
<1>4. i \in Streams /\ packets'[i] > packets[i]
  BY <1>2, <1>3 DEF StreamsOf
<1>5. \A j \in Streams : packets[j] <= packets'[j] /\ decoded[j] <= decoded'[j]
  BY <1>1, <1>2, <1>3
<1>6. LosesNothing
  BY <1>1, <1>5, Counted DEF OutputsKeep
<1>7. Gains
  BY <1>4 DEF Gains
<1> QED BY <1>6, <1>7 DEF Progress

\* A frame from a decoder.
LEMMA GivesUse ==
    ASSUME IInv, NEW gs, GraphsOk(gs, decoded), NEW i \in Streams,
           DecoderGives(gs, i)
    PROVE  /\ \A o \in Encoded : graph'[o].used = gs[o].used
           /\ \A o \in Outputs : initialized[o] => initialized'[o]
           /\ decoded'[i] > decoded[i]
           /\ \A j \in Streams : decoded[j] <= decoded'[j]
<1>1. PICK c \in {TRUE, FALSE} : send_frame_to_filters(gs, i, c)
  BY Zenon DEF DecoderGives
<1>2. /\ decoded \in [Streams -> Nat]
      /\ decoded'[i] = decoded[i] + 1
      /\ \A j \in Streams \ {i} : decoded'[j] = decoded[j]
  BY GivesStep, InvParts DEF Types
<1>3. decoded'[i] > decoded[i] /\ \A j \in Streams : decoded[j] <= decoded'[j]
  BY <1>2
<1>4. \A o \in Encoded : GraphOk(gs[o], Inputs[o]) /\ Inputs[o] \subseteq Streams
  BY NumbersOfOutputs DEF GraphsOk
<1> DEFINE n == decoded[i] + 1
           Sent(g) == SendFrame(g, i, n, c)
           builds == \E o \in Encoded : i \in Inputs[o] /\ Builds(gs[o], i, c)
<1>5. CASE builds
  <2>1. /\ graph' = [o \in Encoded |-> IF i \in Inputs[o] THEN Sent(Reaped(gs[o]))
                                                          ELSE Reaped(gs[o])]
        /\ initialized' = [o \in Outputs |->
                             initialized[o] \/ (o \in Encoded /\ gs[o].built)]
    BY <1>1, <1>5, Zenon DEF send_frame_to_filters
  <2>2. ASSUME NEW o \in Encoded
        PROVE  graph'[o].used = gs[o].used
    <3>1. GraphOk(Reaped(gs[o]), Inputs[o]) /\ Reaped(gs[o]).used = gs[o].used
      BY <1>4, ReapedOk, ReapedUse
    <3>2. CASE i \in Inputs[o]
      <4>1. graph'[o] = Sent(Reaped(gs[o]))
        BY <2>1, <3>2
      <4>2. SendFrame(Reaped(gs[o]), i, n, c).used = Reaped(gs[o]).used
        BY <1>4, <3>1, <3>2, SendFrameUse
      <4> QED BY <3>1, <4>1, <4>2
    <3>3. CASE i \notin Inputs[o]
      BY <2>1, <3>1, <3>3
    <3> QED BY <3>2, <3>3
  <2> QED BY <1>3, <2>1, <2>2
<1>6. CASE ~builds
  <2>1. /\ graph' = [o \in Encoded |-> IF i \in Inputs[o] THEN Sent(gs[o]) ELSE gs[o]]
        /\ initialized' = initialized
    BY <1>1, <1>6, Zenon DEF send_frame_to_filters
  <2>2. ASSUME NEW o \in Encoded
        PROVE  graph'[o].used = gs[o].used
    <3>1. CASE i \in Inputs[o]
      <4>1. graph'[o] = Sent(gs[o])
        BY <2>1, <3>1
      <4>2. SendFrame(gs[o], i, n, c).used = gs[o].used
        BY <1>4, <3>1, SendFrameUse
      <4> QED BY <4>1, <4>2
    <3>2. CASE i \notin Inputs[o]
      BY <2>1, <3>2
    <3> QED BY <3>1, <3>2
  <2> QED BY <1>3, <2>1, <2>2
<1> QED BY <1>5, <1>6

LEMMA DecodeProgress ==
    ASSUME IInv, decode_frame
    PROVE  Progress
<1>1. /\ UNCHANGED <<packets, eof_reached, finished>>
      /\ DecoderGives(graph, ist) /\ GraphsOk(graph, decoded) /\ ist \in Streams
  BY InvParts, Zenon DEF decode_frame, files, ends, Types
<1>2. /\ \A o \in Encoded : graph'[o].used = graph[o].used
      /\ \A o \in Outputs : initialized[o] => initialized'[o]
      /\ decoded'[ist] > decoded[ist]
      /\ \A j \in Streams : decoded[j] <= decoded'[j]
  BY <1>1, GivesUse
<1>3. \A j \in Streams : packets[j] <= packets'[j]
  <2>1. \A n \in 0..MaxPackets : n <= n
    OBVIOUS
  <2> QED BY <1>1, <2>1, InvParts DEF Types
<1>4. LosesNothing
  BY <1>1, <1>2, <1>3, Counted DEF OutputsKeep
<1> QED BY <1>1, <1>2, <1>4 DEF Gains, Progress

LEMMA StreamcopyProgress ==
    ASSUME IInv, do_streamcopy
    PROVE  Progress
<1>1. /\ pc = "decode" /\ pc' = "reap"
      /\ UNCHANGED <<packets, decoded, eof_reached, graph, initialized,
                     unavailable, finished>>
  BY Zenon DEF do_streamcopy, streams, files, ends
<1>2. LosesNothing
  BY <1>1, NothingUsed DEF OutputsKeep
<1>3. Advances
  BY <1>1, Places, NearerTheEnd
<1> QED BY <1>2, <1>3 DEF Progress

\* Telling the ends takes no frame out of a graph, and ends outputs.
LEMMA EndedUse ==
    ASSUME IInv
    PROVE  /\ \A o \in Encoded : /\ EndedGraph[o].used = graph[o].used
                                 /\ EndedGraph[o].sink = graph[o].sink
           /\ \A o \in Outputs : finished[o] => EndedCopies[o]
<1>1. \A o \in Encoded : GraphOk(graph[o], Inputs[o])
  BY InvParts DEF GraphsOk
<1>2. \A o \in Encoded :
         EndedGraph[o] = SendEof(graph[o], DrainedStreams \cap Inputs[o])
  BY DEF EndedGraph
<1>3. \A o \in Outputs : finished[o] => EndedCopies[o]
  BY DEF EndedCopies
<1>4. ASSUME NEW o \in Encoded
      PROVE  EndedGraph[o].used = graph[o].used /\ EndedGraph[o].sink = graph[o].sink
  <2> DEFINE is == DrainedStreams \cap Inputs[o]
  <2>1. EndedGraph[o] = SendEof(graph[o], is)
    BY <1>2
  <2> HIDE DEF is
  <2>2. SendEof(graph[o], is).used = graph[o].used
    BY <1>1, SendEofUse
  <2>3. SendEof(graph[o], is).sink = graph[o].sink
    BY <1>1, SendEofUse
  <2> QED BY <2>1, <2>2, <2>3
<1> QED BY <1>3, <1>4

LEMMA DrainFrameProgress ==
    ASSUME IInv, drain_frame
    PROVE  Progress
<1> DEFINE j == First(Undrained)
<1>1. /\ Undrained # {} /\ finished' = EndedCopies
      /\ DecoderGives(EndedGraph, j)
      /\ UNCHANGED <<packets, eof_reached>>
  BY Zenon DEF drain_frame
<1>2. j \in Streams
  <2>1. Undrained \subseteq Nat /\ Undrained \subseteq Streams
    BY NumbersOfOutputs DEF Undrained, StreamsOf
  <2> QED BY <1>1, <2>1, FirstIsLeast
<1>3. GraphsOk(EndedGraph, decoded)
  BY EndedGraphOk
<1> HIDE DEF j
<1>4. /\ \A o \in Encoded : graph'[o].used = EndedGraph[o].used
      /\ \A o \in Outputs : initialized[o] => initialized'[o]
      /\ decoded'[j] > decoded[j]
      /\ \A i \in Streams : decoded[i] <= decoded'[i]
  BY <1>1, <1>2, <1>3, GivesUse
<1>5. \A i \in Streams : packets[i] <= packets'[i]
  <2>1. \A n \in 0..MaxPackets : n <= n
    OBVIOUS
  <2> QED BY <1>1, <2>1, InvParts DEF Types
<1>6. /\ \A o \in Encoded : graph'[o].used = graph[o].used
      /\ \A o \in Outputs : finished[o] => finished'[o]
  BY <1>1, <1>4, EndedUse
<1>7. LosesNothing
  BY <1>1, <1>4, <1>5, <1>6, Counted DEF OutputsKeep
<1> QED BY <1>2, <1>4, <1>7 DEF Gains, Progress

LEMMA DrainedProgress ==
    ASSUME IInv, drained
    PROVE  Progress
<1>1. /\ pc = "input" /\ pc' = "ended"
      /\ graph' = EndedGraph /\ finished' = EndedCopies
      /\ UNCHANGED <<packets, decoded, eof_reached, initialized, unavailable>>
  BY Zenon DEF drained, streams
<1>2. LosesNothing
  BY <1>1, EndedUse, NothingUsed DEF OutputsKeep
<1>3. Advances
  <2>1. \A o \in Encoded : graph'[o].sink > 0 => graph[o].sink > 0
    BY <1>1, EndedUse
  <2> QED BY <1>1, <2>1, Places, NearerTheEnd
<1> QED BY <1>2, <1>3 DEF Progress

LEMMA EofProgress ==
    ASSUME IInv, WInv, input_eof
    PROVE  Progress
<1>1. /\ pc = "ended"
      /\ eof_reached' = [eof_reached EXCEPT ![file] = TRUE]
      /\ UNCHANGED <<packets, decoded, graph, initialized, finished>>
  BY Zenon DEF input_eof, EndOf, streams, ends
<1>2. file \in Files /\ ~eof_reached[file] /\ eof_reached \in [Files -> BOOLEAN]
  BY <1>1, InvParts DEF WInv, AtHand, Types
<1>3. eof_reached'[file] /\ \A f \in Files : eof_reached[f] => eof_reached'[f]
  BY <1>1, <1>2
<1>4. \A i \in Streams : packets[i] <= packets'[i] /\ decoded[i] <= decoded'[i]
  <2>1. \A n \in 0..MaxPackets : n <= n
    OBVIOUS
  <2>2. \A n \in Nat : n <= n
    OBVIOUS
  <2> QED BY <1>1, <2>1, <2>2, InvParts DEF Types
<1>5. LosesNothing
  BY <1>1, <1>3, <1>4, Counted DEF OutputsKeep
<1> QED BY <1>2, <1>3, <1>5 DEF Gains, Progress

LEMMA PushProgress ==
    ASSUME IInv, push_frame
    PROVE  Progress
<1>1. PICK o \in Encoded : Ready(graph[o]) /\ graph' = With(Filtered(graph[o]), o)
  BY Zenon DEF push_frame
<1> DEFINE g == Filtered(graph[o])
<1>2. UNCHANGED <<packets, decoded, eof_reached, initialized, finished>>
  BY Zenon DEF push_frame, streams, files, ends
<1>3. /\ GraphsOk(graph, decoded) /\ GraphOk(graph[o], Inputs[o])
      /\ Inputs[o] \subseteq Streams
  BY InvParts, NumbersOfOutputs DEF GraphsOk
<1>4. /\ \A i \in Inputs[o] : graph[o].used[i] <= g.used[i]
      /\ \E i \in Inputs[o] : graph[o].used[i] < g.used[i]
      /\ GraphOk(g, Inputs[o])
  BY <1>1, <1>3, FilteredUse, FilteredOk
<1> HIDE DEF g
<1>5. graph'[o] = g /\ \A p \in Encoded \ {o} : graph'[p] = graph[p]
  <2>1. graph = [p \in Encoded |-> graph[p]] /\ graph' = With(g, o)
    BY <1>1, <1>3 DEF GraphsOk, g
  <2> QED BY <2>1 DEF With
<1>6. \A p \in Encoded : \A i \in Inputs[p] : graph[p].used[i] <= graph'[p].used[i]
  <2>1. ASSUME NEW p \in Encoded, NEW i \in Inputs[p]
        PROVE  graph[p].used[i] <= graph'[p].used[i]
    <3>1. graph[p].used[i] \in Nat
      BY <1>3, UsedNumbers
    <3> QED BY <1>4, <1>5, <3>1
  <2> QED BY <2>1
<1>7. LosesNothing
  BY <1>2, <1>6, NothingCounted DEF OutputsKeep
<1>8. Gains
  <2>1. PICK i \in Inputs[o] : graph[o].used[i] < g.used[i]
    BY <1>4
  <2>2. graph[o].used \in [Streams -> Nat] /\ g.used \in [Streams -> Nat]
    BY <1>3, <1>4, GraphFields
  <2>3. graph'[o].used[i] > graph[o].used[i]
    BY <1>3, <1>5, <2>1, <2>2
  <2> QED BY <2>3 DEF Gains
<1> QED BY <1>7, <1>8 DEF Progress

LEMMA ReapProgress ==
    ASSUME IInv, reap_filters
    PROVE  Progress
<1>1. /\ pc = "reap" /\ pc' = "loop" /\ Reap(graph) /\ GraphsOk(graph, decoded)
      /\ UNCHANGED <<packets, decoded, eof_reached, unavailable, finished>>
  BY InvParts, Zenon DEF reap_filters, streams, files, ends
<1>2. /\ \A o \in Encoded : /\ graph'[o].used = graph[o].used
                            /\ graph'[o].sink = 0
      /\ \A o \in Outputs : initialized[o] => initialized'[o]
  BY <1>1, ReapUse
<1>3. LosesNothing
  BY <1>1, <1>2, NothingUsed DEF OutputsKeep
<1>4. Advances
  <2>1. \A o \in Encoded : graph'[o].sink > 0 => graph[o].sink > 0
    <3>1. ~(0 > 0)
      OBVIOUS
    <3> QED BY <1>2, <3>1
  <2> QED BY <1>1, <2>1, Places, NearerTheEnd
<1> QED BY <1>3, <1>4 DEF Progress

LEMMA NextProgress == IInv /\ WInv /\ [Next]_vars => [Progress]_vars
<1> SUFFICES ASSUME IInv, WInv, Next
             PROVE  Progress
  OBVIOUS
<1>1. CASE process_input
  BY <1>1, PacketProgress, DecodeProgress, StreamcopyProgress,
     DrainFrameProgress, DrainedProgress, EofProgress DEF process_input
<1> QED BY <1>1, SigtermProgress, NoMoreProgress, WaitProgress, TranscodeProgress,
           EagainProgress, PushProgress, ReapProgress DEF Next

\* Whatever the files, outputs, graphs and decoders, every step of the main
\* loop takes it further, is a demuxer saying EAGAIN or the sleep after one
\* did: once the demuxers give packets or ends, the loop cannot go on for ever.
THEOREM ProgressMade == Spec => LoopProgress
<1> QED BY Invariance, Waits, NextProgress, PTL DEF Spec, LoopProgress

\* Nothing is gained without end: decoded frames are frames of packets read,
\* frames used are decoded ones, and a file has so many packets.
Bounded ==
    /\ \A i \in Streams : packets[i] \in 0..MaxPackets /\ decoded[i] \in 0..packets[i]
    /\ \A o \in Encoded : \A i \in Inputs[o] : graph[o].used[i] \in 0..decoded[i]
    /\ Left \in 0..5

\* For any streams, graphs and limits what ProgressMade says is gained has a
\* bound, so only boundedly many steps are not a demuxer's EAGAIN.
THEOREM GainsBounded == Spec => []Bounded
<1>1. IInv => Bounded
  <2> SUFFICES ASSUME IInv PROVE Bounded
    OBVIOUS
  <2>1. Types /\ GraphsOk(graph, decoded) /\ Counts
    BY InvParts
  <2>2. ASSUME NEW i \in Streams
        PROVE  packets[i] \in 0..MaxPackets /\ decoded[i] \in 0..packets[i]
    <3>1. held[i] \in Nat /\ decoded[i] \in Nat /\ packets[i] \in 0..MaxPackets
      BY <2>1 DEF Types
    <3>2. held[i] + decoded[i] = packets[i] \/ held[i] + decoded[i] = 0
      BY <2>1 DEF Counts
    <3> QED BY <3>1, <3>2, TranscodeAssumption
  <2>3. ASSUME NEW o \in Encoded, NEW i \in Inputs[o]
        PROVE  graph[o].used[i] \in 0..decoded[i]
    <3>1. InputOk(graph[o], i, decoded[i]) /\ GraphOk(graph[o], Inputs[o])
      BY <2>1 DEF GraphsOk
    <3>2. i \in Streams
      BY NumbersOfOutputs
    <3>3. graph[o].used[i] \in Nat /\ decoded[i] \in Nat
      BY <2>1, <3>2, UsedNumbers DEF Types
    <3>4. Len(graph[o].src[i]) \in Nat /\ Len(graph[o].wait[i]) \in Nat
      BY <3>1, <3>2, GraphFields DEF GraphOk
    <3>5. (graph[o].used[i] + graph[o].lost[i])
             + (Len(graph[o].src[i]) + Len(graph[o].wait[i])) = decoded[i]
      BY <3>1 DEF InputOk
    <3>6. \A a, b, c, d, n \in Nat : (a + d) + (b + c) = n => a \in 0..n
      OBVIOUS
    <3>7. graph[o].lost[i] \in Nat
      BY <3>1, <3>2, GraphFields
    <3> QED BY <3>3, <3>4, <3>5, <3>6, <3>7, Zenon
  <2>4. Left \in 0..5
    BY <2>1 DEF Types, Left
  <2> QED BY <2>2, <2>3, <2>4 DEF Bounded
<1> QED BY <1>1, Invariance, PTL
-----------------------------------------------------------------------------
(* What is encoded and what is lost                                         *)

\* A frame that an encoded output makes is counted as a packet of the output,
\* or is in its sink: a graph makes one at least of the frames it takes.
UsedMade(gs) ==
    \A o \in Encoded : ~AtLimit(o) =>
        \A i \in Inputs[o] : gs[o].used[i] <= frame_number[o] + Made(gs[o])

\* Frames are only lost when parameters change.
NoneLost(gs) ==
    changes = 0 => \A o \in Encoded : \A i \in Inputs[o] : gs[o].lost[i] = 0

LInv == UsedMade(graph) /\ NoneLost(graph)

\* The sinks of finished outputs are empty.
DoneEmpty(gs) == \A o \in Encoded : finished[o] => gs[o].sink = 0

LEMMA DoneGraphsEmpty ==
    ASSUME IInv, pc # "done"
    PROVE  /\ DoneEmpty(graph)
           /\ \A o \in Encoded : finished[o] => Emptied(graph[o])
<1>1. \A o \in Encoded : finished[o] => Emptied(graph[o])
  BY InvParts DEF EncodedEnds
<1> QED BY <1>1 DEF Emptied, DoneEmpty

\* The graphs and the numbers stay.
LEMMA SameUsed ==
    ASSUME IInv, LInv, changes' = changes, max_frames' = max_frames,
           \A o \in Encoded : frame_number'[o] = frame_number[o],
           \A o \in Encoded : /\ graph'[o].used = graph[o].used
                              /\ graph'[o].lost = graph[o].lost
                              /\ Made(graph'[o]) = Made(graph[o])
    PROVE  LInv'
<1>1. UsedMade(graph)'
  <2>1. ASSUME NEW o \in Encoded, ~AtLimit(o)', NEW i \in Inputs[o]
        PROVE  graph'[o].used[i] <= frame_number'[o] + Made(graph'[o])
    <3>1. ~AtLimit(o)
      BY <2>1 DEF AtLimit
    <3> QED BY <3>1 DEF LInv, UsedMade
  <2> QED BY <2>1 DEF UsedMade, Made
<1>2. NoneLost(graph)'
  BY DEF LInv, NoneLost
<1> QED BY <1>1, <1>2 DEF LInv

\* The numbers after the sinks of gs are reaped count all their frames.
LEMMA ReapCounts ==
    ASSUME IInv, NEW gs, GraphsOk(gs, decoded), UsedMade(gs), DoneEmpty(gs),
           frame_number' = ReapedNumber(gs), max_frames' = max_frames,
           NEW o \in Encoded, ~AtLimit(o)', NEW i \in Inputs[o]
    PROVE  gs[o].used[i] <= frame_number'[o] /\ frame_number'[o] \in Nat
<1>1. /\ o \in Outputs /\ max_frames[o] \in Nat /\ frame_number[o] \in Nat
      /\ gs[o].sink \in Nat /\ gs[o].used[i] \in Nat
  BY InvParts, LimitsAreNumbers, NumbersOfOutputs, UsedNumbers, GraphFields
     DEF GraphsOk
<1>2. frame_number'[o] = IF ~finished[o] /\ ~AtLimit(o)
                         THEN Smaller(frame_number[o] + gs[o].sink, max_frames[o])
                         ELSE frame_number[o]
  BY <1>1 DEF ReapedNumber
<1>3. ~AtLimit(o)
  BY <1>2 DEF AtLimit
<1>4. frame_number'[o] = frame_number[o] + gs[o].sink
  <2>1. CASE finished[o]
    BY <1>1, <1>2, <2>1 DEF DoneEmpty
  <2>2. CASE ~finished[o]
    <3>1. frame_number'[o] < max_frames[o]
      <4>1. ~(frame_number'[o] >= max_frames[o])
        BY DEF AtLimit
      <4>2. frame_number'[o] \in Nat
        BY <1>1, <1>2 DEF Smaller
      <4> QED BY <1>1, <4>1, <4>2
    <3> QED BY <1>1, <1>2, <1>3, <2>2, <3>1 DEF Smaller
  <2> QED BY <2>1, <2>2
<1>5. gs[o].used[i] <= frame_number[o] + Made(gs[o])
  BY <1>3 DEF UsedMade
<1>6. Made(gs[o]) = gs[o].sink \/ Made(gs[o]) = 0
  BY DEF Made
<1>7. \A u, n, s, m \in Nat : u <= n + m /\ (m = s \/ m = 0) => u <= n + s
  OBVIOUS
<1>8. Made(gs[o]) \in Nat
  BY <1>1, <1>6
<1> HIDE <1>2
<1> QED BY <1>1, <1>4, <1>5, <1>6, <1>7, <1>8

LEMMA ReapLoses ==
    ASSUME IInv, NEW gs, GraphsOk(gs, decoded), UsedMade(gs), NoneLost(gs),
           DoneEmpty(gs), Reap(gs), max_frames' = max_frames, changes' = changes
    PROVE  LInv'
<1>1. /\ \A o \in Encoded : graph'[o] = Reaped(gs[o])
      /\ frame_number' = ReapedNumber(gs)
  BY ReapStep, Zenon DEF Reap
<1>2. \A o \in Encoded : /\ graph'[o].used = gs[o].used
                         /\ graph'[o].lost = gs[o].lost
                         /\ Made(graph'[o]) = 0
  <2>1. \A o \in Encoded : GraphOk(gs[o], Inputs[o])
    BY DEF GraphsOk
  <2> QED BY <1>1, <2>1, ReapedUse
<1>3. ASSUME NEW o \in Encoded, ~AtLimit(o)', NEW i \in Inputs[o]
      PROVE  graph'[o].used[i] <= frame_number'[o] + Made(graph'[o])
  <2>1. gs[o].used[i] <= frame_number'[o] /\ frame_number'[o] \in Nat
    BY <1>1, <1>3, ReapCounts
  <2> QED BY <1>2, <2>1
<1>4. UsedMade(graph)'
  BY <1>3 DEF UsedMade, Made
<1>5. NoneLost(graph)'
  BY <1>2 DEF NoneLost
<1> QED BY <1>4, <1>5 DEF LInv

\* One graph becomes g, having taken no more frames than it made.
LEMMA WithUsed ==
    ASSUME IInv, LInv, NEW o \in Encoded, NEW g, GraphOk(g, Inputs[o]),
           \A i \in Inputs[o] : InputOk(g, i, decoded[i]),
           \A i \in Inputs[o] : g.lost[i] = graph[o].lost[i],
           ~AtLimit(o) => \A i \in Inputs[o] : g.used[i] <= frame_number[o] + Made(g)
    PROVE  UsedMade(With(g, o)) /\ NoneLost(With(g, o))
<1>1. /\ With(g, o)[o] = g
      /\ \A p \in Encoded \ {o} : With(g, o)[p] = graph[p]
  BY InvParts, WithKeeps
<1>2. UsedMade(With(g, o))
  BY <1>1 DEF LInv, UsedMade
<1>3. NoneLost(With(g, o))
  BY <1>1 DEF LInv, NoneLost
<1> QED BY <1>2, <1>3

\* The numbers of graph o.
LEMMA GraphNumbers ==
    ASSUME IInv, NEW o \in Encoded
    PROVE  /\ frame_number[o] \in Nat /\ Made(graph[o]) \in Nat
           /\ \A i \in Inputs[o] : graph[o].used[i] \in Nat
           /\ GraphOk(graph[o], Inputs[o]) /\ Inputs[o] \subseteq Streams
<1>1. /\ frame_number[o] \in Nat /\ graph[o].sink \in Nat
      /\ \A i \in Inputs[o] : graph[o].used[i] \in Nat
      /\ GraphOk(graph[o], Inputs[o]) /\ Inputs[o] \subseteq Streams
  BY InvParts, NumbersOfOutputs, LimitsAreNumbers, UsedNumbers, GraphFields
     DEF GraphsOk
<1> QED BY <1>1 DEF Made

\* A frame of each input more taken, a frame more made.
LEMMA FilteredMade ==
    ASSUME IInv, LInv, NEW o \in Encoded, NEW b, GraphOk(b, Inputs[o]), Ready(b),
           b.used = graph[o].used, Made(b) = Made(graph[o]), ~AtLimit(o),
           NEW i \in Inputs[o]
    PROVE  Filtered(b).used[i] <= frame_number[o] + Made(Filtered(b))
<1>1. /\ Filtered(b).used[i] <= b.used[i] + 1
      /\ Made(Filtered(b)) = Made(b) + 1
      /\ Filtered(b).used[i] \in Nat
  <2>1. Inputs[o] \subseteq Streams /\ GraphOk(Filtered(b), Inputs[o])
    BY NumbersOfOutputs, FilteredOk
  <2>2. Filtered(b).used \in [Streams -> Nat]
    BY <2>1, GraphFields
  <2> QED BY <2>1, <2>2, FilteredUse
<1>2. graph[o].used[i] <= frame_number[o] + Made(graph[o])
  BY DEF LInv, UsedMade
<1>3. \A f, u, n, m \in Nat : f <= u + 1 /\ u <= n + m => f <= n + (m + 1)
  OBVIOUS
<1> QED BY <1>1, <1>2, <1>3, GraphNumbers

LEMMA FrameLoses ==
    ASSUME IInv, LInv, pc # "done", NEW o, filter_frame(o)
    PROVE  LInv'
<1> DEFINE b == Built(o)
           g == IF b.sink > 0 THEN b ELSE Filtered(b)
<1>1. /\ HasGraph(o) /\ (b.sink > 0 \/ Ready(b)) /\ Reap(With(g, o))
      /\ max_frames' = max_frames /\ changes' = changes
  BY Zenon DEF filter_frame
<1>2. /\ o \in Encoded /\ Inputs[o] \subseteq Streams
      /\ GraphOk(b, Inputs[o])
      /\ \A i \in Inputs[o] : InputOk(b, i, decoded[i])
      /\ b.used = graph[o].used
      /\ Made(b) = Made(graph[o]) /\ b.sink = Made(graph[o])
      /\ \A i \in Inputs[o] : b.lost[i] = graph[o].lost[i]
      /\ Emptied(graph[o]) => Emptied(b)
  BY <1>1, BuiltOk, BuiltUse, NumbersOfOutputs
<1>3. /\ GraphOk(g, Inputs[o])
      /\ \A i \in Inputs[o] : InputOk(g, i, decoded[i])
      /\ \A i \in Inputs[o] : g.lost[i] = graph[o].lost[i]
      /\ ~AtLimit(o) => \A i \in Inputs[o] : g.used[i] <= frame_number[o] + Made(g)
      /\ finished[o] => g.sink = 0
  <2>0. finished[o] => Emptied(b)
    BY <1>2, DoneGraphsEmpty
  <2>1. CASE b.sink > 0
    <3>1. g = b
      BY <2>1
    <3>2. ~finished[o]
      BY <2>0, <2>1 DEF Emptied
    <3> HIDE DEF b, g
    <3> QED BY <1>2, <3>1, <3>2 DEF LInv, UsedMade
  <2>2. CASE ~(b.sink > 0)
    <3> HIDE DEF b
    <3>1. Ready(b) /\ \A i \in Inputs[o] : decoded[i] \in Nat
      BY <1>1, <1>2, <2>2, InvParts DEF Types
    <3>2. g = Filtered(b)
      BY <2>2
    <3>3. ~finished[o]
      BY <2>0, <3>1 DEF Emptied, Ready
    <3> HIDE DEF g
    <3>4. /\ GraphOk(g, Inputs[o])
          /\ \A i \in Inputs[o] : \A n \in Nat : InputOk(b, i, n) => InputOk(g, i, n)
      BY <1>2, <3>1, <3>2, FilteredOk
    <3>5. g.lost = b.lost
      BY <1>2, <3>1, <3>2, FilteredUse
    <3>6. ~AtLimit(o) => \A i \in Inputs[o] : g.used[i] <= frame_number[o] + Made(g)
      BY <1>2, <3>1, <3>2, FilteredMade
    <3> QED BY <1>2, <3>1, <3>3, <3>4, <3>5, <3>6
  <2> QED BY <2>1, <2>2
<1> HIDE DEF b, g
<1>4. UsedMade(With(g, o)) /\ NoneLost(With(g, o))
  BY <1>2, <1>3, WithUsed
<1>5. /\ GraphsOk(With(g, o), decoded) /\ With(g, o)[o] = g
      /\ \A p \in Encoded \ {o} : With(g, o)[p] = graph[p]
  BY <1>2, <1>3, InvParts, WithKeeps
<1>6. DoneEmpty(With(g, o))
  BY <1>3, <1>5, DoneGraphsEmpty DEF DoneEmpty
<1> QED BY <1>1, <1>4, <1>5, <1>6, ReapLoses

LEMMA FilterEofLoses ==
    ASSUME IInv, LInv, pc # "done", NEW o, filter_eof(o)
    PROVE  LInv'
<1> DEFINE b == Built(o)
<1>1. /\ HasGraph(o) /\ b.sink = 0 /\ Reap(With(b, o))
      /\ max_frames' = max_frames /\ changes' = changes
  BY Zenon DEF filter_eof
<1>2. /\ o \in Encoded
      /\ GraphOk(b, Inputs[o])
      /\ \A i \in Inputs[o] : InputOk(b, i, decoded[i])
      /\ b.used = graph[o].used /\ Made(b) = Made(graph[o])
      /\ \A i \in Inputs[o] : b.lost[i] = graph[o].lost[i]
  BY <1>1, BuiltOk, BuiltUse
<1> HIDE DEF b
<1>3. ~AtLimit(o) => \A i \in Inputs[o] : b.used[i] <= frame_number[o] + Made(b)
  BY <1>2 DEF LInv, UsedMade
<1>4. UsedMade(With(b, o)) /\ NoneLost(With(b, o))
  BY <1>2, <1>3, WithUsed
<1>5. /\ GraphsOk(With(b, o), decoded) /\ With(b, o)[o] = b
      /\ \A p \in Encoded \ {o} : With(b, o)[p] = graph[p]
  BY <1>2, InvParts, WithKeeps
<1>6. DoneEmpty(With(b, o))
  BY <1>1, <1>5, DoneGraphsEmpty DEF DoneEmpty
<1> QED BY <1>1, <1>4, <1>5, <1>6, ReapLoses

LEMMA AsksLoses ==
    ASSUME IInv, LInv, NEW o, filter_asks(o)
    PROVE  LInv'
<1>1. /\ HasGraph(o)
      /\ \E r \in SUBSET Hungry(Built(o)) : graph' = With(Asked(Built(o), r), o)
      /\ UNCHANGED <<max_frames, frame_number, changes>>
  BY Zenon DEF filter_asks
<1>2. PICK r \in SUBSET Hungry(Built(o)) : graph' = With(Asked(Built(o), r), o)
  BY <1>1
<1>3. /\ o \in Encoded
      /\ GraphOk(Built(o), Inputs[o])
      /\ Built(o).used = graph[o].used /\ Made(Built(o)) = Made(graph[o])
      /\ \A i \in Inputs[o] : Built(o).lost[i] = graph[o].lost[i]
  BY <1>1, BuiltOk, BuiltUse
<1> DEFINE g == Asked(Built(o), r)
<1>4. /\ g.used = graph[o].used /\ Made(g) = Made(graph[o])
      /\ g.lost = Built(o).lost
  BY <1>3, AskedUse
<1>5. graph'[o] = g /\ \A p \in Encoded \ {o} : graph'[p] = graph[p]
  <2>1. graph = [p \in Encoded |-> graph[p]] /\ graph' = With(g, o)
    BY <1>2, InvParts DEF GraphsOk
  <2> HIDE DEF g
  <2> QED BY <1>3, <2>1 DEF With
<1> HIDE DEF g
<1>6. UsedMade(graph)'
  <2>1. ASSUME NEW p \in Encoded, ~AtLimit(p)', NEW i \in Inputs[p]
        PROVE  graph'[p].used[i] <= frame_number'[p] + Made(graph'[p])
    <3>1. ~AtLimit(p)
      BY <1>1, <2>1 DEF AtLimit
    <3>2. graph'[p].used = graph[p].used /\ Made(graph'[p]) = Made(graph[p])
      BY <1>4, <1>5
    <3> QED BY <1>1, <3>1, <3>2 DEF LInv, UsedMade
  <2> QED BY <2>1 DEF UsedMade, Made
<1>7. NoneLost(graph)'
  BY <1>1, <1>3, <1>4, <1>5 DEF LInv, NoneLost
<1> QED BY <1>6, <1>7 DEF LInv

LEMMA TranscodeLoses ==
    ASSUME IInv, LInv, transcode_step
    PROVE  LInv'
<1>1. PICK o : \/ copy_step(o) \/ format_step(o) \/ filter_frame(o)
               \/ filter_eof(o) \/ filter_asks(o)
  BY Zenon DEF transcode_step
<1>2. pc # "done"
  BY DEF transcode_step
<1>3. CASE copy_step(o)
  BY <1>3, SameUsed DEF copy_step
<1>4. CASE format_step(o)
  BY <1>4, SameUsed DEF format_step
<1> QED BY <1>1, <1>2, <1>3, <1>4, FrameLoses, FilterEofLoses, AsksLoses

LEMMA PushLoses ==
    ASSUME IInv, LInv, push_frame
    PROVE  LInv'
<1>1. /\ \E o \in Encoded : Ready(graph[o]) /\ graph' = With(Filtered(graph[o]), o)
      /\ UNCHANGED <<max_frames, frame_number, changes>>
  BY Zenon DEF push_frame
<1>2. PICK o \in Encoded : Ready(graph[o]) /\ graph' = With(Filtered(graph[o]), o)
  BY <1>1
<1> DEFINE g == Filtered(graph[o])
<1>3. GraphOk(graph[o], Inputs[o]) /\ Inputs[o] \subseteq Streams
  BY GraphNumbers
<1>4. /\ ~AtLimit(o) => \A i \in Inputs[o] : g.used[i] <= frame_number[o] + Made(g)
      /\ g.lost = graph[o].lost
  BY <1>2, <1>3, FilteredMade, FilteredUse
<1>5. graph'[o] = g /\ \A p \in Encoded \ {o} : graph'[p] = graph[p]
  <2>1. graph = [p \in Encoded |-> graph[p]] /\ graph' = With(g, o)
    BY <1>2, InvParts DEF GraphsOk
  <2> HIDE DEF g
  <2> QED BY <2>1 DEF With
<1> HIDE DEF g
<1>6. UsedMade(graph)'
  <2>1. ASSUME NEW p \in Encoded, ~AtLimit(p)', NEW i \in Inputs[p]
        PROVE  graph'[p].used[i] <= frame_number'[p] + Made(graph'[p])
    <3>1. ~AtLimit(p) /\ frame_number' = frame_number
      BY <1>1, <2>1 DEF AtLimit
    <3>2. CASE p = o
      BY <1>4, <1>5, <3>1, <3>2
    <3>3. CASE p # o
      BY <1>5, <3>1, <3>3 DEF LInv, UsedMade
    <3> QED BY <3>2, <3>3
  <2> QED BY <2>1 DEF UsedMade, Made
<1>7. NoneLost(graph)'
  BY <1>1, <1>4, <1>5 DEF LInv, NoneLost
<1> QED BY <1>6, <1>7 DEF LInv

LEMMA GivesLoses ==
    ASSUME IInv, NEW gs, GraphsOk(gs, decoded), UsedMade(gs), NoneLost(gs),
           DoneEmpty(gs), NEW i \in Streams, DecoderGives(gs, i),
           max_frames' = max_frames
    PROVE  LInv'
<1>1. PICK c \in {TRUE, FALSE} : /\ send_frame_to_filters(gs, i, c)
                                 /\ changes' = IF c THEN changes + 1 ELSE changes
  BY Zenon DEF DecoderGives
<1>2. \A o \in Encoded : GraphOk(gs[o], Inputs[o]) /\ Inputs[o] \subseteq Streams
  BY NumbersOfOutputs DEF GraphsOk
<1>3. changes \in Nat
  <2>1. \A n \in 0..MaxChanges : n \in Nat
    OBVIOUS
  <2> QED BY <2>1, InvParts DEF Types
<1> DEFINE n == decoded[i] + 1
           Sent(g) == SendFrame(g, i, n, c)
           builds == \E o \in Encoded : i \in Inputs[o] /\ Builds(gs[o], i, c)
<1>4. CASE builds
  <2>1. /\ frame_number' = ReapedNumber(gs)
        /\ graph' = [o \in Encoded |-> IF i \in Inputs[o] THEN Sent(Reaped(gs[o]))
                                                          ELSE Reaped(gs[o])]
    BY <1>1, <1>4, Zenon DEF send_frame_to_filters
  <2>2. ASSUME NEW o \in Encoded
        PROVE  /\ graph'[o].used = gs[o].used
               /\ Made(graph'[o]) = 0
               /\ ~c => \A j \in Inputs[o] : graph'[o].lost[j] = gs[o].lost[j]
    <3> DEFINE r == Reaped(gs[o])
    <3>1. /\ GraphOk(r, Inputs[o]) /\ r.used = gs[o].used
          /\ r.lost = gs[o].lost /\ Made(r) = 0
      BY <1>2, ReapedOk, ReapedUse
    <3> HIDE DEF r
    <3>2. CASE i \in Inputs[o]
      <4>1. graph'[o] = Sent(r)
        BY <2>1, <3>2 DEF r
      <4> DEFINE h == SendFrame(r, i, n, c)
      <4>2. /\ h.used = r.used
            /\ ~c => \A j \in Inputs[o] : h.lost[j] = r.lost[j]
            /\ Made(h) = IF Builds(r, i, c) THEN 0 ELSE Made(r)
        BY <1>2, <3>1, <3>2, SendFrameUse
      <4>3. graph'[o] = h
        BY <4>1
      <4> HIDE DEF h
      <4> QED BY <3>1, <4>2, <4>3
    <3>3. CASE i \notin Inputs[o]
      <4>1. graph'[o] = r
        BY <2>1, <3>3 DEF r
      <4> QED BY <3>1, <4>1
    <3> QED BY <3>2, <3>3
  <2>3. UsedMade(graph)'
    <3>1. ASSUME NEW o \in Encoded, ~AtLimit(o)', NEW j \in Inputs[o]
          PROVE  graph'[o].used[j] <= frame_number'[o] + Made(graph'[o])
      <4>1. gs[o].used[j] <= frame_number'[o] /\ frame_number'[o] \in Nat
        BY <2>1, <3>1, ReapCounts
      <4>2. graph'[o].used = gs[o].used /\ Made(graph'[o]) = 0
        BY <2>2
      <4> QED BY <4>1, <4>2
    <3> QED BY <3>1 DEF UsedMade, Made
  <2>4. NoneLost(graph)'
    BY <1>1, <1>3, <2>2 DEF NoneLost
  <2> QED BY <2>3, <2>4 DEF LInv
<1>5. CASE ~builds
  <2>1. /\ frame_number' = frame_number
        /\ graph' = [o \in Encoded |-> IF i \in Inputs[o] THEN Sent(gs[o]) ELSE gs[o]]
    BY <1>1, <1>5, Zenon DEF send_frame_to_filters
  <2>2. ASSUME NEW o \in Encoded
        PROVE  /\ graph'[o].used = gs[o].used
               /\ Made(graph'[o]) = Made(gs[o])
               /\ ~c => \A j \in Inputs[o] : graph'[o].lost[j] = gs[o].lost[j]
    <3>1. CASE i \in Inputs[o]
      <4> DEFINE h == SendFrame(gs[o], i, n, c)
      <4>1. graph'[o] = h
        BY <2>1, <3>1
      <4>2. /\ h.used = gs[o].used
            /\ ~c => \A j \in Inputs[o] : h.lost[j] = gs[o].lost[j]
            /\ Made(h) = IF Builds(gs[o], i, c) THEN 0 ELSE Made(gs[o])
        BY <1>2, <3>1, SendFrameUse
      <4>3. ~Builds(gs[o], i, c)
        BY <1>5, <3>1
      <4> HIDE DEF h
      <4> QED BY <4>1, <4>2, <4>3
    <3>2. CASE i \notin Inputs[o]
      BY <2>1, <3>2
    <3> QED BY <3>1, <3>2
  <2>3. UsedMade(graph)'
    <3>1. ASSUME NEW o \in Encoded, ~AtLimit(o)', NEW j \in Inputs[o]
          PROVE  graph'[o].used[j] <= frame_number'[o] + Made(graph'[o])
      <4>1. ~AtLimit(o)
        BY <2>1, <3>1 DEF AtLimit
      <4>2. gs[o].used[j] <= frame_number[o] + Made(gs[o])
        BY <4>1 DEF UsedMade
      <4> QED BY <2>1, <2>2, <4>2
    <3> QED BY <3>1 DEF UsedMade, Made
  <2>4. NoneLost(graph)'
    BY <1>1, <1>3, <2>2 DEF NoneLost
  <2> QED BY <2>3, <2>4 DEF LInv
<1> QED BY <1>4, <1>5

LEMMA DecodeLoses ==
    ASSUME IInv, LInv, decode_frame
    PROVE  LInv'
<1>1. /\ pc # "done" /\ DecoderGives(graph, ist) /\ max_frames' = max_frames
      /\ GraphsOk(graph, decoded) /\ ist \in Streams
  BY InvParts DEF decode_frame, Types
<1>2. DoneEmpty(graph)
  BY <1>1, DoneGraphsEmpty
<1> QED BY <1>1, <1>2, GivesLoses DEF LInv

\* Telling the ends neither makes a frame nor loses one.
LEMMA EndedLoses ==
    ASSUME IInv
    PROVE  \A o \in Encoded : /\ EndedGraph[o].used = graph[o].used
                              /\ EndedGraph[o].lost = graph[o].lost
                              /\ EndedGraph[o].sink = graph[o].sink
                              /\ Made(EndedGraph[o]) = Made(graph[o])
<1>1. ASSUME NEW o \in Encoded
      PROVE  /\ EndedGraph[o].used = graph[o].used
             /\ EndedGraph[o].lost = graph[o].lost
             /\ EndedGraph[o].sink = graph[o].sink
             /\ Made(EndedGraph[o]) = Made(graph[o])
  <2> DEFINE is == DrainedStreams \cap Inputs[o]
  <2>1. EndedGraph[o] = SendEof(graph[o], is)
    BY DEF EndedGraph
  <2> HIDE DEF is
  <2>2. GraphOk(graph[o], Inputs[o])
    BY GraphNumbers
  <2>3. /\ SendEof(graph[o], is).used = graph[o].used
        /\ SendEof(graph[o], is).lost = graph[o].lost
        /\ SendEof(graph[o], is).sink = graph[o].sink
        /\ Made(SendEof(graph[o], is)) = Made(graph[o])
    BY <2>2, SendEofUse
  <2> QED BY <2>1, <2>3
<1> QED BY <1>1

LEMMA DrainFrameLoses ==
    ASSUME IInv, LInv, drain_frame
    PROVE  LInv'
<1> DEFINE j == First(Undrained)
<1>1. /\ pc # "done" /\ Undrained # {} /\ DecoderGives(EndedGraph, j)
      /\ max_frames' = max_frames
  BY Zenon DEF drain_frame
<1>2. j \in Streams
  <2>1. Undrained \subseteq Nat /\ Undrained \subseteq Streams
    BY NumbersOfOutputs DEF Undrained, StreamsOf
  <2> QED BY <1>1, <2>1, FirstIsLeast
<1> HIDE DEF j
<1>3. GraphsOk(EndedGraph, decoded)
  BY EndedGraphOk
<1>4. /\ UsedMade(EndedGraph) /\ NoneLost(EndedGraph) /\ DoneEmpty(EndedGraph)
  <2>1. DoneEmpty(graph)
    BY <1>1, DoneGraphsEmpty
  <2> QED BY <2>1, EndedLoses DEF LInv, UsedMade, NoneLost, DoneEmpty
<1> QED BY <1>1, <1>2, <1>3, <1>4, GivesLoses

LEMMA DrainedLoses ==
    ASSUME IInv, LInv, drained
    PROVE  LInv'
<1>1. /\ graph' = EndedGraph
      /\ UNCHANGED <<max_frames, frame_number, changes>>
  BY Zenon DEF drained
<1> QED BY <1>1, EndedLoses, SameUsed

LEMMA StreamcopyLoses ==
    ASSUME IInv, LInv, do_streamcopy
    PROVE  LInv'
<1>1. /\ UNCHANGED <<max_frames, graph, changes>>
      /\ \E taking \in SUBSET Copying :
            frame_number' = [o \in Outputs |-> IF o \in taking THEN frame_number[o] + 1
                                                               ELSE frame_number[o]]
  <2>1. PICK drop \in SUBSET {o \in Copying : MayDrop(o)} :
          LET taking == {o \in Copying \ drop : ~AtLimit(o)}
          IN  frame_number' = [o \in Outputs |-> IF o \in taking
                                                 THEN frame_number[o] + 1
                                                 ELSE frame_number[o]]
    BY Zenon DEF do_streamcopy
  <2>2. UNCHANGED <<max_frames, graph, changes>>
    BY Zenon DEF do_streamcopy
  <2> QED BY <2>1, <2>2
<1>2. \A o \in Encoded : o \in Outputs /\ o \notin Copying
  BY NumbersOfOutputs DEF Copying
<1>3. \A o \in Encoded : frame_number'[o] = frame_number[o]
  BY <1>1, <1>2
<1> QED BY <1>1, <1>3, SameUsed

LEMMA ReapFiltersLoses ==
    ASSUME IInv, LInv, reap_filters
    PROVE  LInv'
<1>1. /\ pc # "done" /\ Reap(graph) /\ GraphsOk(graph, decoded)
      /\ UNCHANGED <<max_frames, changes>>
  BY InvParts, Zenon DEF reap_filters
<1> QED BY <1>1, DoneGraphsEmpty, ReapLoses DEF LInv

LEMMA NextLoses == IInv /\ LInv /\ [Next]_vars => LInv'
<1> SUFFICES ASSUME IInv, LInv, [Next]_vars
             PROVE  LInv'
  OBVIOUS
<1>1. CASE sigterm
  BY <1>1, SameUsed DEF sigterm
<1>2. CASE no_more_output
  BY <1>2, SameUsed DEF no_more_output
<1>3. CASE wait_for_input
  BY <1>3, SameUsed DEF wait_for_input
<1>4. CASE input_eagain
  BY <1>4, SameUsed DEF input_eagain
<1>5. CASE process_input
  <2>1. CASE input_packet
    BY <2>1, SameUsed DEF input_packet
  <2>2. CASE input_eof
    BY <2>2, SameUsed DEF input_eof
  <2> QED BY <1>5, <2>1, <2>2, DecodeLoses, StreamcopyLoses, DrainFrameLoses,
             DrainedLoses DEF process_input
<1>6. CASE UNCHANGED vars
  BY <1>6, SameUsed DEF vars
<1> QED BY <1>1, <1>2, <1>3, <1>4, <1>5, <1>6, TranscodeLoses, PushLoses,
           ReapFiltersLoses DEF Next

LEMMA InitLoses == Init => LInv
<1> SUFFICES ASSUME Init
             PROVE  LInv
  OBVIOUS
<1>1. ASSUME NEW o \in Encoded, NEW i \in Inputs[o]
      PROVE  /\ graph[o].used[i] = 0 /\ graph[o].lost[i] = 0
             /\ Made(graph[o]) = 0 /\ frame_number[o] = 0
  <2>1. i \in Streams /\ o \in Outputs
    BY NumbersOfOutputs
  <2>2. graph[o] = NewGraph(Inputs[o])
    BY DEF Init
  <2> QED BY <2>1, <2>2 DEF Init, NewGraph, Made
<1>2. 0 <= 0 + 0
  OBVIOUS
<1>3. UsedMade(graph)
  BY <1>1, <1>2 DEF UsedMade
<1>4. NoneLost(graph)
  BY <1>1 DEF NoneLost
<1> QED BY <1>3, <1>4 DEF LInv

LEMMA Loses == Spec => []LInv
<1> QED BY Invariance, InitLoses, NextLoses, PTL DEF Spec

LEMMA InvDelivered == IInv /\ LInv => AllDelivered
<1> SUFFICES ASSUME IInv, LInv, pc = "done", ~received_sigterm,
                    \A o \in Outputs : ~AtLimit(o)
             PROVE  /\ \A o \in Copied : frame_number[o] > 0 =>
                          first[o] + frame_number[o] = packets[Source[o]] + 1
                    /\ \A o \in Encoded : \A i \in Inputs[o] :
                          /\ graph[o].used[i] + graph[o].lost[i] = packets[i]
                          /\ changes = 0 => graph[o].lost[i] = 0
                          /\ graph[o].used[i] <= frame_number[o]
  BY Zenon DEF AllDelivered
<1>1. /\ \A o \in Copied : frame_number[o] > 0 =>
            first[o] + frame_number[o] = packets[Source[o]] + 1
      /\ \A o \in Encoded : \A i \in Inputs[o] :
            graph[o].used[i] + graph[o].lost[i] = packets[i] /\ graph[o].sink = 0
  BY DEF IInv, Delivered
<1>2. ASSUME NEW o \in Encoded, NEW i \in Inputs[o]
      PROVE  /\ changes = 0 => graph[o].lost[i] = 0
             /\ graph[o].used[i] <= frame_number[o]
  <2>1. changes = 0 => graph[o].lost[i] = 0
    BY DEF LInv, NoneLost
  <2>2. Made(graph[o]) = 0
    BY <1>1, <1>2 DEF Made
  <2>3. graph[o].used[i] <= frame_number[o] + Made(graph[o])
    BY <1>2, NumbersOfOutputs DEF LInv, UsedMade
  <2>4. frame_number[o] \in Nat /\ graph[o].used[i] \in Nat
    BY GraphNumbers
  <2> QED BY <2>1, <2>2, <2>3, <2>4
<1> QED BY <1>1, <1>2

\* For any files, streams, graphs and decoders: when the loop ends by itself
\* and no limit was met, a copied output has every packet from its first on,
\* and the frame of every packet that is decoded was used by each graph it
\* feeds and the frame made of it encoded, unless a graph built anew when
\* parameters changed threw it away.
THEOREM EverythingDelivered == Spec => []AllDelivered
<1> QED BY Invariance, Loses, InvDelivered, PTL
=============================================================================
