------------------------------- MODULE Yuv420 -------------------------------
(* yuv420p_util.cpp: which bytes of a frame's planes go to a file, and come *)
(* back from it, and in which order.  A frame has a width, a height and the *)
(* distance linesize[p] between the lines of plane p in memory.             *)
EXTENDS Integers, Sequences

Planes == 0..2

Columns(f, p) == IF p = 0 THEN f.width ELSE f.width \div 2
Lines(f, p)   == IF p = 0 THEN f.height ELSE f.height \div 2

\* What the code takes for the size of a plane without padding.
PlaneSize(f, p) ==
    IF p = 0 THEN f.width * f.height ELSE (f.width * f.height) \div 4

\* Mutant of Offsets: the whole plane at once, padded or not.
OffsetsFlat(f, p) == [k \in 1..PlaneSize(f, p) |-> k - 1]

\* The offsets in data[p] of the bytes that are written or read, in order:
\* line by line when the lines are padded, else the whole plane at once.
Offsets(f, p) ==
    LET w == Columns(f, p)
    IN  IF f.linesize[p] # w
        THEN [k \in 1..(Lines(f, p) * w) |->
                 ((k - 1) \div w) * f.linesize[p] + ((k - 1) % w)]
        ELSE [k \in 1..PlaneSize(f, p) |-> k - 1]

\* A byte of frame n in memory: a pixel by plane, line and column, or padding.
Byte(f, n, p, offset) ==
    LET column == offset % f.linesize[p]
    IN  IF column < Columns(f, p)
        THEN <<n, p, offset \div f.linesize[p], column>>
        ELSE <<n, "padding">>

PlaneBytes(f, n, p) ==
    [k \in DOMAIN Offsets(f, p) |-> Byte(f, n, p, Offsets(f, p)[k])]

\* The bytes appended for frame n.
WriteYUV420ToFile(f, n) ==
    PlaneBytes(f, n, 0) \o PlaneBytes(f, n, 1) \o PlaneBytes(f, n, 2)

\* The bytes of a plane, and of a frame, in a file.
Taken(f, p) == Len(Offsets(f, p))
FrameSize(f) == Taken(f, 0) + Taken(f, 1) + Taken(f, 2)
Before(f, p) == CASE p = 0 -> 0
                  [] p = 1 -> Taken(f, 0)
                  [] p = 2 -> Taken(f, 0) + Taken(f, 1)

\* Where the byte at an offset of plane p lands when frame k is read back into
\* a frame f, the ones before it having been read.
Position(f, k, p, offset) ==
    (k - 1) * FrameSize(f) + Before(f, p)
      + CHOOSE j \in DOMAIN Offsets(f, p) : Offsets(f, p)[j] = offset

\* The pixel at a line and a column of frame k, read from file into a frame f.
ReadYUV420FromFile(f, file, k, p, line, column) ==
    file[Position(f, k, p, line * f.linesize[p] + column)]
=============================================================================
