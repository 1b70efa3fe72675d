------------------------- MODULE DecodeToYuvProofs -------------------------
(* Proofs about DecodeToYuv and Yuv420: for any sizes and paddings, whoever *)
(* reads the file gets back each frame the decoder gave.                    *)
EXTENDS DecodeToYuv, FiniteSetTheorems, SequenceTheorems, TLAPS

-----------------------------------------------------------------------------
(* Arithmetic                                                               *)

\* A later line comes after an earlier one, whatever the columns.
LEMMA LinesApart ==
    ASSUME NEW w \in Nat, NEW a \in Nat, NEW b \in Nat,
           NEW c \in 0..(w - 1), NEW d \in 0..(w - 1), a < b
    PROVE  (a * w) + c < (b * w) + d
<1>1. PICK e \in Nat : b = a + 1 + e
  <2>1. b - a - 1 \in Nat
    OBVIOUS
  <2> QED BY <2>1
<1>2. b * w = (a * w) + w + (e * w)
  BY <1>1
<1>3. e * w \in Nat
  OBVIOUS
<1> QED BY <1>2, <1>3

LEMMA Division ==
    ASSUME NEW w \in Nat \ {0}, NEW x \in Nat
    PROVE  /\ x \div w \in Nat /\ x % w \in 0..(w - 1)
           /\ x = ((x \div w) * w) + (x % w)
OBVIOUS

\* A line and a column are found again in the offset they make.
LEMMA LineAndColumn ==
    ASSUME NEW w \in Nat \ {0}, NEW l \in Nat, NEW c \in 0..(w - 1)
    PROVE  /\ (l * w) + c \in Nat
           /\ ((l * w) + c) \div w = l
           /\ ((l * w) + c) % w = c
<1> DEFINE x == (l * w) + c
<1>1. x \in Nat
  OBVIOUS
<1>2. /\ x \div w \in Nat /\ x % w \in 0..(w - 1)
      /\ x = ((x \div w) * w) + (x % w)
  BY <1>1, Division
<1>3. x = (l * w) + c
  OBVIOUS
<1> HIDE DEF x
<1>4. ~(x \div w < l) /\ ~(l < x \div w)
  BY <1>2, <1>3, LinesApart
<1>5. x \div w = l
  <2> DEFINE q == x \div w
  <2>1. q \in Nat /\ ~(q < l) /\ ~(l < q)
    BY <1>2, <1>4
  <2> HIDE DEF q
  <2>2. q = l
    BY <2>1
  <2> QED BY <2>2 DEF q
<1>6. x % w = c
  <2> DEFINE y == l * w
  <2>1. y \in Nat
    OBVIOUS
  <2>2. x = y + c /\ x = y + (x % w)
    BY <1>2, <1>3, <1>5
  <2> HIDE DEF y
  <2> QED BY <1>2, <2>1, <2>2
<1> QED BY <1>1, <1>5, <1>6 DEF x

\* The product of even numbers, and the quarter of it.
LEMMA Quarter ==
    ASSUME NEW x \in Nat, NEW y \in Nat, x % 2 = 0, y % 2 = 0
    PROVE  (x * y) \div 4 = (y \div 2) * (x \div 2)
<1>1. PICK a \in Nat, b \in Nat : x = 2 * a /\ y = 2 * b
  <2>1. x = 2 * (x \div 2) /\ y = 2 * (y \div 2)
    OBVIOUS
  <2> QED BY <2>1
<1>2. x * y = 4 * (a * b) /\ a * b \in Nat
  BY <1>1
<1>3. (4 * (a * b)) \div 4 = a * b
  <2> DEFINE m == a * b
  <2>1. m \in Nat
    BY <1>2
  <2> HIDE DEF m
  <2>2. (4 * m) \div 4 = m
    BY <2>1
  <2> QED BY <2>2 DEF m
<1>4. x \div 2 = a /\ y \div 2 = b
  BY <1>1
<1> QED BY <1>2, <1>3, <1>4

-----------------------------------------------------------------------------
(* Planes                                                                   *)

Padded(f, p) == f.linesize[p] # Columns(f, p)

LEMMA PlaneTypes ==
    ASSUME NEW f \in Frame, NEW p \in Planes
    PROVE  /\ Columns(f, p) \in Nat /\ Lines(f, p) \in Nat
           /\ f.linesize[p] \in Nat \ {0}
           /\ PlaneSize(f, p) \in Nat
           /\ Lines(f, p) * Columns(f, p) \in Nat
<1>1. f.width \in Nat /\ f.height \in Nat /\ f.linesize[p] \in Nat \ {0}
  BY DEF Frame
<1>2. f.width * f.height \in Nat
  BY <1>1
<1> DEFINE x == f.width * f.height
<1>3. x \in Nat
  BY <1>2
<1>4. x \div 4 \in Nat
  <2> HIDE DEF x
  <2> QED BY <1>3
<1>5. f.width \div 2 \in Nat /\ f.height \div 2 \in Nat
  BY <1>1
<1>6. Columns(f, p) \in Nat /\ Lines(f, p) \in Nat
  BY <1>1, <1>5 DEF Columns, Lines
<1>7. Lines(f, p) * Columns(f, p) \in Nat
  BY <1>6
<1>8. PlaneSize(f, p) \in Nat
  BY <1>2, <1>4 DEF PlaneSize
<1> QED BY <1>1, <1>6, <1>7, <1>8

\* What is written or read of a plane, and how many bytes that is.
LEMMA OffsetsValue ==
    ASSUME NEW f \in Frame, NEW p \in Planes
    PROVE  /\ Taken(f, p) \in Nat
           /\ DOMAIN Offsets(f, p) = 1..Taken(f, p)
           /\ Taken(f, p) = IF Padded(f, p) THEN Lines(f, p) * Columns(f, p)
                                            ELSE PlaneSize(f, p)
           /\ \A k \in 1..Taken(f, p) :
                 Offsets(f, p)[k] =
                    IF Padded(f, p)
                    THEN ((k - 1) \div Columns(f, p)) * f.linesize[p]
                            + ((k - 1) % Columns(f, p))
                    ELSE k - 1
<1> DEFINE w == Columns(f, p)
           n == Lines(f, p) * w
           m == PlaneSize(f, p)
<1>1. n \in Nat /\ m \in Nat
  BY PlaneTypes
<1>2. CASE Padded(f, p)
  <2>1. Offsets(f, p) = [k \in 1..n |->
            ((k - 1) \div w) * f.linesize[p] + ((k - 1) % w)]
    BY <1>2 DEF Offsets, Padded
  <2> HIDE DEF n
  <2>2. DOMAIN Offsets(f, p) = 1..n
    BY <2>1
  <2>3. Len(Offsets(f, p)) = n
    <3>1. \E k \in Nat : DOMAIN Offsets(f, p) = 1..k
      BY <1>1, <2>2
    <3> QED BY <1>1, <2>1, <2>2, LenProperties
  <2> QED BY <1>1, <1>2, <2>1, <2>2, <2>3 DEF Taken, n
<1>3. CASE ~Padded(f, p)
  <2>1. Offsets(f, p) = [k \in 1..m |-> k - 1]
    BY <1>3 DEF Offsets, Padded
  <2> HIDE DEF m
  <2>2. DOMAIN Offsets(f, p) = 1..m
    BY <2>1
  <2>3. Len(Offsets(f, p)) = m
    BY <1>1, <2>1, <2>2, LenProperties
  <2> QED BY <1>1, <1>3, <2>1, <2>2, <2>3 DEF Taken, m
<1> QED BY <1>2, <1>3

\* Of an even size both ways take every pixel of the plane.
LEMMA TakenEven ==
    ASSUME NEW f \in Frame, NEW p \in Planes, Even(f)
    PROVE  Taken(f, p) = Lines(f, p) * Columns(f, p)
<1>1. f.width \in Nat /\ f.height \in Nat /\ f.width % 2 = 0 /\ f.height % 2 = 0
  BY DEF Frame, Even
<1>2. (f.width * f.height) \div 4 = (f.height \div 2) * (f.width \div 2)
  BY <1>1, Quarter
<1>3. f.width * f.height = f.height * f.width
  BY <1>1
<1>4. PlaneSize(f, p) = Lines(f, p) * Columns(f, p)
  BY <1>2, <1>3 DEF PlaneSize, Lines, Columns
<1> QED BY <1>4, OffsetsValue

\* The pixel at a line and a column of a plane is one byte of what is written,
\* at the same place whatever the padding.
LEMMA PixelOffset ==
    ASSUME NEW f \in Frame, NEW p \in Planes, Even(f),
           Columns(f, p) <= f.linesize[p],
           NEW l \in 0..(Lines(f, p) - 1), NEW c \in 0..(Columns(f, p) - 1)
    PROVE  LET j == (l * Columns(f, p)) + c + 1
               offset == (l * f.linesize[p]) + c
           IN  /\ j \in 1..Taken(f, p)
               /\ Offsets(f, p)[j] = offset
               /\ \A k \in 1..Taken(f, p) : Offsets(f, p)[k] = offset => k = j
<1> DEFINE w == Columns(f, p)
           h == Lines(f, p)
           s == f.linesize[p]
           x == (l * w) + c
           j == (l * w) + c + 1
           offset == (l * s) + c
<1>1. w \in Nat \ {0} /\ h \in Nat /\ s \in Nat \ {0} /\ w <= s
      /\ l \in Nat /\ l < h /\ c \in 0..(w - 1) /\ c \in 0..(s - 1)
  BY PlaneTypes
<1>2. Taken(f, p) = h * w /\ h * w \in Nat
  BY TakenEven, PlaneTypes
<1> HIDE DEF w, h, s
<1>3. x \in Nat /\ x \div w = l /\ x % w = c
  BY <1>1, LineAndColumn
<1>4. x < h * w
  <2>1. (l * w) + c < (h * w) + 0
    BY <1>1, LinesApart
  <2> QED BY <2>1, <1>2
<1>5. j \in 1..Taken(f, p) /\ j - 1 = x
  <2>1. j = x + 1
    BY <1>1
  <2> HIDE DEF x, j
  <2> QED BY <2>1, <1>2, <1>3, <1>4
<1>6. CASE Padded(f, p)
  <2>1. \A k \in 1..Taken(f, p) :
           Offsets(f, p)[k] = (((k - 1) \div w) * s) + ((k - 1) % w)
    BY <1>6, OffsetsValue DEF w, s
  <2>2. Offsets(f, p)[j] = offset
    BY <2>1, <1>3, <1>5
  <2>3. ASSUME NEW k \in 1..Taken(f, p), Offsets(f, p)[k] = offset
        PROVE  k = j
    <3> DEFINE a == (k - 1) \div w
               b == (k - 1) % w
    <3>1. k - 1 \in Nat
      BY <1>2
    <3>2. a \in Nat /\ b \in 0..(w - 1) /\ k - 1 = (a * w) + b
      BY <3>1, <1>1, Division
    <3>3. (a * s) + b = (l * s) + c
      BY <2>1, <2>3
    <3> HIDE DEF a, b
    <3>4. b \in 0..(s - 1)
      BY <3>2, <1>1
    <3>5. ~(a < l)
      <4>1. a < l => (a * s) + b < (l * s) + c
        BY <3>2, <3>4, <1>1, LinesApart
      <4>2. (a * s) + b \in Int /\ (l * s) + c \in Int
        BY <3>2, <1>1
      <4> QED BY <4>1, <4>2, <3>3
    <3>6. ~(l < a)
      <4>1. l < a => (l * s) + c < (a * s) + b
        BY <3>2, <3>4, <1>1, LinesApart
      <4>2. (a * s) + b \in Int /\ (l * s) + c \in Int
        BY <3>2, <1>1
      <4> QED BY <4>1, <4>2, <3>3
    <3>7. a = l
      BY <3>2, <3>5, <3>6, <1>1
    <3>8. b = c
      <4> DEFINE y == l * s
      <4>1. y \in Nat /\ y + b = y + c
        BY <1>1, <3>3, <3>7
      <4> HIDE DEF y
      <4> QED BY <4>1, <3>2, <1>1
    <3>9. k - 1 = x
      BY <3>2, <3>7, <3>8
    <3> HIDE DEF x, j
    <3> QED BY <3>9, <1>2, <1>3, <1>5
  <2> QED BY <1>5, <2>2, <2>3 DEF w, s
<1>7. CASE ~Padded(f, p)
  <2>1. \A k \in 1..Taken(f, p) : Offsets(f, p)[k] = k - 1
    BY <1>7, OffsetsValue
  <2>2. offset = x
    BY <1>7 DEF Padded, w, s
  <2>3. Offsets(f, p)[j] = offset
    BY <2>1, <2>2, <1>5
  <2>4. \A k \in 1..Taken(f, p) : Offsets(f, p)[k] = offset => k = j
    <3> HIDE DEF x, j, offset
    <3> QED BY <2>1, <2>2, <1>2, <1>3, <1>5
  <2> QED BY <1>5, <2>3, <2>4 DEF w, s
<1> QED BY <1>6, <1>7

-----------------------------------------------------------------------------
(* Frames                                                                   *)

Bytes(f) == {Byte(f, n, p, o) : n \in 1..MaxPackets, p \in Planes, o \in Nat}

LEMMA OffsetsNatural ==
    ASSUME NEW f \in Frame, NEW p \in Planes, NEW k \in 1..Taken(f, p)
    PROVE  Offsets(f, p)[k] \in Nat
<1> DEFINE w == Columns(f, p)
           s == f.linesize[p]
<1>1. w \in Nat /\ s \in Nat /\ Taken(f, p) \in Nat /\ k - 1 \in Nat
  BY PlaneTypes, OffsetsValue
<1>2. CASE Padded(f, p)
  <2>1. Taken(f, p) = Lines(f, p) * w
    BY <1>2, OffsetsValue
  <2>2. w # 0
    <3>1. Lines(f, p) \in Nat
      BY PlaneTypes
    <3>2. w = 0 => Taken(f, p) = 0
      BY <2>1, <3>1
    <3> QED BY <3>2, <1>1
  <2> DEFINE a == (k - 1) \div w
             b == (k - 1) % w
  <2>3. a \in Nat /\ b \in Nat
    <3>1. w \in Nat \ {0} /\ k - 1 \in Nat
      BY <1>1, <2>2
    <3> HIDE DEF w
    <3>2. (k - 1) \div w \in Nat /\ (k - 1) % w \in 0..(w - 1)
      BY <3>1, Division
    <3> QED BY <3>1, <3>2
  <2>4. Offsets(f, p)[k] = (a * s) + b
    BY <1>2, OffsetsValue
  <2> HIDE DEF a, b, s
  <2> QED BY <1>1, <2>3, <2>4
<1>3. CASE ~Padded(f, p)
  BY <1>1, <1>3, OffsetsValue
<1> QED BY <1>2, <1>3

LEMMA PlaneBytesValue ==
    ASSUME NEW f \in Frame, NEW p \in Planes, NEW n \in 1..MaxPackets
    PROVE  /\ PlaneBytes(f, n, p) \in Seq(Bytes(f))
           /\ Len(PlaneBytes(f, n, p)) = Taken(f, p)
           /\ \A k \in 1..Taken(f, p) :
                 PlaneBytes(f, n, p)[k] = Byte(f, n, p, Offsets(f, p)[k])
<1>1. Taken(f, p) \in Nat /\ DOMAIN Offsets(f, p) = 1..Taken(f, p)
  BY OffsetsValue
<1>2. \A k \in 1..Taken(f, p) : Byte(f, n, p, Offsets(f, p)[k]) \in Bytes(f)
  BY OffsetsNatural DEF Bytes
<1>3. PlaneBytes(f, n, p) = [k \in 1..Taken(f, p) |-> Byte(f, n, p, Offsets(f, p)[k])]
  BY <1>1 DEF PlaneBytes
<1>4. PlaneBytes(f, n, p) \in [1..Taken(f, p) -> Bytes(f)]
  BY <1>2, <1>3
<1>5. PlaneBytes(f, n, p) \in Seq(Bytes(f))
  BY <1>1, <1>4, SeqDef
<1>6. Len(PlaneBytes(f, n, p)) = Taken(f, p)
  BY <1>1, <1>3, <1>5, LenProperties
<1> QED BY <1>3, <1>5, <1>6

\* A frame's bytes are its planes one after the other.
LEMMA FrameBytes ==
    ASSUME NEW f \in Frame, NEW n \in 1..MaxPackets
    PROVE  /\ WriteYUV420ToFile(f, n) \in Seq(Bytes(f))
           /\ Len(WriteYUV420ToFile(f, n)) = FrameSize(f)
           /\ FrameSize(f) \in Nat
           /\ \A p \in Planes : \A j \in 1..Taken(f, p) :
                 /\ Before(f, p) + j \in 1..FrameSize(f)
                 /\ WriteYUV420ToFile(f, n)[Before(f, p) + j] =
                       Byte(f, n, p, Offsets(f, p)[j])
<1> DEFINE A == PlaneBytes(f, n, 0)
           B == PlaneBytes(f, n, 1)
           C == PlaneBytes(f, n, 2)
           a == Taken(f, 0)
           b == Taken(f, 1)
           c == Taken(f, 2)
<1>1. 0 \in Planes /\ 1 \in Planes /\ 2 \in Planes /\ Planes = {0, 1, 2}
  BY DEF Planes
<1>2. /\ A \in Seq(Bytes(f)) /\ Len(A) = a /\ a \in Nat
      /\ B \in Seq(Bytes(f)) /\ Len(B) = b /\ b \in Nat
      /\ C \in Seq(Bytes(f)) /\ Len(C) = c /\ c \in Nat
  BY <1>1, PlaneBytesValue, OffsetsValue
<1>3. /\ \A j \in 1..a : A[j] = Byte(f, n, 0, Offsets(f, 0)[j])
      /\ \A j \in 1..b : B[j] = Byte(f, n, 1, Offsets(f, 1)[j])
      /\ \A j \in 1..c : C[j] = Byte(f, n, 2, Offsets(f, 2)[j])
  BY <1>1, PlaneBytesValue
<1>4. WriteYUV420ToFile(f, n) = (A \o B) \o C
  BY DEF WriteYUV420ToFile
<1>5. FrameSize(f) = a + b + c
  BY DEF FrameSize
<1>6. Before(f, 0) = 0 /\ Before(f, 1) = a /\ Before(f, 2) = a + b
  BY DEF Before
<1> HIDE DEF A, B, C, a, b, c
<1>7. /\ A \o B \in Seq(Bytes(f)) /\ Len(A \o B) = a + b
      /\ \A j \in 1..a : (A \o B)[j] = A[j]
      /\ \A j \in 1..b : (A \o B)[a + j] = B[j]
  BY <1>2
<1>8. /\ (A \o B) \o C \in Seq(Bytes(f)) /\ Len((A \o B) \o C) = a + b + c
      /\ \A j \in 1..(a + b) : ((A \o B) \o C)[j] = (A \o B)[j]
      /\ \A j \in 1..c : ((A \o B) \o C)[a + b + j] = C[j]
  BY <1>2, <1>7
<1>9. ASSUME NEW p \in Planes, NEW j \in 1..Taken(f, p)
      PROVE  /\ Before(f, p) + j \in 1..FrameSize(f)
             /\ WriteYUV420ToFile(f, n)[Before(f, p) + j] =
                   Byte(f, n, p, Offsets(f, p)[j])
  <2>1. CASE p = 0
    BY <2>1, <1>2, <1>3, <1>4, <1>5, <1>6, <1>7, <1>8 DEF a
  <2>2. CASE p = 1
    <3>1. j \in 1..b
      BY <2>2 DEF b
    <3>2. a + j \in 1..(a + b)
      BY <3>1, <1>2
    <3> QED BY <2>2, <3>1, <3>2, <1>2, <1>3, <1>4, <1>5, <1>6, <1>7, <1>8
  <2>3. CASE p = 2
    <3>1. j \in 1..c
      BY <2>3 DEF c
    <3>2. ((A \o B) \o C)[a + b + j] = Byte(f, n, 2, Offsets(f, 2)[j])
      BY <3>1, <1>3, <1>8
    <3>3. a + b + j \in 1..(a + b + c)
      BY <3>1, <1>2
    <3> QED BY <2>3, <3>2, <3>3, <1>4, <1>5, <1>6
  <2> QED BY <2>1, <2>2, <2>3, <1>1
<1> QED BY <1>2, <1>4, <1>5, <1>8, <1>9

\* Where the pixel at a line and a column is among the bytes of a frame.
Place(f, p, l, c) == Before(f, p) + ((l * Columns(f, p)) + c + 1)

LEMMA PixelWritten ==
    ASSUME NEW f \in Frame, NEW n \in 1..MaxPackets, NEW p \in Planes, Even(f),
           Columns(f, p) <= f.linesize[p],
           NEW l \in 0..(Lines(f, p) - 1), NEW c \in 0..(Columns(f, p) - 1)
    PROVE  /\ Place(f, p, l, c) \in 1..FrameSize(f)
           /\ WriteYUV420ToFile(f, n)[Place(f, p, l, c)] = <<n, p, l, c>>
<1> DEFINE j == (l * Columns(f, p)) + c + 1
           s == f.linesize[p]
           offset == (l * s) + c
<1>1. j \in 1..Taken(f, p) /\ Offsets(f, p)[j] = offset
  BY PixelOffset
<1>2. /\ Before(f, p) + j \in 1..FrameSize(f)
      /\ WriteYUV420ToFile(f, n)[Before(f, p) + j] = Byte(f, n, p, offset)
  <2> HIDE DEF j, offset
  <2> QED BY <1>1, FrameBytes
<1>3. s \in Nat \ {0} /\ l \in Nat /\ c \in 0..(s - 1) /\ c < Columns(f, p)
  BY PlaneTypes
<1>4. offset \div s = l /\ offset % s = c
  <2> HIDE DEF s
  <2> QED BY <1>3, LineAndColumn
<1>5. Byte(f, n, p, offset) = <<n, p, l, c>>
  <2> HIDE DEF offset
  <2> QED BY <1>3, <1>4 DEF Byte
<1> QED BY <1>2, <1>5 DEF Place

\* Frames of one even size take the same bytes of a file, however padded.
LEMMA SameLayout ==
    ASSUME NEW f \in Frame, NEW g \in Frame, Even(f),
           g.width = f.width, g.height = f.height
    PROVE  /\ Even(g) /\ FrameSize(g) = FrameSize(f)
           /\ \A p \in Planes : /\ Columns(g, p) = Columns(f, p)
                                /\ Lines(g, p) = Lines(f, p)
                                /\ Before(g, p) = Before(f, p)
<1>1. Even(g)
  BY DEF Even
<1>2. \A p \in Planes : Columns(g, p) = Columns(f, p) /\ Lines(g, p) = Lines(f, p)
  BY DEF Columns, Lines
<1>3. \A p \in Planes : Taken(g, p) = Taken(f, p)
  BY <1>1, <1>2, TakenEven
<1>4. Planes = {0, 1, 2}
  BY DEF Planes
<1>5. Taken(g, 0) = Taken(f, 0) /\ Taken(g, 1) = Taken(f, 1) /\ Taken(g, 2) = Taken(f, 2)
  BY <1>3, <1>4
<1>6. FrameSize(g) = FrameSize(f)
  BY <1>5 DEF FrameSize
<1>7. \A p \in Planes : Before(g, p) = Before(f, p)
  BY <1>4, <1>5 DEF Before
<1> QED BY <1>1, <1>2, <1>6, <1>7

\* A reader of frame g looks for a pixel where a writer of frame f put it.
LEMMA PixelSought ==
    ASSUME NEW f \in Frame, NEW g \in Frame, Even(f),
           g.width = f.width, g.height = f.height,
           NEW k \in Nat \ {0}, NEW p \in Planes,
           Columns(g, p) <= g.linesize[p],
           NEW l \in 0..(Lines(f, p) - 1), NEW c \in 0..(Columns(f, p) - 1)
    PROVE  Position(g, k, p, (l * g.linesize[p]) + c)
              = ((k - 1) * FrameSize(f)) + Place(f, p, l, c)
<1> DEFINE j == (l * Columns(g, p)) + c + 1
           offset == (l * g.linesize[p]) + c
<1>1. /\ Even(g) /\ FrameSize(g) = FrameSize(f)
      /\ Columns(g, p) = Columns(f, p) /\ Lines(g, p) = Lines(f, p)
      /\ Before(g, p) = Before(f, p)
  BY SameLayout
<1>2. /\ j \in 1..Taken(g, p) /\ Offsets(g, p)[j] = offset
      /\ \A i \in 1..Taken(g, p) : Offsets(g, p)[i] = offset => i = j
  BY <1>1, PixelOffset
<1>3. DOMAIN Offsets(g, p) = 1..Taken(g, p)
  BY OffsetsValue
<1>4. (CHOOSE i \in DOMAIN Offsets(g, p) : Offsets(g, p)[i] = offset) = j
  <2> HIDE DEF j, offset
  <2> QED BY <1>2, <1>3
<1>5. Position(g, k, p, offset) = ((k - 1) * FrameSize(g)) + Before(g, p) + j
  <2> HIDE DEF j, offset
  <2> QED BY <1>4 DEF Position
<1>6. FrameSize(g) \in Nat /\ Before(g, p) \in Nat /\ j \in Nat
  <2>1. \A q \in Planes : Taken(g, q) \in Nat
    BY OffsetsValue
  <2>2. Taken(g, 0) \in Nat /\ Taken(g, 1) \in Nat /\ Taken(g, 2) \in Nat
    BY <2>1 DEF Planes
  <2>3. Before(g, p) \in Nat
    BY <2>2 DEF Before, Planes
  <2>4. j \in Nat
    <3> HIDE DEF j
    <3> QED BY <1>2, <2>1
  <2> QED BY <2>2, <2>3, <2>4 DEF FrameSize
<1>7. Place(f, p, l, c) = Before(g, p) + j
  BY <1>1 DEF Place
<1>8. (k - 1) * FrameSize(g) \in Nat
  BY <1>6
<1> HIDE DEF j
<1>9. ((k - 1) * FrameSize(g)) + Before(g, p) + j
         = ((k - 1) * FrameSize(g)) + (Before(g, p) + j)
  BY <1>6, <1>8
<1> QED BY <1>1, <1>5, <1>7, <1>9

-----------------------------------------------------------------------------
(* The file                                                                 *)

\* The bytes of a file after the frames of a sequence were written.
Holds(bytes, f, frames) ==
    /\ bytes \in Seq(Bytes(f))
    /\ Len(bytes) = Len(frames) * FrameSize(f)
    /\ \A k \in 1..Len(frames) : \A j \in 1..FrameSize(f) :
          bytes[((k - 1) * FrameSize(f)) + j] = WriteYUV420ToFile(f, frames[k])[j]

LEMMA HoldsNone ==
    ASSUME NEW f \in Frame
    PROVE  Holds(<<>>, f, <<>>)
<1>1. FrameSize(f) \in Nat
  <2>1. Taken(f, 0) \in Nat /\ Taken(f, 1) \in Nat /\ Taken(f, 2) \in Nat
    BY OffsetsValue DEF Planes
  <2> QED BY <2>1 DEF FrameSize
<1> QED BY <1>1 DEF Holds

\* One more frame is appended to the file.
LEMMA HoldsMore ==
    ASSUME NEW f \in Frame, NEW frames \in Seq(1..MaxPackets), NEW bytes,
           Holds(bytes, f, frames), NEW n \in 1..MaxPackets
    PROVE  Holds(bytes \o WriteYUV420ToFile(f, n), f, Append(frames, n))
<1> DEFINE W == WriteYUV420ToFile(f, n)
           F == FrameSize(f)
           m == Len(frames)
           b == bytes \o W
           fs == Append(frames, n)
<1>1. W \in Seq(Bytes(f)) /\ Len(W) = F /\ F \in Nat
  BY FrameBytes
<1>2. bytes \in Seq(Bytes(f)) /\ Len(bytes) = m * F /\ m \in Nat
  BY DEF Holds
<1>3. \A k \in 1..m : \A j \in 1..F :
         bytes[((k - 1) * F) + j] = WriteYUV420ToFile(f, frames[k])[j]
  BY DEF Holds
<1>4. /\ Len(fs) = m + 1 /\ fs[m + 1] = n
      /\ \A k \in 1..m : fs[k] = frames[k]
  BY <1>2
<1>5. m * F \in Nat /\ (m + 1) * F = (m * F) + F
  BY <1>1, <1>2
<1> HIDE DEF W, F
<1>6. /\ b \in Seq(Bytes(f)) /\ Len(b) = (m * F) + F
      /\ \A i \in 1..(m * F) : b[i] = bytes[i]
      /\ \A i \in 1..F : b[(m * F) + i] = W[i]
  <2> DEFINE x == m * F
  <2>1. Len(bytes) = x /\ x \in Nat
    BY <1>2, <1>5
  <2>2. bytes \in Seq(Bytes(f))
    BY <1>2
  <2> HIDE DEF x
  <2>3. /\ b \in Seq(Bytes(f)) /\ Len(b) = x + F
        /\ \A i \in 1..x : b[i] = bytes[i]
        /\ \A i \in 1..F : b[x + i] = W[i]
    <3>1. b \in Seq(Bytes(f)) /\ Len(b) = x + F
      BY <2>1, <2>2, <1>1, ConcatProperties
    <3>2. \A i \in 1..(x + F) : b[i] = IF i <= x THEN bytes[i] ELSE W[i - x]
      BY <2>1, <2>2, <1>1, ConcatProperties
    <3> HIDE DEF b
    <3> QED BY <3>1, <3>2, <2>1, <1>1
  <2> QED BY <2>3 DEF x
<1>7. ASSUME NEW k \in 1..m, NEW j \in 1..F
      PROVE  ((k - 1) * F) + j \in 1..(m * F)
  <2>1. PICK e \in Nat : m = k + e
    <3>1. m - k \in Nat
      BY <1>2
    <3> QED BY <3>1, <1>2
  <2>2. m * F = ((k - 1) * F) + F + (e * F)
    BY <2>1, <1>1
  <2>3. e * F \in Nat /\ (k - 1) * F \in Nat
    BY <1>1
  <2> QED BY <2>2, <2>3, <1>1
<1>8. ASSUME NEW k \in 1..(m + 1), NEW j \in 1..F
      PROVE  b[((k - 1) * F) + j] = WriteYUV420ToFile(f, fs[k])[j]
  <2>1. CASE k \in 1..m
    <3>1. b[((k - 1) * F) + j] = bytes[((k - 1) * F) + j]
      BY <2>1, <1>6, <1>7
    <3> QED BY <2>1, <3>1, <1>3, <1>4
  <2>2. CASE k = m + 1
    <3>1. k - 1 = m
      BY <2>2, <1>2
    <3>2. b[((k - 1) * F) + j] = W[j]
      BY <3>1, <1>6
    <3>3. fs[k] = n
      BY <2>2, <1>4
    <3> QED BY <3>2, <3>3 DEF W
  <2>3. k \in 1..m \/ k = m + 1
    <3>1. m \in Nat
      BY <1>2
    <3> HIDE DEF m
    <3> QED BY <3>1
  <2> QED BY <2>1, <2>2, <2>3
<1>9. Len(b) = Len(fs) * F
  BY <1>4, <1>5, <1>6
<1>10. Holds(b, f, fs)
  <2> HIDE DEF b, fs
  <2> QED BY <1>4, <1>6, <1>8, <1>9 DEF Holds, F
<1> QED BY <1>10 DEF W

\* A reader with any padding gets each pixel of each frame.
LEMMA HoldsRead ==
    ASSUME NEW f \in Frame, NEW g \in Frame, Even(f),
           g.width = f.width, g.height = f.height,
           NEW frames \in Seq(1..MaxPackets), NEW bytes, Holds(bytes, f, frames),
           NEW k \in 1..Len(frames), NEW p \in Planes,
           Columns(f, p) <= f.linesize[p], Columns(f, p) <= g.linesize[p],
           NEW l \in 0..(Lines(f, p) - 1), NEW c \in 0..(Columns(f, p) - 1)
    PROVE  ReadYUV420FromFile(g, bytes, k, p, l, c) = <<frames[k], p, l, c>>
<1>1. Columns(g, p) = Columns(f, p)
  BY SameLayout
<1>2. k \in Nat \ {0} /\ frames[k] \in 1..MaxPackets
  <2>1. Len(frames) \in Nat
    OBVIOUS
  <2>2. frames[k] \in 1..MaxPackets
    BY ElementOfSeq
  <2> QED BY <2>1, <2>2
<1>3. Position(g, k, p, (l * g.linesize[p]) + c)
         = ((k - 1) * FrameSize(f)) + Place(f, p, l, c)
  BY <1>1, <1>2, PixelSought
<1>4. /\ Place(f, p, l, c) \in 1..FrameSize(f)
      /\ WriteYUV420ToFile(f, frames[k])[Place(f, p, l, c)] = <<frames[k], p, l, c>>
  BY <1>2, PixelWritten
<1>5. bytes[((k - 1) * FrameSize(f)) + Place(f, p, l, c)] = <<frames[k], p, l, c>>
  BY <1>4 DEF Holds
<1> QED BY <1>3, <1>5 DEF ReadYUV420FromFile

-----------------------------------------------------------------------------
(* The inductive invariant                                                  *)

Types ==
    /\ pc \in {"start", "open", "find", "codec", "read", "send", "receive",
               "failed", "returned", "crashed"}
    /\ format \in Formats
    /\ avCodecContext \in {"uninitialised", "null", "set"}
    /\ ready \in BOOLEAN
    /\ read \in 0..MaxPackets /\ (pc = "send" => read > 0)
    /\ held \subseteq 1..MaxPackets /\ Cardinality(held) <= Slots
    /\ given \in Seq(1..MaxPackets)
    /\ refused \in BOOLEAN /\ broken \in BOOLEAN
    /\ ret \in {-1, 0, NoRet}

\* Until it is created the file is absent; then it holds the frames given.
FileOk == format.planar => Holds(file, format, given)

FileInv ==
    /\ pc = "start" => file = NoFile
    /\ pc \in {"start", "open"} => given = <<>>
    /\ pc \notin {"start", "returned"} => FileOk
    /\ pc = "returned" /\ file # NoFile => FileOk

\* The packets offered to the decoder.
Sent == 1..(IF pc = "send" THEN read - 1 ELSE read)

\* As long as it takes and decodes all of them, it has given their frames or
\* holds them.
Kept == ~refused /\ ~broken =>
            ToSet(given) \cup held = Sent /\ ToSet(given) \cap held = {}

IInv == Types /\ FileInv /\ Kept

LEMMA HeldFinite ==
    ASSUME Types
    PROVE  IsFiniteSet(held) /\ Cardinality(held) \in Nat
<1>1. MaxPackets \in Nat
  BY DecodeAssumption
<1>2. IsFiniteSet(1..MaxPackets)
  BY <1>1, FS_Interval
<1>3. IsFiniteSet(held)
  BY <1>2, FS_Subset DEF Types
<1> QED BY <1>3, FS_CardinalityType

LEMMA Initially == Init => IInv
<1> SUFFICES ASSUME Init PROVE IInv
  OBVIOUS
<1>1. IsFiniteSet({}) /\ Cardinality({}) = 0
  BY FS_EmptySet
<1>2. Types
  <2>1. held = {} /\ Cardinality(held) <= Slots
    BY <1>1, DecodeAssumption DEF Init
  <2>2. given \in Seq(1..MaxPackets)
    BY DEF Init
  <2>3. read \in 0..MaxPackets
    BY DecodeAssumption DEF Init
  <2> QED BY <2>1, <2>2, <2>3 DEF Init, Types
<1>3. FileInv
  BY DEF Init, FileInv
<1>4. ToSet(given) = {}
  BY DEF Init, ToSet
<1>5. Kept
  BY <1>4 DEF Init, Kept, Sent
<1> QED BY <1>2, <1>3, <1>5 DEF IInv

\* What a step does to the packets in the decoder keeps within its slots.
LEMMA StillFits ==
    ASSUME Types, NEW x
    PROVE  /\ Cardinality(held) < Slots => Cardinality(held \cup {x}) <= Slots
           /\ x \in held => Cardinality(held \ {x}) <= Slots
           /\ \A n \in held \cup {x} : Cardinality((held \cup {x}) \ {n}) <= Slots
<1>1. IsFiniteSet(held) /\ Cardinality(held) \in Nat /\ Cardinality(held) <= Slots
      /\ Slots \in Nat
  BY HeldFinite, DecodeAssumption DEF Types
<1>2. /\ IsFiniteSet(held \cup {x})
      /\ Cardinality(held \cup {x}) = IF x \in held THEN Cardinality(held)
                                                    ELSE Cardinality(held) + 1
  BY <1>1, FS_AddElement
<1>3. Cardinality(held \ {x}) = IF x \in held THEN Cardinality(held) - 1
                                              ELSE Cardinality(held)
  BY <1>1, FS_RemoveElement
<1>4. ASSUME NEW n \in held \cup {x}
      PROVE  Cardinality((held \cup {x}) \ {n}) = Cardinality(held \cup {x}) - 1
  BY <1>2, FS_RemoveElement
<1>5. \A n \in held \cup {x} : Cardinality((held \cup {x}) \ {n}) <= Slots
  BY <1>1, <1>2, <1>4
<1> QED BY <1>1, <1>2, <1>3, <1>5

LEMMA TypesKept ==
    ASSUME Types, [Next]_vars
    PROVE  Types'
<1> USE DecodeAssumption
<1>1. CASE fopen_fails
  BY <1>1 DEF fopen_fails, Return, Types, codec
<1>2. CASE fopen_output
  BY <1>2 DEF fopen_output, Types, codec
<1>3. CASE open_input_fails
  BY <1>3 DEF open_input_fails, Return, Types, codec
<1>4. CASE avformat_open_input
  BY <1>4 DEF avformat_open_input, Types, codec
<1>5. CASE nothing_to_decode
  BY <1>5 DEF nothing_to_decode, Types, codec
<1>6. CASE avcodec_alloc_context3
  BY <1>6 DEF avcodec_alloc_context3, Types, codec
<1>7. CASE avcodec_open2
  BY <1>7 DEF avcodec_open2, Types, codec
<1>8. CASE av_read_frame
  BY <1>8 DEF av_read_frame, Types
<1>9. CASE end_of_input
  BY <1>9 DEF end_of_input, Types, codec
<1>10. CASE send_refused
  BY <1>10 DEF send_refused, Types
<1>11. CASE avcodec_send_packet
  <2>1. Cardinality(held') <= Slots
    BY <1>11, StillFits DEF avcodec_send_packet
  <2>2. read \in 1..MaxPackets
    BY <1>11 DEF avcodec_send_packet, Types
  <2> QED BY <1>11, <2>1, <2>2 DEF avcodec_send_packet, Types
<1>12. CASE avcodec_receive_frame
  <2>1. PICK n \in held : held' = held \ {n} /\ given' = Append(given, n)
    BY <1>12 DEF avcodec_receive_frame
  <2>2. Cardinality(held') <= Slots
    BY <2>1, StillFits
  <2>3. given' \in Seq(1..MaxPackets)
    BY <2>1 DEF Types
  <2> QED BY <1>12, <2>1, <2>2, <2>3 DEF avcodec_receive_frame, Types
<1>13. CASE send_fails
  <2>1. PICK n \in held \cup {read} : held' = (held \cup {read}) \ {n}
    BY <1>13 DEF send_fails
  <2>2. Cardinality(held') <= Slots
    BY <2>1, StillFits
  <2>3. read \in 1..MaxPackets
    BY <1>13 DEF send_fails, Types
  <2> QED BY <1>13, <2>1, <2>2, <2>3 DEF send_fails, Types
<1>14. CASE receive_fails
  <2>1. PICK n \in held : held' = held \ {n}
    BY <1>14 DEF receive_fails
  <2>2. Cardinality(held') <= Slots
    BY <2>1, StillFits
  <2> QED BY <1>14, <2>1, <2>2 DEF receive_fails, Types
<1>15. CASE receive_again
  BY <1>15 DEF receive_again, Types, codec
<1>16. CASE failed
  BY <1>16 DEF failed, Return, Status, Types, codec
<1>17. CASE UNCHANGED vars
  BY <1>17 DEF vars, codec, Types
<1> QED
  BY <1>1, <1>2, <1>3, <1>4, <1>5, <1>6, <1>7, <1>8, <1>9, <1>10, <1>11,
     <1>12, <1>13, <1>14, <1>15, <1>16, <1>17 DEF Next

LEMMA FilesKept ==
    ASSUME Types, FileInv, [Next]_vars
    PROVE  FileInv'
<1>1. CASE fopen_fails
  BY <1>1 DEF fopen_fails, Return, FileInv, codec
<1>2. CASE fopen_output
  <2>1. file' = <<>> /\ given' = <<>> /\ pc' = "open" /\ format' = format
    BY <1>2 DEF fopen_output, FileInv, codec
  <2>2. format \in Frame
    BY DecodeAssumption DEF Types
  <2>3. FileOk'
    BY <2>1, <2>2, HoldsNone DEF FileOk
  <2> QED BY <2>1, <2>3 DEF FileInv
<1>3. CASE avcodec_receive_frame
  <2>1. PICK n \in held : /\ given' = Append(given, n)
                          /\ format.planar =>
                                file' = file \o WriteYUV420ToFile(format, n)
    BY <1>3 DEF avcodec_receive_frame
  <2>2. pc = "receive" /\ pc' \in {"receive", "crashed"} /\ format' = format
    BY <1>3 DEF avcodec_receive_frame
  <2>3. format \in Frame /\ given \in Seq(1..MaxPackets) /\ n \in 1..MaxPackets
    BY DecodeAssumption DEF Types
  <2>4. FileOk
    BY <2>2 DEF FileInv
  <2>5. FileOk'
    BY <2>1, <2>2, <2>3, <2>4, HoldsMore DEF FileOk
  <2> QED BY <2>2, <2>5 DEF FileInv
<1>4. ASSUME file' = file, given' = given, format' = format, pc' # "start",
             pc' = "open" => pc = "open",
             pc \in {"start", "returned"} => pc' = pc
      PROVE  FileInv'
  BY <1>4 DEF FileInv, FileOk
<1>5. CASE open_input_fails
  BY <1>4, <1>5 DEF open_input_fails, Return, codec
<1>6. CASE avformat_open_input
  BY <1>4, <1>6 DEF avformat_open_input, codec
<1>7. CASE nothing_to_decode
  BY <1>4, <1>7 DEF nothing_to_decode, codec
<1>8. CASE avcodec_alloc_context3
  BY <1>4, <1>8 DEF avcodec_alloc_context3, codec
<1>9. CASE avcodec_open2
  BY <1>4, <1>9 DEF avcodec_open2, codec
<1>10. CASE av_read_frame
  BY <1>4, <1>10 DEF av_read_frame
<1>11. CASE end_of_input
  BY <1>4, <1>11 DEF end_of_input, codec
<1>12. CASE send_refused
  BY <1>4, <1>12 DEF send_refused
<1>13. CASE avcodec_send_packet
  BY <1>4, <1>13 DEF avcodec_send_packet
<1>14. CASE send_fails
  BY <1>4, <1>14 DEF send_fails
<1>15. CASE receive_fails
  BY <1>4, <1>15 DEF receive_fails
<1>16. CASE receive_again
  BY <1>4, <1>16 DEF receive_again, codec
<1>17. CASE failed
  BY <1>4, <1>17 DEF failed, Return, codec
<1>18. CASE UNCHANGED vars
  BY <1>18 DEF vars, codec, FileInv, FileOk
<1> QED
  BY <1>1, <1>2, <1>3, <1>5, <1>6, <1>7, <1>8, <1>9, <1>10, <1>11, <1>12,
     <1>13, <1>14, <1>15, <1>16, <1>17, <1>18 DEF Next

\* The frames given after one more.
LEMMA GivenMore ==
    ASSUME NEW s \in Seq(1..MaxPackets), NEW n \in 1..MaxPackets
    PROVE  ToSet(Append(s, n)) = ToSet(s) \cup {n}
<1>1. Len(s) \in Nat /\ DOMAIN s = 1..Len(s)
  BY LenProperties
<1>2. /\ DOMAIN Append(s, n) = 1..(Len(s) + 1)
      /\ Append(s, n)[Len(s) + 1] = n
      /\ \A k \in 1..Len(s) : Append(s, n)[k] = s[k]
  BY <1>1
<1>3. 1..(Len(s) + 1) = (1..Len(s)) \cup {Len(s) + 1}
  BY <1>1
<1> QED BY <1>1, <1>2, <1>3 DEF ToSet

LEMMA PacketsKept ==
    ASSUME Types, Kept, [Next]_vars
    PROVE  Kept'
<1>1. CASE av_read_frame
  <2>1. /\ Sent' = Sent /\ given' = given /\ held' = held
        /\ refused' = refused /\ broken' = broken
    BY <1>1 DEF av_read_frame, Sent, Types
  <2> QED BY <2>1 DEF Kept
<1>2. CASE avcodec_send_packet
  <2>1. read \in Nat \ {0} /\ Sent = 1..(read - 1) /\ Sent' = 1..read
    BY <1>2 DEF avcodec_send_packet, Sent, Types
  <2>2. Sent' = Sent \cup {read} /\ read \notin Sent
    BY <2>1
  <2> QED BY <1>2, <2>2 DEF avcodec_send_packet, Kept
<1>3. CASE avcodec_receive_frame
  <2>1. PICK n \in held : held' = held \ {n} /\ given' = Append(given, n)
    BY <1>3 DEF avcodec_receive_frame
  <2>2. ToSet(given') = ToSet(given) \cup {n}
    <3>1. given \in Seq(1..MaxPackets) /\ n \in 1..MaxPackets
      BY DEF Types
    <3>2. ToSet(Append(given, n)) = ToSet(given) \cup {n}
      BY <3>1, GivenMore
    <3> QED BY <2>1, <3>2
  <2>3. Sent' = Sent /\ refused' = refused /\ broken' = broken
    BY <1>3 DEF avcodec_receive_frame, Sent
  <2> QED BY <2>1, <2>2, <2>3 DEF Kept
<1>4. CASE send_refused
  BY <1>4 DEF send_refused, Kept
<1>5. CASE send_fails
  BY <1>5 DEF send_fails, Kept
<1>6. CASE receive_fails
  BY <1>6 DEF receive_fails, Kept
<1>7. ASSUME UNCHANGED codec, pc # "send", pc' # "send"
      PROVE  Kept'
  BY <1>7 DEF codec, Kept, Sent
<1>8. CASE fopen_fails
  BY <1>7, <1>8 DEF fopen_fails, Return
<1>9. CASE fopen_output
  BY <1>7, <1>9 DEF fopen_output
<1>10. CASE open_input_fails
  BY <1>7, <1>10 DEF open_input_fails, Return
<1>11. CASE avformat_open_input
  BY <1>7, <1>11 DEF avformat_open_input
<1>12. CASE nothing_to_decode
  BY <1>7, <1>12 DEF nothing_to_decode
<1>13. CASE avcodec_alloc_context3
  BY <1>7, <1>13 DEF avcodec_alloc_context3
<1>14. CASE avcodec_open2
  BY <1>7, <1>14 DEF avcodec_open2
<1>15. CASE end_of_input
  BY <1>7, <1>15 DEF end_of_input
<1>16. CASE receive_again
  BY <1>7, <1>16 DEF receive_again
<1>17. CASE failed
  BY <1>7, <1>17 DEF failed, Return
<1>18. CASE UNCHANGED vars
  BY <1>18 DEF vars, codec, Kept, Sent
<1> QED
  BY <1>1, <1>2, <1>3, <1>4, <1>5, <1>6, <1>8, <1>9, <1>10, <1>11, <1>12,
     <1>13, <1>14, <1>15, <1>16, <1>17, <1>18 DEF Next

LEMMA Inductive == IInv /\ [Next]_vars => IInv'
BY TypesKept, FilesKept, PacketsKept DEF IInv

LEMMA Always == Spec => []IInv
BY Initially, Inductive, PTL DEF Spec

-----------------------------------------------------------------------------
(* The theorems                                                             *)

LEMMA InvTypes == IInv => TypeOK
<1> SUFFICES ASSUME IInv PROVE TypeOK
  OBVIOUS
<1>1. file # NoFile => FileOk
  BY DEF IInv, FileInv
<1>2. file # NoFile => \/ Len(file) = Len(given) * FrameSize(format)
                       \/ ~format.planar
  BY <1>1 DEF FileOk, Holds
<1> QED BY <1>2 DEF IInv, Types, TypeOK

\* For any formats, packets and slots every variable keeps its type, and the
\* file is as long as the frames given make it.
THEOREM TypeCorrect == Spec => []TypeOK
BY Always, InvTypes, PTL

LEMMA InvFrames == IInv => FileHoldsFrames
<1> SUFFICES ASSUME IInv, file # NoFile, format.planar
             PROVE  FileHoldsFrames
  BY DEF FileHoldsFrames
<1>1. Types /\ Holds(file, format, given)
  BY DEF IInv, FileInv, FileOk
<1>2. format \in Frame /\ given \in Seq(1..MaxPackets)
  BY <1>1, DecodeAssumption DEF Types
<1>3. ASSUME Even(format), NEW r \in Readers, NEW k \in DOMAIN given,
             NEW p \in Planes, NEW l \in 0..(Lines(format, p) - 1),
             NEW c \in 0..(Columns(format, p) - 1)
      PROVE  ReadYUV420FromFile(As(r), file, k, p, l, c) = <<given[k], p, l, c>>
  <2>1. /\ As(r) \in Frame /\ As(r).width = format.width
        /\ As(r).height = format.height /\ As(r).linesize = r
    BY <1>2, DecodeAssumption DEF As, Frame
  <2>2. Columns(format, p) <= format.linesize[p] /\ Columns(format, p) <= r[p]
    BY <1>1, <1>3, DecodeAssumption DEF Types
  <2>3. k \in 1..Len(given)
    BY <1>2
  <2> QED BY <1>1, <1>2, <1>3, <2>1, <2>2, <2>3, HoldsRead
<1>4. ASSUME pc = "returned", ~refused, ~broken
      PROVE  (1..read) \ ToSet(given) = held
  BY <1>4 DEF IInv, Kept, Sent
<1> QED BY <1>3, <1>4 DEF FileHoldsFrames

\* For any sizes and paddings: a reader of the file with lines of any length
\* gets back every pixel of every frame the decoder gave (for even sizes), and
\* a video all of whose packets it took and could decode lacks the frames it
\* still holds, no others.
THEOREM FramesHeld == Spec => []FileHoldsFrames
BY Always, InvFrames, PTL
=============================================================================
