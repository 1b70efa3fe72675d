---------------------------- MODULE DecodeToYuv ----------------------------
(* DecodeVideoAndWriteYUV420 (hw_decode_video.cpp), which the native method *)
(* merge calls, with decode (codecimpl.cpp) and the writer of frames.       *)
EXTENDS Yuv420, FiniteSets, SequencesExt

CONSTANTS
    Formats,      \* the frames the decoder may give: size, lines and layout
    Readers,      \* linesizes a reader of the file may have
    Slots,        \* bound: packets and frames a decoder holds
    MaxPackets    \* bound: packets of the video stream

Frame == [width : Nat, height : Nat, planar : BOOLEAN,
          linesize : [Planes -> Nat \ {0}]]

Even(f) == f.width % 2 = 0 /\ f.height % 2 = 0

\* A line is at least as long as what it holds, in memory and at a reader's.
ASSUME DecodeAssumption ==
    /\ Formats \subseteq Frame
    /\ Readers \subseteq [Planes -> Nat \ {0}]
    /\ \A f \in Formats : \A p \in Planes :
          f.planar => /\ Columns(f, p) <= f.linesize[p]
                      /\ Even(f) => \A r \in Readers : Columns(f, p) <= r[p]
    /\ Slots \in Nat \ {0}
    /\ MaxPackets \in Nat

VARIABLES
    pc,
    format,         \* of all frames of the video
    file,           \* bytes of the output; NoFile before it is created
    avCodecContext, \* "uninitialised", "null" or "set"
    ready,          \* avcodec_open2 succeeded
    read,           \* packets of the video stream read
    held,           \* frames of packets the decoder took and has not given
    given,          \* history: frames the decoder gave, in order
    refused,        \* history: a packet was not taken
    broken,         \* history: a frame could not be decoded
    ret             \* what is returned

codec   == <<read, held, given, refused, broken>>
vars    == <<pc, format, file, avCodecContext, ready, codec, ret>>

NoFile == <<-1>>
NoRet  == 2

Init ==
    /\ pc = "start"
    /\ format \in Formats
    /\ file = NoFile
    /\ avCodecContext = "uninitialised"
    /\ ready = FALSE
    /\ read = 0 /\ held = {} /\ given = <<>>
    /\ refused = FALSE /\ broken = FALSE
    /\ ret = NoRet

Return(value) == pc' = "returned" /\ ret' = value

-----------------------------------------------------------------------------
(* Opening                                                                  *)

fopen_fails ==
    /\ pc = "start"
    /\ Return(-1)
    /\ UNCHANGED <<format, file, avCodecContext, ready, codec>>

\* fopen "wb"
fopen_output ==
    /\ pc = "start"
    /\ file' = <<>>
    /\ pc' = "open"
    /\ UNCHANGED <<format, avCodecContext, ready, codec, ret>>

\* The output file stays open.
open_input_fails ==
    /\ pc = "open"
    /\ Return(-1)
    /\ UNCHANGED <<format, file, avCodecContext, ready, codec>>

avformat_open_input ==
    /\ pc = "open"
    /\ pc' = "find"
    /\ UNCHANGED <<format, file, avCodecContext, ready, codec, ret>>

\* No stream information, no video stream or no decoder for it.
nothing_to_decode ==
    /\ pc = "find"
    /\ pc' = "failed"
    /\ UNCHANGED <<format, file, avCodecContext, ready, codec, ret>>

avcodec_alloc_context3 ==
    /\ pc = "find"
    /\ \/ avCodecContext' = "null" /\ pc' = "failed"
       \/ avCodecContext' = "set" /\ pc' = "codec"
    /\ UNCHANGED <<format, file, ready, codec, ret>>

\* avcodec_parameters_to_context and avcodec_open2
avcodec_open2 ==
    /\ pc = "codec"
    /\ \/ pc' = "failed" /\ UNCHANGED ready
       \/ pc' = "read" /\ ready' = TRUE
    /\ UNCHANGED <<format, file, avCodecContext, codec, ret>>

-----------------------------------------------------------------------------
(* Decoding                                                                 *)

\* A packet of the video stream; those of other streams are dropped.
av_read_frame ==
    /\ pc = "read"
    /\ read < MaxPackets
    /\ read' = read + 1
    /\ pc' = "send"
    /\ UNCHANGED <<format, file, avCodecContext, ready, held, given, refused,
                   broken, ret>>

\* av_read_frame fails: nothing is asked of the decoder any more.
end_of_input ==
    /\ pc = "read"
    /\ pc' = "failed"
    /\ UNCHANGED <<format, file, avCodecContext, ready, codec, ret>>

\* decode: a decoder with all its slots in use may answer EAGAIN; decode
\* returns -1, which the caller ignores, and the packet is gone.
send_refused ==
    /\ pc = "send"
    /\ Cardinality(held) = Slots
    /\ refused' = TRUE
    /\ pc' = "read"
    /\ UNCHANGED <<format, file, avCodecContext, ready, read, held, given, broken, ret>>

avcodec_send_packet ==
    /\ pc = "send"
    /\ Cardinality(held) < Slots
    /\ held' = held \cup {read}
    /\ pc' = "receive"
    /\ UNCHANGED <<format, file, avCodecContext, ready, read, given, refused, broken, ret>>

\* A frame held, in the order of the decoder, and the callback.  The writer
\* takes data[2] for a plane of its own: with interleaved chroma it is NULL.
avcodec_receive_frame ==
    /\ pc = "receive"
    /\ \E n \in held :
          /\ held' = held \ {n}
          /\ given' = Append(given, n)
          /\ IF format.planar
             THEN /\ file' = file \o WriteYUV420ToFile(format, n)
                  /\ UNCHANGED pc
             ELSE /\ pc' = "crashed"
                  /\ UNCHANGED file
    /\ UNCHANGED <<format, avCodecContext, ready, read, refused, broken, ret>>

\* A frame that cannot be decoded, met when the packet is sent or a frame asked
\* for: decode returns -1, which is ignored.
send_fails ==
    /\ pc = "send"
    /\ \E n \in held \cup {read} : held' = (held \cup {read}) \ {n}
    /\ broken' = TRUE
    /\ pc' = "read"
    /\ UNCHANGED <<format, file, avCodecContext, ready, read, given, refused, ret>>

receive_fails ==
    /\ pc = "receive"
    /\ \E n \in held : held' = held \ {n}
    /\ broken' = TRUE
    /\ pc' = "read"
    /\ UNCHANGED <<format, file, avCodecContext, ready, read, given, refused, ret>>

\* EAGAIN: the next packet is read.
receive_again ==
    /\ pc = "receive"
    /\ pc' = "read"
    /\ UNCHANGED <<format, file, avCodecContext, ready, codec, ret>>

\* Mutant of Status: ret is what decode returned.
StatusOfDecode == IF refused \/ broken THEN 1 ELSE 0

\* ret < 0: ret is 0 from the beginning, nothing is ever assigned to it.
Status == 0

\* The label failed, reached on every way out but the first two: an
\* uninitialised pointer is freed, or everything is, and the status returned.
failed ==
    /\ pc = "failed"
    /\ \/ Return(Status)
       \/ /\ avCodecContext = "uninitialised"
          /\ pc' = "crashed" /\ UNCHANGED ret
    /\ UNCHANGED <<format, file, avCodecContext, ready, codec>>

Next ==
    \/ fopen_fails \/ fopen_output \/ open_input_fails \/ avformat_open_input
    \/ nothing_to_decode \/ avcodec_alloc_context3 \/ avcodec_open2
    \/ av_read_frame \/ end_of_input
    \/ send_refused \/ send_fails \/ avcodec_send_packet
    \/ avcodec_receive_frame \/ receive_fails \/ receive_again
    \/ failed

Spec == Init /\ [][Next]_vars

-----------------------------------------------------------------------------
(* Properties                                                               *)

TypeOK ==
    /\ pc \in {"start", "open", "find", "codec", "read", "send", "receive",
               "failed", "returned", "crashed"}
    /\ format \in Formats
    /\ file # NoFile => Len(file) = Len(given) * FrameSize(format)
                        \/ ~format.planar
    /\ avCodecContext \in {"uninitialised", "null", "set"}
    /\ ready \in BOOLEAN
    /\ read \in 0..MaxPackets
    /\ held \subseteq 1..MaxPackets /\ Cardinality(held) <= Slots
    /\ given \in Seq(1..MaxPackets)
    /\ refused \in BOOLEAN /\ broken \in BOOLEAN
    /\ ret \in {-1, 0, NoRet}

As(r)   == [format EXCEPT !.linesize = r]

\* The file holds every frame the decoder gave, in order and whole: a reader
\* whose lines are padded otherwise gets each pixel back (for even sizes; of an
\* odd one the writer leaves a column or a line out).  As long as the decoder
\* took and could decode every packet, the frames missing are those it holds.
FileHoldsFrames ==
    file # NoFile /\ format.planar =>
        /\ Even(format) =>
              \A r \in Readers : \A k \in DOMAIN given : \A p \in Planes :
                  \A l \in 0..(Lines(format, p) - 1), c \in 0..(Columns(format, p) - 1) :
                      ReadYUV420FromFile(As(r), file, k, p, l, c) = <<given[k], p, l, c>>
        /\ pc = "returned" /\ ~refused /\ ~broken =>
              (1..read) \ ToSet(given) = held

\* What the documentation says of 0: success, every frame of the video is in
\* the file.
ZeroMeansDecoded == ret = 0 => ready /\ ToSet(given) = 1..read
=============================================================================
