--------------------------- MODULE MCDecodeToYuv ---------------------------
(* Instances of DecodeToYuv for TLC.                                        *)
EXTENDS DecodeToYuv

Planar(w, h, y, c) ==
    [width |-> w, height |-> h, planar |-> TRUE,
     linesize |-> [p \in Planes |-> IF p = 0 THEN y ELSE c]]

\* Even sizes, with lines padded in no plane, in all, in luma or in chroma
\* alone; odd ones; chroma in one plane.
TheFormats ==
    {Planar(4, 4, 4, 2), Planar(4, 4, 6, 3), Planar(4, 4, 6, 2), Planar(4, 4, 4, 4),
     Planar(5, 4, 6, 3), Planar(4, 3, 4, 2)}
      \cup {[Planar(4, 4, 4, 4) EXCEPT !.planar = FALSE]}

TheReaders == {[p \in Planes |-> IF p = 0 THEN l[1] ELSE l[2]] : l \in {<<4, 2>>, <<8, 4>>}}
=============================================================================
