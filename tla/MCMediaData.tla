---------------------------- MODULE MCMediaData ----------------------------
(* Constants for the runs of MediaData. *)
EXTENDS MediaData

Video(e, p) == [EncodeType |-> e, Packetization |-> p, XPS |-> TRUE]
Audio(e)    == [EncodeType |-> e, Packetization |-> 0, XPS |-> FALSE]
Unit(nt, n, s, o) == [nt |-> nt, n |-> n, size |-> s, offset |-> o]

Described(v, a) == [m \in Medias |-> IF m = "video" THEN v ELSE a]
MCFrameTypes == {Described(Video("H264", 1), Audio("MPA")),
                 Described(Video("H265", 0), Audio("PCMU"))}
\* Video packets that are empty, as large as VideoBuffer, larger, two fragments,
\* and a fragment shorter than its header; FUs are unknown to H264, FU_A to H265.
\* The second audio packet is a fragment.
MCShapes == [m \in Medias |->
    IF m = "video"
    THEN {Unit("NAL", 1, 0, 0), Unit("NAL", 1, 7, 0), Unit("NAL", 1, 8, 0),
          Unit("FU_A", 2, 3, 0), Unit("FUs", 1, 1, 0)}
    ELSE {Unit("audio", 1, 5, 0), Unit("audio", 1, 6, 3)}]
MCUnits == [m \in Medias |-> IF m = "video" THEN 3 ELSE 1]
MCFaults == [m \in Medias |-> IF m = "video" THEN 1 ELSE 0]
NoFaults == [m \in Medias |-> 0]
OneThread  == [m \in Medias |-> "app"]
TwoThreads == [m \in Medias |-> m]
=============================================================================
