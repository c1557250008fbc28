---------------------------- MODULE MCSdpSessions ----------------------------
(* Constants for the run of SdpSessions. *)
EXTENDS SdpSessions

M(m, fmts) == [key |-> "m", media |-> m, fmts |-> fmts]
Map(p, c, r) == [key |-> "rtpmap", pt |-> p, codec |-> c, rate |-> r]

\* Payload type 0 is in the table of rates, 96 and 97 are behind it; 96 is used
\* by video and audio.
MCLines == {
    [key |-> "t"], [key |-> "other"],
    M("video", {96}), M("video", {96, 97}), M("audio", {0}), M("audio", {96}),
    Map(96, "H264", 90000), Map(96, "MPA", 44100),
    [key |-> "fmtpH264", pt |-> 96, mode |-> 1], [key |-> "fmtpH265", pt |-> 97],
    [key |-> "control", uri |-> "rtsp://"], [key |-> "control", uri |-> "track"]}
=============================================================================
