---------------------------- MODULE MCRtpSources ----------------------------
(* Constants for the runs of RtpSources. *)
EXTENDS RtpSources

\* Sources 1 and 2 send from the same port, source 3 from a port of its own.
MCRtpPort  == [s \in Ssrcs |-> IF s = 3 THEN 6000 ELSE 5000]
MCSenders  == [m \in Medias |-> IF m = "video" THEN Ssrcs ELSE {}]
MCRtcpPort == [s \in Ssrcs |-> MCRtpPort[s] + 1]
=============================================================================
