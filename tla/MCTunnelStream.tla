--------------------------- MODULE MCTunnelStream ---------------------------
(* Frames for TunnelStream: payloads that look like a header, a response or *)
(* nothing, an RTCP frame, and one on a channel the session does not have.  *)
EXTENDS TunnelStream

NoFrames   == {}
LikeHeader == [ch |-> 0, payload |-> <<36, 0>>]
LikeText   == [ch |-> 1, payload |-> <<82, 84>>]
Empty      == [ch |-> 0, payload |-> <<>>]
Foreign    == [ch |-> 2, payload |-> <<7>>]

SomeFrames == {LikeHeader, LikeText, Foreign}
LiveFrames == {LikeHeader, Empty}
=============================================================================
