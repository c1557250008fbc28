---------------------------- MODULE FrameChannel ----------------------------
(***************************************************************************)
(* What an interleaved RTSP connection promises to the RTP session on top  *)
(* of it: the frames the server sends on the session's channels come out   *)
(* whole, once and in the order they were sent.  Two things may go wrong   *)
(* and nothing else: a frame is given up when memory runs out (Lossy), and *)
(* the one frame the server was sending when the connection ended may come *)
(* out with its tail unknown.                                              *)
(***************************************************************************)
EXTENDS Integers, Sequences

CONSTANTS Frames,  \* [ch, payload]: what the server may send to the session
          Lossy    \* an allocation may fail

VARIABLES sent,    \* frames the server sent
          taken,   \* how many of them left the channel
          out      \* what came out

vars == <<sent, taken, out>>

Unknown == -1      \* a byte that was never received

\* The connection ended in the middle of the last frame that came out.
Ended == out # <<>> /\ \E i \in DOMAIN out[Len(out)].payload :
                           out[Len(out)].payload[i] = Unknown

Init == sent = <<>> /\ taken = 0 /\ out = <<>>

Send(f) == sent' = Append(sent, f) /\ UNCHANGED <<taken, out>>

Deliver ==
    /\ ~Ended /\ taken < Len(sent)
    /\ taken' = taken + 1
    /\ out' = Append(out, sent[taken + 1])
    /\ UNCHANGED sent

GiveUp ==
    /\ Lossy /\ ~Ended /\ taken < Len(sent)
    /\ taken' = taken + 1
    /\ UNCHANGED <<sent, out>>

\* k bytes of the payload arrived, fewer than there were; nothing follows.
CutShort(k) ==
    /\ ~Ended /\ taken < Len(sent)
    /\ LET f == sent[taken + 1]
       IN /\ k < Len(f.payload)
          /\ out' = Append(out, [f EXCEPT !.payload =
                       [i \in 1 .. Len(@) |-> IF i <= k THEN @[i] ELSE Unknown]])
    /\ taken' = taken + 1
    /\ UNCHANGED sent

Lengths == {Len(f.payload) : f \in Frames}

Next == \/ \E f \in Frames : Send(f)
        \/ Deliver
        \/ GiveUp
        \/ \E n \in Lengths : \E k \in 0 .. n : CutShort(k)

Spec == Init /\ [][Next]_vars
=============================================================================
