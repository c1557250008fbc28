------------------------- MODULE TunnelFramesProofs -------------------------
(***************************************************************************)
(* PollSocket takes the stream apart where the server put it together: the *)
(* tunnel implements FrameChannel, for any frames, responses and timing.   *)
(* Needed is that nobody else reads the stream (Alone), and that a frame   *)
(* of a channel the session does not have, which PollSocket skips byte by  *)
(* byte, has no byte that looks like the beginning of something (Distinct).*)
(***************************************************************************)
EXTENDS TunnelStream, TLAPS, SequenceTheorems

Alone == Waits \subseteq {FALSE}
Marks == {Dollar, RTSP[1]}
Distinct ==
    \A f \in Frames : f.ch \notin {0, 1} =>
        /\ f.ch # RTSP[2]
        /\ \A j \in 3 .. Len(Wire(f)) : Wire(f)[j] \notin Marks

-----------------------------------------------------------------------------
(* Units and where they are *)

Answer == [number : Nat \ {0}]
Unit == Frames \cup Answer
Good(u) == u \in Frames /\ u.ch \in {0, 1}
Bytes(u) == IF u \in Frames THEN Wire(u) ELSE Text(u.number)

\* Unit i is behind the first pos[i] unread bytes; it is partly or wholly read if
\* that is negative.
Laid(pos) ==
    /\ pos \in [1 .. Len(sent) + 1 -> Int]
    /\ \A i \in 1 .. Len(sent) : pos[i + 1] = pos[i] + Len(Bytes(sent[i]))
    /\ \A i \in 1 .. Len(sent) + 1 : pos[i] <= pos[Len(sent) + 1]
    /\ Len(stream) <= pos[Len(sent) + 1]
    /\ conn = "open" => Len(stream) = pos[Len(sent) + 1]
    /\ \A i \in 1 .. Len(sent) : \A j \in 1 .. Len(Bytes(sent[i])) :
          pos[i] + j \in 1 .. Len(stream) => stream[pos[i] + j] = Bytes(sent[i])[j]

\* num[i] frames of the session are before unit i.
Ranked(num) ==
    /\ num \in [1 .. Len(sent) + 1 -> Nat]
    /\ num[Len(sent) + 1] = Len(FramesSent)
    /\ \A i \in 1 .. Len(sent) + 1 : num[i] <= i - 1
    /\ \A i \in 1 .. Len(sent) :
          IF Good(sent[i])
          THEN /\ num[i + 1] = num[i] + 1 /\ num[i] + 1 <= Len(FramesSent)
               /\ FramesSent[num[i] + 1] = sent[i]
          ELSE num[i + 1] = num[i]

-----------------------------------------------------------------------------
(* Where the parser is: k bytes of unit c are read *)

Skipped(c, k) == c <= Len(sent) /\ ~Good(sent[c]) /\ k \in 2 .. Len(Bytes(sent[c]))
Skips(c, k) == k = 0 \/ (Skipped(c, k) /\ k # Len(Bytes(sent[c])))
Between == {"out", "lock", "take", "poll", "peek", "call", "clear"}

ParserAt(c, k) ==
    /\ m_recvstate = "RECV_LEN"
    /\ \/ rtp \in Between /\ Skips(c, k)
       \/ rtp = "drop" /\ (Skipped(c, k + drop) \/ (conn # "open" /\ arrived <= drop))
       \/ /\ rtp = "header" /\ c <= Len(sent) /\ sent[c] \in Frames /\ k = 0
          /\ Good(sent[c]) \/ (conn # "open" /\ arrived < 4)
       \/ rtp = "text" /\ c <= Len(sent) /\ sent[c] \notin Frames /\ k = 0
       \/ /\ rtp = "line" /\ c <= Len(sent) /\ sent[c] \notin Frames /\ k \in 2 .. 6
          /\ Len(rtspbuf) = k + 2
          /\ rtspbuf[Len(rtspbuf)] = LF <=> k = 6
          /\ k >= 5 => rtspbuf[7] = 100 + sent[c].number
InPayload(c, k) ==
    /\ m_recvstate = "RECV_DATA" /\ rtp \in {"out", "lock", "take", "poll", "payload"}
    /\ c <= Len(sent) /\ Good(sent[c]) /\ k = 4
    /\ m_isrtp <=> sent[c].ch = 0
    /\ m_dataLength = Len(sent[c].payload)

\* The connection has ended and everything is read.
Dead == conn # "open" /\ arrived = 0

At(pos, num, c, k) ==
    /\ c \in 1 .. Len(sent) + 1 /\ k \in Nat /\ pos[c] = -k /\ taken = num[c]
    /\ c = Len(sent) + 1 => k = 0
    /\ ParserAt(c, k) \/ InPayload(c, k)

-----------------------------------------------------------------------------
(* What the callbacks were told *)

Ahead(c, k, j) == j > c \/ k = 0 \/ rtp = "line"
\* Text t has the number of a response before those ahead.
Before(t, c, k) ==
    /\ t \in Seq(Nat) /\ Len(t) = 9 /\ t[7] <= 100 + answers
    /\ \A j \in c .. Len(sent) :
          sent[j] \notin Frames /\ Ahead(c, k, j) => t[7] < 100 + sent[j].number
Told(c, k) ==
    conn = "open" =>
        /\ \A i \in 1 .. Len(calls) : Before(calls[i].text, c, k)
        /\ \A i, j \in 1 .. Len(calls) : i < j => calls[i].text[7] < calls[j].text[7]
        /\ rtp = "call" =>
              /\ Before(rtspbuf, c, k)
              /\ \A i \in 1 .. Len(calls) : calls[i].text[7] < rtspbuf[7]

Numbers ==
    /\ \A i \in 1 .. Len(sent) : sent[i] \notin Frames => sent[i].number <= answers
    /\ \A i, j \in 1 .. Len(sent) :
          i < j /\ sent[i] \notin Frames /\ sent[j] \notin Frames =>
              sent[i].number < sent[j].number

Clbks ==
    /\ RecvRtspCmd \in 0 .. registered
    /\ \A i \in 1 .. Len(calls) : calls[i].clbk \in 1 .. registered
    /\ \A i, j \in 1 .. Len(calls) : i # j => calls[i].clbk # calls[j].clbk
    /\ rtp \in {"line", "call"} => RecvRtspCmd # NULL
    /\ rtp # "clear" => \A i \in 1 .. Len(calls) : calls[i].clbk # RecvRtspCmd

Streaming ==
    /\ stream \in Seq(Nat) /\ arrived \in 0 .. Len(stream)
    /\ conn \in {"open", "eof", "reset"} /\ (conn # "open" => arrived = Len(stream))
Serving ==
    /\ sent \in Seq(Unit) /\ FramesSent \in Seq(Frames) /\ answers \in Nat
    /\ Len(sent) <= MaxUnits /\ Len(FramesSent) <= Len(sent)
Polled ==
    /\ m_httpTunnelHeaderBuffer \in [1 .. 4 -> Nat]
    /\ m_recvstate \in {"RECV_LEN", "RECV_DATA"} /\ m_dataLength \in Nat
    /\ rtp \in Polling \cup {"out", "lock", "take"}
    /\ rtp \in {"peek", "drop", "header", "text", "payload"} => arrived > 0
    /\ rtp = "drop" => drop \in 1 .. 2
    /\ rtp = "text" => m_httpTunnelHeaderBuffer = RTSP
    /\ cmd = "idle"
Gotten ==
    /\ rtspbuf \in Seq(Nat) /\ RecvRtspCmd \in Nat /\ registered \in Nat
    /\ calls \in Seq([clbk : Nat, text : Seq(Nat)])
    /\ delivered \in Seq([ch : {0, 1}, payload : Seq(Int)]) /\ taken \in Nat
Base == Streaming /\ Serving /\ Polled /\ Gotten

Parsed(pos, num, c, k) == Laid(pos) /\ Ranked(num) /\ At(pos, num, c, k) /\ Told(c, k)

StreamInv ==
    /\ Base /\ Numbers /\ (Channel!Ended => Dead) /\ taken <= Len(FramesSent)
    /\ ~Dead => \E pos, num, c, k : Parsed(pos, num, c, k)

-----------------------------------------------------------------------------
(* The bytes of a unit *)

Joined(g, h, t) == g \in Seq(Nat) /\ h \in Seq(Nat) /\ t = g \o h

\* The bytes of two sequences, joined.
LEMMA Joint ==
    ASSUME NEW g, NEW h, NEW t, Joined(g, h, t)
    PROVE  /\ t \in Seq(Nat) /\ Len(g) \in Nat /\ Len(h) \in Nat /\ Len(t) = Len(g) + Len(h)
           /\ \A i \in 1 .. Len(g) : t[i] = g[i]
           /\ \A i \in 1 .. Len(h) : t[Len(g) + i] = h[i]
<1>1. g \in Seq(Nat) /\ h \in Seq(Nat) /\ t = g \o h BY DEF Joined
<1>2. Len(g) \in Nat /\ Len(h) \in Nat BY <1>1, LenProperties
<1>3. /\ t \in Seq(Nat) /\ Len(t) = Len(g) + Len(h)
      /\ \A i \in 1 .. Len(g) + Len(h) : t[i] = IF i <= Len(g) THEN g[i] ELSE h[i - Len(g)]
  BY <1>1, ConcatProperties
<1>4. ASSUME NEW i \in 1 .. Len(g) PROVE t[i] = g[i]
  <2>1. i \in 1 .. Len(g) + Len(h) /\ i <= Len(g) BY <1>2
  <2> QED BY <1>3, <2>1
<1>5. ASSUME NEW i \in 1 .. Len(h) PROVE t[Len(g) + i] = h[i]
  <2>1. /\ Len(g) + i \in 1 .. Len(g) + Len(h) /\ ~(Len(g) + i <= Len(g))
        /\ (Len(g) + i) - Len(g) = i
    BY <1>2
  <2> QED BY <1>3, <2>1
<1> QED BY <1>2, <1>3, <1>4, <1>5

\* The two bytes of a length say the length.
LEMMA Sizes ==
    ASSUME NEW n \in Nat
    PROVE  \E a, b \in Nat : a = n \div 256 /\ b = n % 256 /\ a * 256 + b = n
OBVIOUS

\* A frame is its channel and its payload.
LEMMA FrameFields ==
    ASSUME NEW f \in Frames, NEW p, p = f.payload
    PROVE  /\ f.ch \in Nat /\ p \in Seq(Byte) /\ p \in Seq(Nat) /\ Len(p) \in Nat
           /\ f = [ch |-> f.ch, payload |-> p]
<1>1. f \in [ch : Byte, payload : Seq(Byte)] BY FramesAssumption
<1>2. f.ch \in Byte /\ p \in Seq(Byte) /\ f = [ch |-> f.ch, payload |-> p] BY <1>1
<1>3. Byte \subseteq Nat BY DEF Byte
<1>4. p \in Seq(Nat) BY <1>2, <1>3, SeqMonotonic
<1>5. Len(p) \in Nat BY <1>4, LenProperties
<1> QED BY <1>2, <1>3, <1>4, <1>5

\* What a frame is on the wire: '$', channel, length, payload.
LEMMA WireBytes ==
    ASSUME NEW f \in Frames, NEW p, p = f.payload
    PROVE  /\ Wire(f) \in Seq(Nat) /\ Len(Wire(f)) = 4 + Len(p)
           /\ Wire(f)[1] = 36 /\ Wire(f)[2] = f.ch
           /\ Wire(f)[3] * 256 + Wire(f)[4] = Len(p)
           /\ \A j \in 1 .. Len(p) : Wire(f)[4 + j] = p[j]
<1>1. f.ch \in Nat /\ p \in Seq(Nat) /\ Len(p) \in Nat BY FrameFields
<1>2. PICK a, b \in Nat : a = Len(p) \div 256 /\ b = Len(p) % 256 /\ a * 256 + b = Len(p)
  BY <1>1, Sizes
<1>3. PICK h : h = <<36, f.ch, a, b>> OBVIOUS
<1>4. h \in Seq(Nat) /\ Len(h) = 4 /\ h[1] = 36 /\ h[2] = f.ch /\ h[3] = a /\ h[4] = b
  BY <1>1, <1>3
<1>5. Wire(f) = h \o p BY <1>2, <1>3, Zenon DEF Wire, Dollar
<1>6. Joined(h, p, Wire(f)) BY <1>1, <1>4, <1>5 DEF Joined
<1>7. /\ Wire(f) \in Seq(Nat) /\ Len(Wire(f)) = Len(h) + Len(p)
      /\ \A i \in 1 .. Len(h) : Wire(f)[i] = h[i]
      /\ \A i \in 1 .. Len(p) : Wire(f)[Len(h) + i] = p[i]
  BY <1>6, Joint, SMTT(30)
<1>8. /\ Wire(f) \in Seq(Nat) /\ Len(Wire(f)) = 4 + Len(p)
      /\ \A i \in 1 .. 4 : Wire(f)[i] = h[i]
      /\ \A i \in 1 .. Len(p) : Wire(f)[4 + i] = p[i]
  BY <1>4, <1>7
<1>9. Wire(f)[1] = 36 /\ Wire(f)[2] = f.ch /\ Wire(f)[3] = a /\ Wire(f)[4] = b
  <2>1. \A j \in 1 .. 4 : Wire(f)[j] = h[j] BY <1>8
  <2>2. 1 \in 1 .. 4 /\ 2 \in 1 .. 4 /\ 3 \in 1 .. 4 /\ 4 \in 1 .. 4 OBVIOUS
  <2>3. Wire(f)[1] = h[1] /\ Wire(f)[2] = h[2] /\ Wire(f)[3] = h[3] /\ Wire(f)[4] = h[4]
    BY <2>1, <2>2, Zenon
  <2> QED BY <1>4, <2>3
<1>10. a * 256 + b = Len(p) BY <1>2
<1>11. Wire(f)[3] * 256 + Wire(f)[4] = Len(p) BY <1>9, <1>10
<1> QED BY <1>8, <1>9, <1>11

\* What a response is: its fifth byte tells its number.
LEMMA TextBytes ==
    ASSUME NEW n, n \in Nat, NEW t, t = Text(n)
    PROVE  /\ t \in Seq(Nat) /\ Len(t) = 7
           /\ t[1] = 82 /\ t[2] = 84 /\ t[3] = 83 /\ t[4] = 80
           /\ t[5] = 100 + n /\ t[6] = 10 /\ t[7] = 10
<1>1. PICK g, h : g = <<82, 84, 83, 80>> /\ h = <<100 + n, 10, 10>> OBVIOUS
<1>2. g \in Seq(Nat) /\ Len(g) = 4 /\ g[1] = 82 /\ g[2] = 84 /\ g[3] = 83 /\ g[4] = 80
  BY <1>1
<1>3. h \in Seq(Nat) /\ Len(h) = 3 /\ h[1] = 100 + n /\ h[2] = 10 /\ h[3] = 10
  BY <1>1
<1>4. t = g \o h BY <1>1, Zenon DEF Text, RTSP, LF
<1>5. Joined(g, h, t) BY <1>2, <1>3, <1>4 DEF Joined
<1>6. /\ t \in Seq(Nat) /\ Len(t) = Len(g) + Len(h)
      /\ \A i \in 1 .. Len(g) : t[i] = g[i]
      /\ \A i \in 1 .. Len(h) : t[Len(g) + i] = h[i]
  BY <1>5, Joint
<1>7. /\ t \in Seq(Nat) /\ Len(t) = 7
      /\ \A i \in 1 .. 4 : t[i] = g[i]
      /\ \A i \in 1 .. 3 : t[4 + i] = h[i]
  BY <1>2, <1>3, <1>6
<1>8. t[1] = 82 /\ t[2] = 84 /\ t[3] = 83 /\ t[4] = 80 BY <1>2, <1>7
<1>9. t[4 + 1] = 100 + n /\ t[4 + 2] = 10 /\ t[4 + 3] = 10 BY <1>3, <1>7
<1> QED BY <1>7, <1>8, <1>9

\* A unit begins with a mark that tells frames from responses.
LEMMA UnitBytes ==
    ASSUME NEW u \in Unit, NEW b, b = Bytes(u)
    PROVE  /\ b \in Seq(Nat) /\ Len(b) \in Nat /\ Len(b) >= 4
           /\ b[1] = IF u \in Frames THEN 36 ELSE 82
           /\ u \in Frames => b = Wire(u)
           /\ u \notin Frames => u.number \in Nat \ {0} /\ b = Text(u.number) /\ Len(b) = 7
<1>1. CASE u \in Frames
  <2>1. PICK p : p = u.payload OBVIOUS
  <2>2. b = Wire(u) BY <1>1 DEF Bytes
  <2>3. p \in Seq(Nat) /\ Len(p) \in Nat BY <1>1, <2>1, FrameFields
  <2>4. b \in Seq(Nat) /\ Len(b) = 4 + Len(p) /\ b[1] = 36 BY <1>1, <2>1, <2>2, WireBytes
  <2> QED BY <1>1, <2>1, <2>2, <2>3, <2>4
<1>2. CASE u \notin Frames
  <2>1. u.number \in Nat \ {0} /\ b = Text(u.number) BY <1>2 DEF Unit, Answer, Bytes
  <2>2. PICK n \in Nat : n = u.number BY <2>1
  <2>3. b = Text(n) BY <2>1, <2>2
  <2>4. b \in Seq(Nat) /\ Len(b) = 7 /\ b[1] = 82 BY <2>3, TextBytes
  <2> QED BY <1>2, <2>1, <2>4
<1> QED BY <1>1, <1>2

\* Nothing in the rest of what PollSocket skips looks like a beginning.
LEMMA QuietBytes ==
    ASSUME Distinct, NEW u \in Unit, ~Good(u), NEW b, b = Bytes(u), NEW j \in 3 .. Len(b)
    PROVE  b[j] \notin {36, 82}
<1>1. Marks = {36, 82} BY DEF Marks, Dollar, RTSP
<1>2. CASE u \in Frames
  <2>1. b = Wire(u) BY <1>2 DEF Bytes
  <2> QED BY <1>1, <1>2, <2>1 DEF Distinct, Good
<1>3. CASE u \notin Frames
  <2>1. u.number \in Nat /\ b = Text(u.number) BY <1>3 DEF Unit, Answer, Bytes
  <2>2. PICK n \in Nat : n = u.number BY <2>1
  <2>3. b = Text(n) BY <2>1, <2>2
  <2>4. /\ Len(b) = 7 /\ b[3] = 83 /\ b[4] = 80 /\ b[5] = 100 + n
        /\ b[6] = 10 /\ b[7] = 10
    BY <2>3, TextBytes
  <2>5. j = 3 \/ j = 4 \/ j = 5 \/ j = 6 \/ j = 7 BY <2>4
  <2> QED BY <2>4, <2>5
<1> QED BY <1>2, <1>3

-----------------------------------------------------------------------------
(* The layout of the stream when bytes come, go and are lost *)

Rest(s, m, t) == s \in Seq(Nat) /\ m \in 0 .. Len(s) /\ t = SubSeq(s, m + 1, Len(s))

\* What is left of a sequence after its first m elements.
LEMMA RestOf ==
    ASSUME NEW s, NEW m, NEW t, Rest(s, m, t)
    PROVE  /\ Len(s) \in Nat /\ m \in Nat /\ m <= Len(s)
           /\ t \in Seq(Nat) /\ Len(t) = Len(s) - m
           /\ \A i \in 1 .. Len(s) - m : t[i] = s[m + i]
<1>1. s \in Seq(Nat) /\ m \in 0 .. Len(s) /\ t = SubSeq(s, m + 1, Len(s)) BY DEF Rest
<1>2. Len(s) \in Nat /\ m \in Nat /\ m <= Len(s) BY <1>1, LenProperties
<1>3. PICK a, n : a = m + 1 /\ n = Len(s) OBVIOUS
<1>4. a \in 1 .. Len(s) + 1 /\ n \in a - 1 .. Len(s) BY <1>2, <1>3
<1>5. /\ t \in Seq(Nat) /\ Len(t) = IF a <= n THEN n - a + 1 ELSE 0
      /\ \A i \in 1 .. n - a + 1 : t[i] = s[a + i - 1]
  BY <1>1, <1>3, <1>4, SubSeqProperties
<1>6. Len(t) = Len(s) - m BY <1>2, <1>3, <1>5
<1>7. ASSUME NEW i \in 1 .. Len(s) - m PROVE t[i] = s[m + i]
  <2>1. i \in 1 .. n - a + 1 /\ a + i - 1 = m + i BY <1>2, <1>3
  <2> QED BY <1>5, <2>1
<1> QED BY <1>2, <1>5, <1>6, <1>7

\* The first m bytes are read: every unit moves to the front by m.
LEMMA LaidRest ==
    ASSUME NEW pos, Laid(pos), sent \in Seq(Unit), NEW m, Rest(stream, m, stream'),
           UNCHANGED <<sent, conn>>
    PROVE  \E q : Laid(q)' /\ \A i \in 1 .. Len(sent) + 1 : q[i] = pos[i] - m
<1>1. /\ Len(stream) \in Nat /\ m \in Nat /\ m <= Len(stream)
      /\ Len(stream') = Len(stream) - m
      /\ \A i \in 1 .. Len(stream) - m : stream'[i] = stream[m + i]
  BY RestOf
<1>2. Len(sent) \in Nat BY LenProperties
<1>3. pos \in [1 .. Len(sent) + 1 -> Int] BY DEF Laid
<1>4. PICK q \in [1 .. Len(sent) + 1 -> Int] : \A i \in 1 .. Len(sent) + 1 : q[i] = pos[i] - m
  <2> DEFINE f == [i \in 1 .. Len(sent) + 1 |-> pos[i] - m]
  <2>1. f \in [1 .. Len(sent) + 1 -> Int] /\ \A i \in 1 .. Len(sent) + 1 : f[i] = pos[i] - m
    BY <1>1, <1>3
  <2> HIDE DEF f
  <2> QED BY <2>1
<1>5. ASSUME NEW i \in 1 .. Len(sent)
      PROVE  /\ q[i + 1] = q[i] + Len(Bytes(sent[i]))
             /\ \A j \in 1 .. Len(Bytes(sent[i])) :
                   q[i] + j \in 1 .. Len(stream') => stream'[q[i] + j] = Bytes(sent[i])[j]
  <2>1. i \in 1 .. Len(sent) + 1 /\ i + 1 \in 1 .. Len(sent) + 1 BY <1>2
  <2>2. q[i] = pos[i] - m /\ q[i + 1] = pos[i + 1] - m /\ pos[i] \in Int /\ pos[i + 1] \in Int
    BY <1>3, <1>4, <2>1
  <2>3. pos[i + 1] = pos[i] + Len(Bytes(sent[i])) BY DEF Laid
  <2>4. PICK b : b = Bytes(sent[i]) OBVIOUS
  <2>5. Len(b) \in Nat BY <2>4, UnitBytes, ElementOfSeq
  <2>6. q[i + 1] = q[i] + Len(b) BY <1>1, <2>2, <2>3, <2>4, <2>5
  <2>7. ASSUME NEW j \in 1 .. Len(b), q[i] + j \in 1 .. Len(stream')
        PROVE  stream'[q[i] + j] = b[j]
    <3>1. pos[i] + j \in 1 .. Len(stream) /\ m + (q[i] + j) = pos[i] + j
      <4>1. PICK x, y, z : x = pos[i] /\ y = q[i] /\ z = Len(stream')
        OBVIOUS
      <4>5. x \in Int BY <2>2, <4>1
      <4>2. y = x - m /\ z = Len(stream) - m /\ y + j \in 1 .. z BY <1>1, <2>2, <2>7, <4>1
      <4>3. j \in Int BY <2>5
      <4>4. x + j \in 1 .. Len(stream) /\ m + (y + j) = x + j BY <1>1, <4>2, <4>3, <4>5
      <4> QED BY <4>1, <4>4
    <3>2. stream[pos[i] + j] = b[j] BY <2>4, <3>1 DEF Laid
    <3>3. stream'[q[i] + j] = stream[m + (q[i] + j)] BY <1>1, <2>7
    <3> QED BY <3>1, <3>2, <3>3
  <2> QED BY <2>4, <2>6, <2>7
<1>6. /\ Len(stream') <= q[Len(sent) + 1]
      /\ conn = "open" => Len(stream') = q[Len(sent) + 1]
  <2>1. Len(sent) + 1 \in 1 .. Len(sent) + 1 BY <1>2
  <2>2. q[Len(sent) + 1] = pos[Len(sent) + 1] - m /\ pos[Len(sent) + 1] \in Int
    BY <1>3, <1>4, <2>1
  <2>3. /\ Len(stream) <= pos[Len(sent) + 1]
        /\ conn = "open" => Len(stream) = pos[Len(sent) + 1]
    BY DEF Laid
  <2>4. PICK x, y, z : x = pos[Len(sent) + 1] /\ y = q[Len(sent) + 1] /\ z = Len(stream')
    OBVIOUS
  <2>5. /\ x \in Int /\ y = x - m /\ z = Len(stream) - m /\ Len(stream) <= x
        /\ conn = "open" => Len(stream) = x
    BY <1>1, <2>2, <2>3, <2>4
  <2>6. z <= y /\ (conn = "open" => z = y) BY <1>1, <2>5
  <2> QED BY <2>4, <2>6
<1>7. ASSUME NEW i \in 1 .. Len(sent) + 1 PROVE q[i] <= q[Len(sent) + 1]
  <2>1. Len(sent) + 1 \in 1 .. Len(sent) + 1 BY <1>2
  <2>2. PICK x, y : x = pos[i] /\ y = pos[Len(sent) + 1] OBVIOUS
  <2>3. x \in Int /\ y \in Int /\ x <= y BY <1>3, <2>1, <2>2 DEF Laid
  <2>4. q[i] = x - m /\ q[Len(sent) + 1] = y - m BY <1>4, <2>1, <2>2
  <2> QED BY <1>1, <2>3, <2>4
<1>8. Laid(q)' BY <1>4, <1>5, <1>6, <1>7 DEF Laid
<1> QED BY <1>4, <1>8

\* The server adds a unit.
LEMMA LaidMore ==
    ASSUME NEW pos, Laid(pos), sent \in Seq(Unit), NEW u \in Unit, sent' = Append(sent, u),
           Joined(stream, Bytes(u), stream'), conn = "open"
    PROVE  \E q : Laid(q)' /\ \A i \in 1 .. Len(sent) + 1 : q[i] = pos[i]
<1>1. PICK n, l, b : n = Len(sent) /\ l = Len(stream) /\ b = Bytes(u) OBVIOUS
<1>2. Len(b) \in Nat BY <1>1, UnitBytes
<1>3. /\ n \in Nat /\ Len(sent') = n + 1 /\ sent'[n + 1] = u
      /\ \A i \in 1 .. n : sent'[i] = sent[i]
  BY <1>1, AppendProperties, LenProperties
<1>4. /\ l \in Nat /\ Len(stream') = l + Len(b)
      /\ \A i \in 1 .. l : stream'[i] = stream[i]
      /\ \A i \in 1 .. Len(b) : stream'[l + i] = b[i]
  BY <1>1, Joint
<1>5. /\ pos \in [1 .. n + 1 -> Int] /\ l = pos[n + 1]
      /\ \A i \in 1 .. n + 1 : pos[i] <= l
      /\ \A i \in 1 .. n : pos[i + 1] = pos[i] + Len(Bytes(sent[i]))
      /\ \A i \in 1 .. n : \A j \in 1 .. Len(Bytes(sent[i])) :
            pos[i] + j \in 1 .. l => stream[pos[i] + j] = Bytes(sent[i])[j]
  BY <1>1 DEF Laid
<1>6. PICK q \in [1 .. n + 2 -> Int] :
         (\A i \in 1 .. n + 1 : q[i] = pos[i]) /\ q[n + 2] = l + Len(b)
  <2> DEFINE f == [i \in 1 .. n + 2 |-> IF i = n + 2 THEN l + Len(b) ELSE pos[i]]
  <2>1. \A i \in 1 .. n + 1 : i \in 1 .. n + 2 /\ i # n + 2 BY <1>3
  <2>2. n + 2 \in 1 .. n + 2 /\ \A i \in 1 .. n + 2 : i # n + 2 => i \in 1 .. n + 1 BY <1>3
  <2>3. f \in [1 .. n + 2 -> Int] BY <1>2, <1>4, <1>5, <2>2
  <2>4. f[n + 2] = l + Len(b) /\ \A i \in 1 .. n + 1 : f[i] = pos[i] BY <2>1, <2>2
  <2> HIDE DEF f
  <2> QED BY <2>3, <2>4
<1>7. ASSUME NEW i \in 1 .. n + 1
      PROVE  /\ q[i + 1] = q[i] + Len(Bytes(sent'[i]))
             /\ \A j \in 1 .. Len(Bytes(sent'[i])) :
                   q[i] + j \in 1 .. l + Len(b) => stream'[q[i] + j] = Bytes(sent'[i])[j]
  <2>1. CASE i = n + 1
    <3>1. q[i] = l /\ q[i + 1] = l + Len(b) /\ Bytes(sent'[i]) = b
      <4>1. i + 1 = n + 2 /\ n + 1 \in 1 .. n + 1 BY <1>3, <2>1
      <4> QED BY <1>1, <1>3, <1>5, <1>6, <2>1, <4>1
    <3> QED BY <1>4, <3>1
  <2>2. CASE i # n + 1
    <3>1. i \in 1 .. n /\ i + 1 \in 1 .. n + 1 BY <1>3, <2>2
    <3>2. PICK x, c : x = pos[i] /\ c = Bytes(sent[i]) OBVIOUS
    <3>3. x \in Int /\ q[i] = x /\ q[i + 1] = x + Len(c) /\ Bytes(sent'[i]) = c /\ pos[i + 1] = x + Len(c)
      BY <1>3, <1>5, <1>6, <3>1, <3>2
    <3>4. sent[i] \in Unit BY <1>1, <3>1, ElementOfSeq
    <3>5. Len(c) \in Nat BY <3>2, <3>4, UnitBytes
    <3>6. x + Len(c) <= l
      BY <1>5, <3>1, <3>3
    <3>7. ASSUME NEW j \in 1 .. Len(c), x + j \in 1 .. l + Len(b)
          PROVE  stream'[x + j] = c[j]
      <4>1. x + j \in 1 .. l BY <1>2, <1>4, <3>3, <3>5, <3>6, <3>7
      <4>2. stream[x + j] = c[j] BY <1>5, <3>1, <3>2, <4>1
      <4> QED BY <1>4, <4>1, <4>2
    <3> QED BY <3>3, <3>7
  <2> QED BY <2>1, <2>2
<1>8. q[(n + 1) + 1] = l + Len(b) BY <1>3, <1>6
<1>9. ASSUME NEW i \in 1 .. n + 2 PROVE q[i] <= l + Len(b)
  <2>1. CASE i = n + 2 BY <1>2, <1>4, <1>6, <2>1
  <2>2. CASE i # n + 2
    <3>1. i \in 1 .. n + 1 BY <1>3, <2>2
    <3>2. q[i] \in Int /\ q[i] <= l BY <1>5, <1>6, <3>1
    <3> QED BY <1>2, <1>4, <3>2
  <2> QED BY <2>1, <2>2
<1>10. (n + 1) + 1 = n + 2 BY <1>3
<1>11. Laid(q)'
  <2>1. PICK t, v : t = sent' /\ v = stream' OBVIOUS
  <2>2. /\ q \in [1 .. Len(t) + 1 -> Int] /\ q[Len(t) + 1] = l + Len(b)
        /\ \A i \in 1 .. Len(t) + 1 : q[i] <= l + Len(b)
        /\ \A i \in 1 .. Len(t) : q[i + 1] = q[i] + Len(Bytes(t[i]))
    BY <1>3, <1>6, <1>7, <1>9, <1>10, <2>1
  <2>3. \A i \in 1 .. Len(t) : \A j \in 1 .. Len(Bytes(t[i])) :
          q[i] + j \in 1 .. Len(v) => v[q[i] + j] = Bytes(t[i])[j]
    BY <1>3, <1>4, <1>7, <2>1
  <2>4. Len(v) = l + Len(b) /\ l + Len(b) <= l + Len(b) BY <1>2, <1>4, <2>1
  <2> QED BY <2>1, <2>2, <2>3, <2>4 DEF Laid
<1> QED BY <1>1, <1>6, <1>11

\* The connection ends, and what has not arrived is lost.
LEMMA LaidCut ==
    ASSUME NEW pos, Laid(pos), sent \in Seq(Unit), stream \in Seq(Nat),
           NEW m \in 0 .. Len(stream), stream' = SubSeq(stream, 1, m), sent' = sent, conn' # "open"
    PROVE  Laid(pos)' /\ stream' \in Seq(Nat) /\ Len(stream') = m
<1>1. PICK l : l = Len(stream) OBVIOUS
<1>2. l \in Nat /\ m \in Nat /\ m <= l BY <1>1, LenProperties
<1>3. /\ stream' \in Seq(Nat) /\ Len(stream') = m
      /\ \A i \in 1 .. m : stream'[i] = stream[i]
  <2>1. PICK t : t = SubSeq(stream, 1, m) OBVIOUS
  <2>2. \A i \in 1 .. m : stream[i] \in Nat
    <3>1. \A i \in 1 .. m : i \in 1 .. Len(stream) BY <1>1, <1>2
    <3> QED BY <3>1, ElementOfSeq
  <2>3. /\ t \in Seq(Nat) /\ Len(t) = IF 1 <= m THEN m - 1 + 1 ELSE 0
        /\ \A i \in 1 .. m - 1 + 1 : t[i] = stream[1 + i - 1]
    BY <1>2, <2>1, <2>2, SubSeqProperties
  <2>4. Len(t) = m /\ \A i \in 1 .. m : t[i] = stream[i]
    <3>1. m - 1 + 1 = m /\ (~(1 <= m) => m = 0) /\ \A i \in 1 .. m : 1 + i - 1 = i BY <1>2
    <3> QED BY <2>3, <3>1
  <2> QED BY <2>1, <2>3, <2>4
<1>4. PICK z, y : z = pos[Len(sent) + 1] /\ y = Len(sent) + 1 OBVIOUS
<1>5. l <= z BY <1>1, <1>4 DEF Laid
<1>6. ASSUME NEW i \in 1 .. Len(sent), NEW j \in 1 .. Len(Bytes(sent[i])),
             pos[i] + j \in 1 .. m
      PROVE  stream'[pos[i] + j] = Bytes(sent[i])[j]
  <2>1. PICK x : x = pos[i] + j OBVIOUS
  <2>2. x \in 1 .. l /\ x \in 1 .. m BY <1>2, <1>6, <2>1
  <2>3. stream[x] = Bytes(sent[i])[j] BY <1>1, <2>1, <2>2 DEF Laid
  <2> QED BY <1>3, <2>1, <2>2, <2>3
<1>7. m <= z
  <2>1. CASE z \in Int BY <1>2, <1>5, <2>1
  <2>2. z \in Int
    <3>1. pos \in [1 .. Len(sent) + 1 -> Int] BY DEF Laid
    <3>2. Len(sent) + 1 \in 1 .. Len(sent) + 1
      <4>1. Len(sent) \in Nat BY LenProperties
      <4> QED BY <4>1
    <3> QED BY <1>4, <3>1, <3>2
  <2> QED BY <2>1, <2>2
<1> QED BY <1>3, <1>4, <1>6, <1>7 DEF Laid

\* A unit more does not change how many frames are before the others.
LEMMA RankedMore ==
    ASSUME NEW num, Ranked(num), sent \in Seq(Unit), FramesSent \in Seq(Frames), NEW u \in Unit,
           sent' = Append(sent, u),
           FramesSent' = IF Good(u) THEN Append(FramesSent, u) ELSE FramesSent
    PROVE  /\ FramesSent' \in Seq(Frames)
           /\ \E q : Ranked(q)' /\ \A i \in 1 .. Len(sent) + 1 : q[i] = num[i]
<1>1. PICK n, k : n = Len(sent) /\ k = Len(FramesSent) OBVIOUS
<1>2. /\ n \in Nat /\ Len(sent') = n + 1 /\ sent'[n + 1] = u
      /\ \A i \in 1 .. n : sent'[i] = sent[i]
  BY <1>1, AppendProperties, LenProperties
<1>3. PICK d \in 0 .. 1 : d = 1 <=> Good(u)
  <2>1. CASE Good(u) BY <2>1
  <2>2. CASE ~Good(u) BY <2>2
  <2> QED BY <2>1, <2>2
<1>4. /\ k \in Nat /\ FramesSent' \in Seq(Frames) /\ Len(FramesSent') = k + d
      /\ \A i \in 1 .. k : FramesSent'[i] = FramesSent[i]
      /\ d = 1 => FramesSent'[k + 1] = u
  <2>1. k \in Nat BY <1>1, LenProperties
  <2>2. CASE Good(u)
    <3>1. u \in Frames /\ d = 1 /\ FramesSent' = Append(FramesSent, u) BY <1>3, <2>2 DEF Good
    <3> QED BY <1>1, <2>1, <3>1, AppendProperties
  <2>3. CASE ~Good(u)
    <3>1. d = 0 /\ FramesSent' = FramesSent BY <1>3, <2>3
    <3> QED BY <1>1, <2>1, <3>1
  <2> QED BY <2>2, <2>3
<1>5. /\ num \in [1 .. n + 1 -> Nat] /\ num[n + 1] = k
      /\ \A i \in 1 .. n + 1 : num[i] <= i - 1
      /\ \A i \in 1 .. n :
            IF Good(sent[i])
            THEN /\ num[i + 1] = num[i] + 1 /\ num[i] + 1 <= k
                 /\ FramesSent[num[i] + 1] = sent[i]
            ELSE num[i + 1] = num[i]
  BY <1>1 DEF Ranked
<1>6. PICK q \in [1 .. n + 2 -> Nat] :
         (\A i \in 1 .. n + 1 : q[i] = num[i]) /\ q[n + 2] = k + d
  <2> DEFINE f == [i \in 1 .. n + 2 |-> IF i = n + 2 THEN k + d ELSE num[i]]
  <2>1. \A i \in 1 .. n + 1 : i \in 1 .. n + 2 /\ i # n + 2 BY <1>2
  <2>2. n + 2 \in 1 .. n + 2 /\ \A i \in 1 .. n + 2 : i # n + 2 => i \in 1 .. n + 1 BY <1>2
  <2>3. f \in [1 .. n + 2 -> Nat] BY <1>3, <1>4, <1>5, <2>2
  <2>4. f[n + 2] = k + d /\ \A i \in 1 .. n + 1 : f[i] = num[i] BY <2>1, <2>2
  <2> HIDE DEF f
  <2> QED BY <2>3, <2>4
<1>7. k <= n
  <2>1. n + 1 \in 1 .. n + 1 /\ (n + 1) - 1 = n BY <1>2
  <2> QED BY <1>5, <2>1
<1>8. ASSUME NEW i \in 1 .. n + 2 PROVE q[i] <= i - 1
  <2>1. CASE i = n + 2 BY <1>2, <1>3, <1>4, <1>6, <1>7, <2>1
  <2>2. CASE i # n + 2
    <3>1. i \in 1 .. n + 1 BY <1>2, <2>2
    <3> QED BY <1>5, <1>6, <3>1
  <2> QED BY <2>1, <2>2
<1>9. PICK t, v : t = sent' /\ v = FramesSent' OBVIOUS
<1>10. ASSUME NEW i \in 1 .. n + 1
       PROVE  IF Good(t[i])
              THEN q[i + 1] = q[i] + 1 /\ q[i] + 1 <= k + d /\ v[q[i] + 1] = t[i]
              ELSE q[i + 1] = q[i]
  <2>1. CASE i = n + 1
    <3>1. i + 1 = n + 2 /\ i \in 1 .. n + 1 BY <1>2, <2>1
    <3>2. t[i] = u /\ q[i] = k /\ q[i + 1] = k + d BY <1>2, <1>5, <1>6, <1>9, <2>1, <3>1
    <3> QED BY <1>3, <1>4, <1>9, <3>2
  <2>2. CASE i # n + 1
    <3>1. i \in 1 .. n /\ i + 1 \in 1 .. n + 1 BY <1>2, <2>2
    <3>2. t[i] = sent[i] /\ q[i] = num[i] /\ q[i + 1] = num[i + 1] /\ num[i] \in Nat
      BY <1>2, <1>5, <1>6, <1>9, <3>1
    <3>3. CASE Good(sent[i])
      <4>1. /\ num[i + 1] = num[i] + 1 /\ num[i] + 1 <= k /\ FramesSent[num[i] + 1] = sent[i]
        BY <1>5, <3>1, <3>3
      <4>2. num[i] + 1 \in 1 .. k /\ num[i] + 1 <= k + d BY <1>3, <1>4, <3>2, <4>1, SMTT(30)
      <4> QED BY <1>4, <1>9, <3>2, <3>3, <4>1, <4>2
    <3>4. CASE ~Good(sent[i]) BY <1>5, <3>1, <3>2, <3>4
    <3> QED BY <3>3, <3>4
  <2> QED BY <2>1, <2>2
<1>11. Ranked(q)'
  <2>1. (n + 1) + 1 = n + 2 /\ Len(t) = n + 1 /\ Len(v) = k + d BY <1>2, <1>4, <1>9
  <2>2. /\ q \in [1 .. Len(t) + 1 -> Nat] /\ q[Len(t) + 1] = Len(v)
        /\ \A i \in 1 .. Len(t) + 1 : q[i] <= i - 1
    BY <1>6, <1>8, <2>1
  <2>3. \A i \in 1 .. Len(t) :
           IF Good(t[i])
           THEN q[i + 1] = q[i] + 1 /\ q[i] + 1 <= Len(v) /\ v[q[i] + 1] = t[i]
           ELSE q[i + 1] = q[i]
    BY <1>10, <2>1
  <2> QED BY <1>9, <2>2, <2>3 DEF Ranked
<1> QED BY <1>1, <1>4, <1>6, <1>11

-----------------------------------------------------------------------------
(* Types *)

\* An answer is not a frame.
LEMMA AnswerUnit ==
    ASSUME NEW n \in Nat \ {0}, NEW u, u = [number |-> n]
    PROVE  u \in Unit /\ u \notin Frames /\ u.number = n
<1>1. u \in Answer /\ u.number = n /\ DOMAIN u = {"number"} BY DEF Answer
<1>2. u \notin Frames
  <2>1. SUFFICES ASSUME u \in Frames PROVE FALSE OBVIOUS
  <2>2. u \in [ch : Byte, payload : Seq(Byte)] BY <2>1, FramesAssumption
  <2>3. DOMAIN u = {"ch", "payload"} BY <2>2
  <2>4. "ch" \in {"number"} BY <1>1, <2>3
  <2> QED BY <2>4
<1> QED BY <1>1, <1>2 DEF Unit

\* recv() of n bytes takes them, or all that is left of an ended connection.
LEMMA Taking ==
    ASSUME Streaming, NEW n \in Nat, Consume(n)
    PROVE  /\ Streaming' /\ UNCHANGED <<conn, sent, FramesSent, answers>>
           /\ Ready(n) /\ ~Dead' =>
                 n <= arrived /\ arrived' = arrived - n /\ Rest(stream, n, stream')
           /\ arrived < n => arrived' = 0
<1>1. PICK m : m = Least(n, arrived) OBVIOUS
<1>2. /\ stream \in Seq(Nat) /\ arrived \in 0 .. Len(stream) /\ Len(stream) \in Nat
      /\ conn \in {"open", "eof", "reset"} /\ (conn # "open" => arrived = Len(stream))
  BY LenProperties DEF Streaming
<1>3. m \in Nat /\ m <= arrived /\ m <= n /\ (m = n \/ m = arrived) /\ (arrived < n => m = arrived)
  BY <1>1, <1>2 DEF Least
<1>4. /\ stream' = SubSeq(stream, m + 1, Len(stream)) /\ arrived' = arrived - m
      /\ UNCHANGED <<conn, sent, FramesSent, answers>>
  BY <1>1 DEF Consume, server
<1>5. Rest(stream, m, stream') BY <1>2, <1>3, <1>4 DEF Rest
<1>6. stream' \in Seq(Nat) /\ Len(stream') = Len(stream) - m BY <1>5, RestOf
<1>7. PICK l : l = Len(stream') OBVIOUS
<1>8. arrived' \in 0 .. l /\ (conn' # "open" => arrived' = l)
  BY <1>2, <1>3, <1>4, <1>6, <1>7
<1>9. Streaming' BY <1>2, <1>4, <1>6, <1>7, <1>8 DEF Streaming
<1>10. arrived < n => arrived' = 0 BY <1>2, <1>3, <1>4
<1>11. ASSUME Ready(n), ~Dead'
       PROVE  n <= arrived /\ arrived' = arrived - n /\ Rest(stream, n, stream')
  <2>1. m = n
    <3>1. SUFFICES ASSUME arrived < n PROVE FALSE BY <1>2, <1>3
    <3>2. conn # "open" BY <1>2, <1>11, <3>1 DEF Ready
    <3> QED BY <1>4, <1>10, <1>11, <3>1, <3>2 DEF Dead
  <2> QED BY <1>3, <1>4, <1>5, <2>1
<1> QED BY <1>4, <1>9, <1>10, <1>11

\* What a step may do to the stream.
Flows == \/ UNCHANGED <<stream, arrived, conn, sent, FramesSent, answers>>
         \/ (\E f \in Frames : SendFrame(f)) \/ SendResponse \/ Arrive
         \/ (\E how \in {"eof", "reset"} : Disconnect(how))
         \/ (\E n \in Nat : Consume(n))

\* Every step of Next does one of those.
LEMMA StepFlows ==
    ASSUME Alone, Base, [Next]_vars
    PROVE  Flows
<1>1. ASSUME UNCHANGED connection PROVE Flows BY <1>1 DEF Flows, connection
<1>2. ASSUME NEW n \in Nat, Consume(n) PROVE Flows BY <1>2, Zenon DEF Flows
<1>3. 1 \in Nat /\ 2 \in Nat /\ 4 \in Nat /\ m_dataLength \in Nat /\ (rtp = "drop" => drop \in Nat)
  BY DEF Base, Polled
<1>4. CASE UNCHANGED vars BY <1>4 DEF Flows, vars
<1>5. ASSUME NEW f \in Frames, SendFrame(f) PROVE Flows BY <1>5, Zenon DEF Flows
<1>6. CASE SendResponse \/ Arrive BY <1>6, Zenon DEF Flows
<1>7. ASSUME NEW how \in {"eof", "reset"}, Disconnect(how) PROVE Flows BY <1>7, Zenon DEF Flows
<1>8. ASSUME NEW how \in Fetches, Fetch(how) PROVE Flows BY <1>1, <1>8 DEF Fetch
<1>9. CASE TryLockSocket BY <1>1, <1>9 DEF TryLockSocket
<1>10. CASE Take BY <1>1, <1>10 DEF Take
<1>11. CASE PollSocket
  <2>1. CASE PollRound BY <1>1, <2>1 DEF PollRound
  <2>2. CASE Peek BY <1>1, <2>2 DEF Peek, PeekTo
  <2>3. CASE Drop BY <1>2, <1>3, <2>3 DEF Drop
  <2>4. CASE ReadHeader BY <1>2, <1>3, <2>4 DEF ReadHeader
  <2>5. CASE ReadRTSP BY <1>2, <1>3, <2>5 DEF ReadRTSP
  <2>6. CASE ReadTextByte BY <1>2, <1>3, <2>6 DEF ReadTextByte
  <2>7. CASE ReadTextEnd BY <1>1, <2>7 DEF ReadTextEnd
  <2>8. CASE CallBack BY <1>1, <2>8 DEF CallBack
  <2>9. CASE ClearCallback BY <1>1, <2>9 DEF ClearCallback
  <2>10. CASE ReadPayload BY <1>2, <1>3, <2>10 DEF ReadPayload
  <2>11. CASE PollEnds BY <1>1, <2>11 DEF PollEnds
  <2> QED BY <1>11, <2>1, <2>2, <2>3, <2>4, <2>5, <2>6, <2>7, <2>8, <2>9, <2>10,
             <2>11 DEF PollSocket
<1>12. CASE PollFails BY <1>1, <1>2, <1>3, <1>12 DEF PollFails
<1>13. CASE SetRtspCmdClbk BY <1>1, <1>13 DEF SetRtspCmdClbk
<1>14. ASSUME NEW wait \in Waits, Command(wait) PROVE Flows BY <1>1, <1>14 DEF Command
<1>15. CASE RecvRTSP
  BY <1>15 DEF RecvRTSP, LockSocket, RecvRTSPByte, RecvRTSPFails, Base, Polled
<1> QED BY <1>4, <1>5, <1>6, <1>7, <1>8, <1>9, <1>10, <1>11, <1>12, <1>13, <1>14, <1>15
        DEF Next, FetchStep

\* What SendFrame and SendResponse do: a unit u more.
LEMMA Sending ==
    ASSUME Streaming, Serving, NEW u \in Unit, Len(sent) < MaxUnits, conn = "open",
           sent' = Append(sent, u), stream' = stream \o Bytes(u),
           FramesSent' = IF Good(u) THEN Append(FramesSent, u) ELSE FramesSent,
           UNCHANGED <<arrived, conn>>, answers' \in Nat
    PROVE  Streaming' /\ Serving' /\ Joined(stream, Bytes(u), stream')
<1>1. PICK l, b : l = Len(stream) /\ b = Bytes(u) OBVIOUS
<1>2. b \in Seq(Nat) /\ stream \in Seq(Nat) BY <1>1, UnitBytes DEF Streaming
<1>3. Joined(stream, b, stream') BY <1>1, <1>2 DEF Joined
<1>4. /\ stream' \in Seq(Nat) /\ l \in Nat /\ Len(b) \in Nat /\ Len(stream') = l + Len(b)
  BY <1>1, <1>3, Joint
<1>5. arrived' \in 0 .. (l + Len(b)) BY <1>1, <1>4 DEF Streaming
<1>6. Streaming' BY <1>4, <1>5 DEF Streaming
<1>7. PICK n, k : n = Len(sent) /\ k = Len(FramesSent) OBVIOUS
<1>8. n \in Nat /\ k \in Nat /\ k <= n /\ n < MaxUnits /\ MaxUnits \in Nat
  BY <1>7, LenProperties, BoundsAssumption DEF Serving
<1>9. sent' \in Seq(Unit) /\ Len(sent') = n + 1 BY <1>7, AppendProperties DEF Serving
<1>10. FramesSent' \in Seq(Frames) /\ (Len(FramesSent') = k \/ Len(FramesSent') = k + 1)
  <2>1. CASE Good(u)
    <3>1. u \in Frames /\ FramesSent \in Seq(Frames) BY <2>1 DEF Good, Serving
    <3> QED BY <1>7, <2>1, <3>1, AppendProperties
  <2>2. CASE ~Good(u) BY <1>7, <2>2 DEF Serving
  <2> QED BY <2>1, <2>2
<1>11. PICK x, y : x = Len(sent') /\ y = Len(FramesSent') OBVIOUS
<1>12. x <= MaxUnits /\ y <= x BY <1>8, <1>9, <1>10, <1>11
<1>13. Serving' BY <1>9, <1>10, <1>11, <1>12 DEF Serving
<1> QED BY <1>1, <1>3, <1>6, <1>13

\* The two, as such a step.
LEMMA FrameSent ==
    ASSUME Serving, NEW f \in Frames, SendFrame(f)
    PROVE  /\ f \in Unit /\ Len(sent) < MaxUnits /\ conn = "open"
           /\ sent' = Append(sent, f) /\ stream' = stream \o Bytes(f)
           /\ FramesSent' = IF Good(f) THEN Append(FramesSent, f) ELSE FramesSent
           /\ UNCHANGED <<arrived, conn, answers, transmitter, RecvRtspCmd, fetcher, commander,
                          history>>
           /\ answers' \in Nat
<1>1. f \in Unit /\ Bytes(f) = Wire(f) BY DEF Unit, Bytes
<1>2. Good(f) <=> f.ch \in {0, 1} BY DEF Good
<1> QED BY <1>1, <1>2 DEF SendFrame, Room, Serving

\* SendResponse adds the next number.
LEMMA ResponseSent ==
    ASSUME Serving, SendResponse
    PROVE  \E u \in Unit :
           /\ u \notin Frames /\ u.number = answers + 1 /\ answers' = answers + 1
           /\ Len(sent) < MaxUnits /\ conn = "open"
           /\ sent' = Append(sent, u) /\ stream' = stream \o Bytes(u)
           /\ FramesSent' = IF Good(u) THEN Append(FramesSent, u) ELSE FramesSent
           /\ UNCHANGED <<arrived, conn, transmitter, RecvRtspCmd, fetcher, commander, history>>
           /\ answers' \in Nat
<1>1. answers' = answers + 1 /\ answers \in Nat BY DEF SendResponse, Serving
<1>2. PICK n \in Nat \ {0} : n = answers' BY <1>1
<1>3. PICK u : u = [number |-> n] OBVIOUS
<1>4. u \in Unit /\ u \notin Frames /\ u.number = n BY <1>3, AnswerUnit
<1>5. Bytes(u) = Text(n) /\ ~Good(u) BY <1>4 DEF Bytes, Good
<1>6. sent' = Append(sent, u) /\ stream' = stream \o Bytes(u)
  BY <1>2, <1>3, <1>5, Zenon DEF SendResponse
<1> QED BY <1>1, <1>2, <1>4, <1>5, <1>6 DEF SendResponse, Room

\* Types of the stream and of what the server sent.
LEMMA StreamingStep ==
    ASSUME Streaming, Serving, Flows
    PROVE  Streaming' /\ Serving'
<1>1. CASE UNCHANGED <<stream, arrived, conn, sent, FramesSent, answers>>
  BY <1>1 DEF Streaming, Serving
<1>2. ASSUME NEW f \in Frames, SendFrame(f) PROVE Streaming' /\ Serving'
  BY <1>2, FrameSent, Sending
<1>3. CASE SendResponse
  BY <1>3, ResponseSent, Sending
<1>4. CASE Arrive
  <2>1. Serving' BY <1>4 DEF Serving, Arrive, server
  <2>2. PICK l : l = Len(stream) OBVIOUS
  <2>3. l \in Nat BY <2>2, LenProperties DEF Streaming
  <2>4. stream' = stream /\ conn' = conn /\ arrived < l /\ arrived' = arrived + 1
    BY <1>4, <2>2 DEF Arrive
  <2>5. arrived' \in 0 .. l BY <2>2, <2>3, <2>4 DEF Streaming
  <2>6. conn = "open" BY <2>2, <2>3, <2>4 DEF Streaming
  <2> QED BY <2>1, <2>2, <2>4, <2>5, <2>6 DEF Streaming
<1>5. ASSUME NEW how \in {"eof", "reset"}, Disconnect(how) PROVE Streaming' /\ Serving'
  <2>1. Serving' BY <1>5 DEF Serving, Disconnect, server
  <2>2. /\ stream \in Seq(Nat) /\ arrived \in 0 .. Len(stream) /\ Len(stream) \in Nat
        /\ stream' = SubSeq(stream, 1, arrived) /\ arrived' = arrived /\ conn' = how
    BY <1>5, LenProperties DEF Disconnect, Streaming
  <2>3. stream' \in Seq(Nat) /\ Len(stream') = arrived
    <3>1. PICK m, l : m = arrived /\ l = Len(stream) OBVIOUS
    <3>2. PICK t : t = SubSeq(stream, 1, m) OBVIOUS
    <3>3. m \in Nat /\ m <= l /\ l \in Nat BY <2>2, <3>1
    <3>4. \A i \in 1 .. m : stream[i] \in Nat
      <4>1. \A i \in 1 .. m : i \in 1 .. Len(stream) BY <3>1, <3>3
      <4> QED BY <2>2, <4>1, ElementOfSeq
    <3>5. t \in Seq(Nat) /\ Len(t) = IF 1 <= m THEN m - 1 + 1 ELSE 0
      BY <3>1, <3>2, <3>3, <3>4, <2>2, SubSeqProperties
    <3>6. Len(t) = m BY <3>3, <3>5
    <3> QED BY <2>2, <3>1, <3>2, <3>5, <3>6
  <2>4. arrived' \in 0 .. arrived BY <2>2
  <2> QED BY <2>1, <2>2, <2>3, <2>4 DEF Streaming
<1>6. ASSUME NEW n \in Nat, Consume(n) PROVE Streaming' /\ Serving'
  <2>1. Streaming' /\ UNCHANGED <<conn, sent, FramesSent, answers>> BY <1>6, Taking
  <2> QED BY <2>1 DEF Serving
<1> QED BY <1>1, <1>2, <1>3, <1>4, <1>5, <1>6 DEF Flows

\* The responses are numbered in the order they are sent.
LEMMA NumbersStep ==
    ASSUME Streaming, Serving, Numbers, Flows
    PROVE  Numbers'
<1>1. ASSUME UNCHANGED <<sent, answers>> PROVE Numbers' BY <1>1 DEF Numbers
<1>2. ASSUME NEW u \in Unit, sent' = Append(sent, u), answers' \in Nat, answers <= answers',
             u \notin Frames => u.number = answers + 1 /\ answers' = answers + 1
      PROVE  Numbers'
  <2>1. PICK n : n = Len(sent) OBVIOUS
  <2>2. answers \in Nat /\ n \in Nat BY <2>1, LenProperties DEF Serving
  <2>3. Len(sent') = n + 1 /\ sent'[n + 1] = u /\ \A i \in 1 .. n : sent'[i] = sent[i]
    BY <1>2, <2>1, AppendProperties DEF Serving
  <2>4. \A i \in 1 .. n : sent[i] \notin Frames => sent[i].number \in Nat /\ sent[i].number <= answers
    <3>1. ASSUME NEW i \in 1 .. n, sent[i] \notin Frames PROVE sent[i].number \in Nat
      <4>1. PICK v : v = sent[i] OBVIOUS
      <4>2. v \in Unit BY <2>1, <4>1, ElementOfSeq DEF Serving
      <4> QED BY <3>1, <4>1, <4>2 DEF Unit, Answer
    <3> QED BY <2>1, <3>1 DEF Numbers
  <2>5. PICK s : s = sent' OBVIOUS
  <2>6. ASSUME NEW i \in 1 .. n + 1, s[i] \notin Frames PROVE s[i].number <= answers'
    <3>1. CASE i = n + 1 BY <1>2, <2>2, <2>3, <2>5, <2>6, <3>1
    <3>2. CASE i # n + 1
      <4>1. i \in 1 .. n BY <2>2, <3>2
      <4>2. s[i] = sent[i] BY <2>3, <2>5, <4>1
      <4>3. sent[i].number \in Nat /\ sent[i].number <= answers BY <2>4, <2>6, <4>1, <4>2
      <4> QED BY <1>2, <2>2, <4>2, <4>3
    <3> QED BY <3>1, <3>2
  <2>7. ASSUME NEW i \in 1 .. n + 1, NEW j \in 1 .. n + 1, i < j, s[i] \notin Frames,
               s[j] \notin Frames
        PROVE  s[i].number < s[j].number
    <3>1. i \in 1 .. n BY <2>2, <2>7
    <3>2. s[i] = sent[i] BY <2>3, <2>5, <3>1
    <3>3. CASE j = n + 1
      <4>1. s[j] = u BY <2>3, <2>5, <3>3
      <4>2. sent[i].number \in Nat /\ sent[i].number <= answers BY <2>4, <2>7, <3>1, <3>2
      <4>3. u.number = answers + 1 BY <1>2, <2>7, <4>1
      <4> QED BY <2>2, <3>2, <4>1, <4>2, <4>3
    <3>4. CASE j # n + 1
      <4>1. j \in 1 .. n BY <2>2, <3>4
      <4>2. s[j] = sent[j] BY <2>3, <2>5, <4>1
      <4> QED BY <2>1, <2>7, <3>1, <3>2, <4>1, <4>2 DEF Numbers
    <3> QED BY <3>3, <3>4
  <2> QED BY <2>3, <2>5, <2>6, <2>7 DEF Numbers
<1>3. answers \in Nat BY DEF Serving
<1>4. CASE UNCHANGED <<stream, arrived, conn, sent, FramesSent, answers>> BY <1>1, <1>4
<1>5. ASSUME NEW f \in Frames, SendFrame(f) PROVE Numbers'
  <2>1. f \in Unit /\ sent' = Append(sent, f) /\ answers' = answers BY <1>5, FrameSent
  <2> QED BY <1>2, <1>3, <2>1
<1>6. CASE SendResponse
  <2>1. PICK u \in Unit : /\ u \notin Frames /\ u.number = answers + 1 /\ answers' = answers + 1
                          /\ sent' = Append(sent, u)
    BY <1>6, ResponseSent
  <2> QED BY <1>2, <1>3, <2>1
<1>7. CASE Arrive BY <1>1, <1>7 DEF Arrive, server
<1>8. ASSUME NEW how \in {"eof", "reset"}, Disconnect(how) PROVE Numbers'
  BY <1>1, <1>8 DEF Disconnect, server
<1>9. ASSUME NEW n \in Nat, Consume(n) PROVE Numbers' BY <1>1, <1>9 DEF Consume, server
<1> QED BY <1>4, <1>5, <1>6, <1>7, <1>8, <1>9 DEF Flows

\* The header buffer after a recv().
LEMMA BufferedType ==
    ASSUME Streaming, Polled, NEW n \in 1 .. 4
    PROVE  /\ Buffered(n) \in [1 .. 4 -> Nat]
           /\ \A i \in 1 .. 4 : i <= n /\ i <= arrived => Buffered(n)[i] = stream[i]
<1>1. /\ m_httpTunnelHeaderBuffer \in [1 .. 4 -> Nat]
      /\ stream \in Seq(Nat) /\ arrived \in 0 .. Len(stream) /\ Len(stream) \in Nat
  BY LenProperties DEF Streaming, Polled
<1>2. PICK m : m = Least(n, arrived) OBVIOUS
<1>3. m \in Nat /\ m <= arrived /\ \A i \in 1 .. 4 : i <= n /\ i <= arrived => i <= m
  BY <1>1, <1>2 DEF Least
<1>4. \A i \in 1 .. 4 : i <= m => stream[i] \in Nat
  <2>1. \A i \in 1 .. 4 : i <= m => i \in 1 .. Len(stream) BY <1>1, <1>3
  <2> QED BY <1>1, <2>1, ElementOfSeq
<1>5. Buffered(n) = [i \in 1 .. 4 |-> IF i <= m THEN stream[i] ELSE m_httpTunnelHeaderBuffer[i]]
  BY <1>2 DEF Buffered
<1> QED BY <1>1, <1>3, <1>4, <1>5

\* Types of the parser's state; PollSocket does not look at an empty socket.
LEMMA PolledStep ==
    ASSUME Alone, Base, [Next]_vars
    PROVE  Polled'
<1> USE DEF Polling
<1>1. /\ m_httpTunnelHeaderBuffer \in [1 .. 4 -> Nat]
      /\ m_recvstate \in {"RECV_LEN", "RECV_DATA"} /\ m_dataLength \in Nat
      /\ rtp \in Polling \cup {"out", "lock", "take"}
      /\ rtp \in {"peek", "drop", "header", "text", "payload"} => arrived > 0
      /\ rtp = "drop" => drop \in 1 .. 2
      /\ rtp = "text" => m_httpTunnelHeaderBuffer = RTSP
      /\ cmd = "idle"
  BY DEF Base, Polled
<1>2. \A n \in 1 .. 4 : Buffered(n) \in [1 .. 4 -> Nat] BY BufferedType DEF Base
<1>3. arrived \in Nat /\ arrived' \in Nat
  <2>1. Streaming /\ Streaming' BY StepFlows, StreamingStep DEF Base
  <2> QED BY <2>1, LenProperties DEF Streaming
<1>4. ASSUME arrived' >= arrived,
             UNCHANGED <<m_httpTunnelHeaderBuffer, m_recvstate, m_dataLength, rtp, drop, cmd>>
      PROVE  Polled'
  BY <1>1, <1>3, <1>4 DEF Polled
<1>5. ASSUME rtp' \in {"out", "lock", "take", "poll", "line", "call", "clear"},
             UNCHANGED <<m_httpTunnelHeaderBuffer, m_recvstate, m_dataLength, cmd>>
      PROVE  Polled'
  BY <1>1, <1>5 DEF Polled
<1>6. CASE UNCHANGED vars BY <1>3, <1>4, <1>6 DEF vars
<1>7. ASSUME NEW f \in Frames, SendFrame(f) PROVE Polled'
  BY <1>3, <1>4, <1>7 DEF SendFrame, transmitter, fetcher, commander
<1>8. CASE SendResponse BY <1>3, <1>4, <1>8 DEF SendResponse, transmitter, fetcher, commander
<1>9. CASE Arrive BY <1>3, <1>4, <1>9 DEF Arrive, transmitter, fetcher, commander
<1>10. ASSUME NEW how \in {"eof", "reset"}, Disconnect(how) PROVE Polled'
  BY <1>3, <1>4, <1>10 DEF Disconnect, transmitter, fetcher, commander
<1>11. ASSUME NEW how \in Fetches, Fetch(how) PROVE Polled'
  BY <1>5, <1>11 DEF Fetch, transmitter, commander
<1>12. CASE TryLockSocket BY <1>5, <1>12 DEF TryLockSocket, transmitter, commander
<1>13. CASE Take BY <1>5, <1>13 DEF Take, transmitter, commander
<1>14. CASE PollSocket
  <2>1. CASE PollRound BY <1>1, <2>1 DEF PollRound, transmitter, commander, connection, Polled
  <2>2. CASE Peek
    <3>1. ASSUME NEW n \in 1 .. 4, NEW step \in {"drop", "header", "text"}, NEW bytes,
                 rtp = "peek", PeekTo(n, step, bytes), step = "drop" => bytes \in 1 .. 2,
                 step = "text" => Buffered(n) = RTSP
          PROVE  Polled'
      BY <1>1, <1>2, <3>1 DEF PeekTo, connection, commander, Polled
    <3> QED BY <2>2, <3>1 DEF Peek
  <2>3. CASE Drop BY <1>1, <1>2, <2>3 DEF Drop, commander, Polled
  <2>4. CASE ReadHeader
    <3>1. PICK h : h = Buffered(4) OBVIOUS
    <3>2. h \in [1 .. 4 -> Nat] BY <1>2, <3>1
    <3>3. h[3] * 256 + h[4] \in Nat BY <3>2
    <3> QED BY <1>1, <2>4, <3>1, <3>2, <3>3 DEF ReadHeader, commander, Polled
  <2>5. CASE ReadRTSP BY <1>1, <1>2, <2>5 DEF ReadRTSP, commander, Polled
  <2>6. CASE ReadTextByte BY <1>5, <2>6 DEF ReadTextByte, commander
  <2>7. CASE ReadTextEnd BY <1>5, <2>7 DEF ReadTextEnd, commander
  <2>8. CASE CallBack BY <1>5, <2>8 DEF CallBack, commander
  <2>9. CASE ClearCallback BY <1>5, <2>9 DEF ClearCallback, transmitter, commander
  <2>10. CASE ReadPayload BY <1>1, <2>10 DEF ReadPayload, commander, Polled
  <2>11. CASE PollEnds BY <1>5, <2>11 DEF PollEnds, transmitter, commander
  <2> QED BY <1>14, <2>1, <2>2, <2>3, <2>4, <2>5, <2>6, <2>7, <2>8, <2>9, <2>10,
             <2>11 DEF PollSocket
<1>15. CASE PollFails BY <1>1, <1>15 DEF PollFails, commander, Polled
<1>16. CASE SetRtspCmdClbk
  BY <1>3, <1>4, <1>16 DEF SetRtspCmdClbk, connection, transmitter, fetcher
<1>17. ASSUME NEW wait \in Waits, Command(wait) PROVE Polled'
  <2>1. wait = FALSE BY <1>17 DEF Alone
  <2>2. cmd' = "idle" BY <1>17, <2>1 DEF Command
  <2> QED BY <1>1, <1>3, <1>4, <1>17, <2>2 DEF Command, connection, transmitter, fetcher
<1>18. CASE RecvRTSP
  BY <1>1, <1>18 DEF RecvRTSP, LockSocket, RecvRTSPByte, RecvRTSPFails
<1> QED BY <1>6, <1>7, <1>8, <1>9, <1>10, <1>11, <1>12, <1>13, <1>14, <1>15, <1>16, <1>17,
           <1>18 DEF Next, FetchStep

\* What PollSocket hands over as a packet.
LEMMA PayloadType ==
    ASSUME Streaming, Polled
    PROVE  /\ Payload \in Seq(Int) /\ Len(Payload) = m_dataLength
           /\ DOMAIN Payload = 1 .. m_dataLength
           /\ \A i \in 1 .. m_dataLength :
                 Payload[i] = IF i <= arrived THEN stream[i] ELSE -1
           /\ \A i \in 1 .. m_dataLength : i <= arrived => Payload[i] # -1
<1>1. PICK n, p : n = m_dataLength /\ p = Payload OBVIOUS
<1>2. n \in Nat BY <1>1 DEF Polled
<1>3. stream \in Seq(Nat) /\ arrived \in 0 .. Len(stream) /\ Len(stream) \in Nat
  BY LenProperties DEF Streaming
<1>4. \A i \in 1 .. n : i <= arrived => stream[i] \in Nat
  <2>1. \A i \in 1 .. n : i <= arrived => i \in 1 .. Len(stream) BY <1>2, <1>3
  <2> QED BY <1>3, <2>1, ElementOfSeq
<1>5. p = [i \in 1 .. n |-> IF i <= arrived THEN stream[i] ELSE -1]
  BY <1>1 DEF Payload, Unknown
<1>6. p \in [1 .. n -> Int] BY <1>2, <1>4, <1>5
<1>7. p \in Seq(Int) /\ Len(p) = n BY <1>2, <1>6
<1>8. DOMAIN p = 1 .. n /\ \A i \in 1 .. n : p[i] = IF i <= arrived THEN stream[i] ELSE -1
  BY <1>5
<1> QED BY <1>1, <1>4, <1>7, <1>8

\* Types of what PollSocket hands over.
LEMMA GottenStep ==
    ASSUME Alone, Base, [Next]_vars
    PROVE  Gotten'
<1>1. /\ rtspbuf \in Seq(Nat) /\ RecvRtspCmd \in Nat /\ registered \in Nat
      /\ calls \in Seq([clbk : Nat, text : Seq(Nat)])
      /\ delivered \in Seq([ch : {0, 1}, payload : Seq(Int)]) /\ taken \in Nat
  BY DEF Base, Gotten
<1>2. ASSUME UNCHANGED <<rtspbuf, RecvRtspCmd, registered, calls, delivered, taken>>
      PROVE  Gotten'
  BY <1>2 DEF Base, Gotten
<1>3. CASE UNCHANGED vars BY <1>2, <1>3 DEF vars
<1>4. ASSUME NEW f \in Frames, SendFrame(f) PROVE Gotten'
  BY <1>2, <1>4 DEF SendFrame, transmitter, commander, history
<1>5. CASE SendResponse BY <1>2, <1>5 DEF SendResponse, transmitter, commander, history
<1>6. CASE Arrive BY <1>2, <1>6 DEF Arrive, transmitter, commander, history
<1>7. ASSUME NEW how \in {"eof", "reset"}, Disconnect(how) PROVE Gotten'
  BY <1>2, <1>7 DEF Disconnect, transmitter, commander, history
<1>8. ASSUME NEW how \in Fetches, Fetch(how) PROVE Gotten'
  BY <1>2, <1>8 DEF Fetch, transmitter, commander, history
<1>9. CASE TryLockSocket BY <1>2, <1>9 DEF TryLockSocket, transmitter, commander, history
<1>10. CASE Take BY <1>2, <1>10 DEF Take, transmitter, commander, history
<1>11. CASE PollSocket
  <2>1. CASE PollRound BY <1>2, <2>1 DEF PollRound, transmitter, commander, history
  <2>2. CASE Peek BY <1>2, <2>2 DEF Peek, PeekTo, commander, history
  <2>3. CASE Drop BY <1>2, <2>3 DEF Drop, commander, history
  <2>4. CASE ReadHeader BY <1>2, <2>4 DEF ReadHeader, commander, history
  <2>5. CASE ReadRTSP
    <3>1. CASE RecvRtspCmd # NULL
      <4>1. rtspbuf' = Buffered(2) BY <2>5, <3>1 DEF ReadRTSP
      <4>2. rtspbuf' \in [1 .. 4 -> Nat] BY <4>1, BufferedType DEF Base
      <4>3. PICK s : s = rtspbuf' OBVIOUS
      <4>4. s \in Seq(Nat) BY <4>2, <4>3, 4 \in Nat, SeqDef
      <4> QED BY <1>1, <2>5, <4>3, <4>4 DEF ReadRTSP, commander, history, Gotten
    <3>2. CASE RecvRtspCmd = NULL
      BY <1>2, <2>5, <3>2 DEF ReadRTSP, commander, history
    <3> QED BY <3>1, <3>2
  <2>6. CASE ReadTextByte
    <3>1. 1 \in 1 .. Len(stream) /\ stream \in Seq(Nat)
      BY <2>6, LenProperties DEF ReadTextByte, Base, Streaming
    <3>2. stream[1] \in Nat BY <3>1, ElementOfSeq
    <3>3. rtspbuf' \in Seq(Nat) BY <1>1, <2>6, <3>2, AppendProperties DEF ReadTextByte
    <3> QED BY <1>1, <2>6, <3>3 DEF ReadTextByte, commander, history, Gotten
  <2>7. CASE ReadTextEnd
    <3>1. rtspbuf' \in Seq(Nat) BY <1>1, <2>7 DEF ReadTextEnd
    <3> QED BY <1>1, <2>7, <3>1 DEF ReadTextEnd, commander, history, Gotten
  <2>8. CASE CallBack
    <3>1. PICK e : e = [clbk |-> RecvRtspCmd, text |-> rtspbuf] OBVIOUS
    <3>2. e \in [clbk : Nat, text : Seq(Nat)] BY <1>1, <3>1
    <3>3. calls' = Append(calls, e) BY <2>8, <3>1 DEF CallBack
    <3>4. calls' \in Seq([clbk : Nat, text : Seq(Nat)]) BY <1>1, <3>2, <3>3, AppendProperties
    <3>5. rtspbuf' = <<>> BY <2>8 DEF CallBack
    <3>6. rtspbuf' \in Seq(Nat) BY <3>5
    <3> QED BY <1>1, <2>8, <3>4, <3>6 DEF CallBack, commander, Gotten
  <2>9. CASE ClearCallback
    <3>1. RecvRtspCmd' \in Nat BY <2>9 DEF ClearCallback, NULL
    <3> QED BY <1>1, <2>9, <3>1 DEF ClearCallback, transmitter, commander, history, Gotten
  <2>10. CASE ReadPayload
    <3>1. PICK e : e = [ch |-> IF m_isrtp THEN 0 ELSE 1, payload |-> Payload] OBVIOUS
    <3>2. PICK p : p = Payload OBVIOUS
    <3>3. p \in Seq(Int) BY <3>2, PayloadType DEF Base
    <3>4. e = [ch |-> IF m_isrtp THEN 0 ELSE 1, payload |-> p] BY <3>1, <3>2
    <3>5. e \in [ch : {0, 1}, payload : Seq(Int)] BY <3>3, <3>4
    <3>6. delivered' = Append(delivered, e) BY <2>10, <3>1, Zenon DEF ReadPayload
    <3>7. delivered' \in Seq([ch : {0, 1}, payload : Seq(Int)])
      BY <1>1, <3>5, <3>6, AppendProperties
    <3>8. taken' = taken + 1 /\ UNCHANGED <<rtspbuf, RecvRtspCmd, registered, calls>>
      BY <2>10 DEF ReadPayload, commander
    <3>9. taken' \in Nat BY <1>1, <3>8
    <3> QED BY <1>1, <3>7, <3>8, <3>9 DEF Gotten
  <2>11. CASE PollEnds BY <1>2, <2>11 DEF PollEnds, transmitter, commander, history
  <2> QED BY <1>11, <2>1, <2>2, <2>3, <2>4, <2>5, <2>6, <2>7, <2>8, <2>9, <2>10,
             <2>11 DEF PollSocket
<1>12. CASE PollFails
  <2>1. taken' \in Nat BY <1>1, <1>12 DEF PollFails
  <2> QED BY <1>1, <1>12, <2>1 DEF PollFails, commander, Gotten
<1>13. CASE SetRtspCmdClbk
  <2>1. registered' \in Nat /\ RecvRtspCmd' \in Nat BY <1>1, <1>13 DEF SetRtspCmdClbk
  <2> QED BY <1>1, <1>13, <2>1 DEF SetRtspCmdClbk, transmitter, history, Gotten
<1>14. ASSUME NEW wait \in Waits, Command(wait) PROVE Gotten'
  BY <1>2, <1>14 DEF Command, transmitter, history
<1>15. CASE RecvRTSP
  BY <1>15 DEF RecvRTSP, LockSocket, RecvRTSPByte, RecvRTSPFails, Base, Polled
<1> QED BY <1>3, <1>4, <1>5, <1>6, <1>7, <1>8, <1>9, <1>10, <1>11, <1>12, <1>13, <1>14, <1>15
        DEF Next, FetchStep

\* All of them.
LEMMA BaseStep ==
    ASSUME Alone, Base, [Next]_vars
    PROVE  Base'
<1>1. Streaming' /\ Serving' BY StepFlows, StreamingStep DEF Base
<1> QED BY <1>1, PolledStep, GottenStep DEF Base

-----------------------------------------------------------------------------
(* The callback *)

\* A step that leaves the callback, and the calls made, alone.
Keeps ==
    /\ UNCHANGED <<RecvRtspCmd, registered, calls>>
    /\ rtp' \in {"line", "call"} => rtp \in {"line", "call"} \/ RecvRtspCmd # NULL
    /\ rtp = "clear" => rtp' = "clear"

\* Every callback made is a registered one, and no callback is made twice.
LEMMA ClbksStep ==
    ASSUME Gotten, Clbks, [Next]_vars
    PROVE  Clbks'
<1>1. ASSUME Keeps PROVE Clbks' BY <1>1 DEF Keeps, Clbks
<1>2. CASE UNCHANGED vars BY <1>1, <1>2 DEF vars, Keeps
<1>3. ASSUME NEW f \in Frames, SendFrame(f) PROVE Clbks'
  BY <1>1, <1>3 DEF SendFrame, fetcher, commander, history, Keeps
<1>4. CASE SendResponse BY <1>1, <1>4 DEF SendResponse, fetcher, commander, history, Keeps
<1>5. CASE Arrive BY <1>1, <1>5 DEF Arrive, fetcher, commander, history, Keeps
<1>6. ASSUME NEW how \in {"eof", "reset"}, Disconnect(how) PROVE Clbks'
  BY <1>1, <1>6 DEF Disconnect, fetcher, commander, history, Keeps
<1>7. ASSUME NEW how \in Fetches, Fetch(how) PROVE Clbks'
  BY <1>1, <1>7 DEF Fetch, commander, history, Keeps
<1>8. CASE TryLockSocket BY <1>1, <1>8 DEF TryLockSocket, commander, history, Keeps
<1>9. CASE Take BY <1>1, <1>9 DEF Take, commander, history, Keeps
<1>10. CASE PollSocket
  <2>1. CASE PollRound BY <1>1, <2>1 DEF PollRound, commander, history, Keeps
  <2>2. CASE Peek BY <1>1, <2>2 DEF Peek, PeekTo, commander, history, Keeps
  <2>3. CASE Drop BY <1>1, <2>3 DEF Drop, commander, history, Keeps
  <2>4. CASE ReadHeader BY <1>1, <2>4 DEF ReadHeader, commander, history, Keeps
  <2>5. CASE ReadRTSP BY <1>1, <2>5 DEF ReadRTSP, commander, history, Keeps
  <2>6. CASE ReadTextByte BY <1>1, <2>6 DEF ReadTextByte, commander, history, Keeps
  <2>7. CASE ReadTextEnd BY <1>1, <2>7 DEF ReadTextEnd, commander, history, Keeps
  <2>8. CASE CallBack
    <3>1. PICK e, n : e = [clbk |-> RecvRtspCmd, text |-> rtspbuf] /\ n = Len(calls) OBVIOUS
    <3>2. /\ calls' = Append(calls, e) /\ e.clbk = RecvRtspCmd /\ rtp = "call" /\ rtp' = "clear"
          /\ UNCHANGED <<RecvRtspCmd, registered>>
      BY <2>8, <3>1 DEF CallBack, commander
    <3>3. e \in [clbk : Nat, text : Seq(Nat)] BY <3>1 DEF Gotten
    <3>4. /\ n \in Nat /\ Len(calls') = n + 1 /\ calls'[n + 1] = e
          /\ \A i \in 1 .. n : calls'[i] = calls[i]
      BY <3>1, <3>2, <3>3, AppendProperties, LenProperties DEF Gotten
    <3>5. RecvRtspCmd \in 1 .. registered BY <3>2 DEF Clbks, Gotten, NULL
    <3>6. PICK s : s = calls' OBVIOUS
    <3>7. ASSUME NEW i \in 1 .. n + 1 PROVE s[i].clbk \in 1 .. registered
      <4>1. CASE i = n + 1 BY <3>2, <3>4, <3>5, <3>6, <4>1
      <4>2. CASE i # n + 1
        <5>1. i \in 1 .. n BY <3>4, <4>2
        <5> QED BY <3>1, <3>4, <3>6, <5>1 DEF Clbks
      <4> QED BY <4>1, <4>2
    <3>8. ASSUME NEW i \in 1 .. n PROVE s[i].clbk # RecvRtspCmd /\ s[i] = calls[i]
      BY <3>1, <3>2, <3>4, <3>6 DEF Clbks
    <3>9. ASSUME NEW i \in 1 .. n + 1, NEW j \in 1 .. n + 1, i # j PROVE s[i].clbk # s[j].clbk
      <4>1. CASE i = n + 1
        <5>1. j \in 1 .. n BY <3>4, <3>9, <4>1
        <5> QED BY <3>2, <3>4, <3>6, <3>8, <4>1, <5>1
      <4>2. CASE j = n + 1
        <5>1. i \in 1 .. n BY <3>4, <3>9, <4>2
        <5> QED BY <3>2, <3>4, <3>6, <3>8, <4>2, <5>1
      <4>3. CASE i # n + 1 /\ j # n + 1
        <5>1. i \in 1 .. n /\ j \in 1 .. n BY <3>4, <4>3
        <5> QED BY <3>1, <3>8, <3>9, <5>1 DEF Clbks
      <4> QED BY <4>1, <4>2, <4>3
    <3> QED BY <3>2, <3>4, <3>6, <3>7, <3>9 DEF Clbks
  <2>9. CASE ClearCallback
    <3>1. \A i \in 1 .. Len(calls) : calls[i].clbk # 0 BY DEF Clbks, Gotten
    <3>2. /\ RecvRtspCmd' = 0 /\ rtp' = "poll" /\ UNCHANGED <<registered, calls>>
      BY <2>9 DEF ClearCallback, commander, history, NULL
    <3>3. 0 \in 0 .. registered BY DEF Gotten
    <3> QED BY <3>1, <3>2, <3>3 DEF Clbks
  <2>10. CASE ReadPayload BY <1>1, <2>10 DEF ReadPayload, commander, Keeps
  <2>11. CASE PollEnds BY <1>1, <2>11 DEF PollEnds, commander, history, Keeps
  <2> QED BY <1>10, <2>1, <2>2, <2>3, <2>4, <2>5, <2>6, <2>7, <2>8, <2>9, <2>10,
             <2>11 DEF PollSocket
<1>11. CASE PollFails BY <1>1, <1>11 DEF PollFails, commander, Keeps
<1>12. CASE SetRtspCmdClbk
  <2>1. /\ registered' = registered + 1 /\ RecvRtspCmd' = registered + 1 /\ registered \in Nat
        /\ UNCHANGED <<rtp, calls>>
    BY <1>12 DEF SetRtspCmdClbk, fetcher, history, Gotten
  <2>2. ASSUME NEW i \in 1 .. Len(calls)
        PROVE  calls[i].clbk \in 1 .. registered + 1 /\ calls[i].clbk # registered + 1
    BY <2>1 DEF Clbks
  <2>3. registered + 1 \in 0 .. registered + 1 /\ registered + 1 # 0 BY <2>1
  <2> QED BY <2>1, <2>2, <2>3 DEF Clbks, NULL
<1>13. ASSUME NEW wait \in Waits, Command(wait) PROVE Clbks'
  BY <1>1, <1>13 DEF Command, fetcher, history, Keeps
<1>14. CASE RecvRTSP
  BY <1>1, <1>14 DEF RecvRTSP, LockSocket, RecvRTSPByte, RecvRTSPFails, fetcher, commander,
                     history, Keeps
<1> QED BY <1>2, <1>3, <1>4, <1>5, <1>6, <1>7, <1>8, <1>9, <1>10, <1>11, <1>12, <1>13, <1>14
        DEF Next, FetchStep

-----------------------------------------------------------------------------
(* Where the parser is after a step *)

\* An ended connection of which everything is read stays that.
LEMMA DeadStays ==
    ASSUME Streaming, Dead, Flows
    PROVE  Dead'
<1>1. conn # "open" /\ arrived = 0 /\ Len(stream) = 0 BY DEF Dead, Streaming
<1>2. CASE UNCHANGED <<stream, arrived, conn, sent, FramesSent, answers>>
  BY <1>1, <1>2 DEF Dead
<1>3. ASSUME NEW n \in Nat, Consume(n) PROVE Dead'
  <2>1. Least(n, arrived) = 0 BY <1>1 DEF Least
  <2>2. conn' = conn /\ arrived' = arrived - 0 BY <1>3, <2>1 DEF Consume
  <2> QED BY <1>1, <2>2 DEF Dead
<1> QED BY <1>1, <1>2, <1>3 DEF Flows, SendFrame, SendResponse, Room, Arrive, Disconnect

\* The unread bytes are those of the units.
LEMMA StreamByte ==
    ASSUME Streaming, Serving, NEW pos, Laid(pos), NEW c \in 1 .. Len(sent), NEW k \in Nat,
           pos[c] = -k, NEW b, b = Bytes(sent[c]), NEW j \in 1 .. Len(stream), k + j <= Len(b)
    PROVE  stream[j] = b[k + j]
<1>1. Len(stream) \in Nat BY LenProperties DEF Streaming
<1>2. Len(b) \in Nat
  <2>1. sent[c] \in Unit BY ElementOfSeq DEF Serving
  <2> QED BY <2>1, UnitBytes
<1>3. PICK x, i : x = pos[c] /\ i = k + j OBVIOUS
<1>4. i \in 1 .. Len(b) /\ x + i = j BY <1>1, <1>2, <1>3
<1>5. x + i \in 1 .. Len(stream) => stream[x + i] = b[i] BY <1>3, <1>4 DEF Laid
<1> QED BY <1>3, <1>4, <1>5

\* Unread bytes that have arrived belong to a unit.
LEMMA Reading ==
    ASSUME Streaming, Serving, NEW pos, NEW num, NEW c, NEW k, Laid(pos), At(pos, num, c, k),
           arrived > 0
    PROVE  /\ c \in 1 .. Len(sent) /\ c \in Nat /\ k \in Nat /\ pos[c] = -k /\ sent[c] \in Unit
           /\ c + 1 \in 1 .. Len(sent) + 1 /\ Len(sent) \in Nat
<1>1. PICK n, l : n = Len(sent) /\ l = Len(stream) OBVIOUS
<1>2. n \in Nat /\ l \in Nat /\ arrived \in 0 .. l /\ l <= pos[n + 1]
  BY <1>1, LenProperties DEF Streaming, Serving, Laid
<1>3. c \in 1 .. n + 1 /\ k \in Nat /\ pos[c] = -k /\ (c = n + 1 => k = 0) BY <1>1 DEF At
<1>4. c # n + 1
  <2>1. SUFFICES ASSUME c = n + 1 PROVE FALSE OBVIOUS
  <2>2. pos[n + 1] = 0 BY <1>3, <2>1
  <2> QED BY <1>2, <2>2
<1>5. c \in 1 .. n /\ c \in Nat /\ c + 1 \in 1 .. n + 1 BY <1>2, <1>3, <1>4
<1>6. sent[c] \in Unit BY <1>1, <1>5, ElementOfSeq DEF Serving
<1> QED BY <1>1, <1>2, <1>3, <1>5, <1>6

\* n more bytes of unit c are read.
LEMMA Moved ==
    ASSUME Streaming, Serving, NEW pos, NEW num, Laid(pos), Ranked(num),
           NEW c \in 1 .. Len(sent), NEW k \in Nat, pos[c] = -k, NEW b, b = Bytes(sent[c]),
           NEW n \in Nat, Ready(n), Consume(n), ~Dead'
    PROVE  /\ n <= arrived /\ UNCHANGED <<conn, sent, FramesSent, answers>> /\ Ranked(num)'
           /\ \E q : Laid(q)' /\ q[c] = -(k + n) /\ (k + n = Len(b) => q[c + 1] = 0)
<1>1. /\ n <= arrived /\ Rest(stream, n, stream') /\ UNCHANGED <<conn, sent, FramesSent, answers>>
  BY Taking
<1>2. Ranked(num)' BY <1>1 DEF Ranked
<1>3. sent \in Seq(Unit) /\ Len(sent) \in Nat /\ UNCHANGED <<sent, conn>>
  BY <1>1, LenProperties DEF Serving
<1>4. PICK q : Laid(q)' /\ \A i \in 1 .. Len(sent) + 1 : q[i] = pos[i] - n
  BY <1>1, <1>3, LaidRest
<1>5. c \in 1 .. Len(sent) + 1 /\ c + 1 \in 1 .. Len(sent) + 1 BY <1>3
<1>6. q[c] = pos[c] - n /\ q[c + 1] = pos[c + 1] - n /\ pos[c + 1] = pos[c] + Len(b)
  BY <1>4, <1>5 DEF Laid
<1>7. sent[c] \in Unit BY <1>3, ElementOfSeq
<1>8. Len(b) \in Nat BY <1>7, UnitBytes
<1>9. q[c] = -(k + n) /\ (k + n = Len(b) => q[c + 1] = 0)
  <2>1. PICK x, y, z, w : x = pos[c] /\ y = pos[c + 1] /\ z = q[c] /\ w = q[c + 1] OBVIOUS
  <2>2. x = -k /\ z = x - n /\ w = y - n /\ y = x + Len(b) BY <1>6, <2>1
  <2> QED BY <1>8, <2>1, <2>2
<1> QED BY <1>1, <1>2, <1>4, <1>9

\* What the callbacks were told stays before what is ahead.
LEMMA BeforeOn ==
    ASSUME NEW t, NEW c \in Nat, NEW k, NEW d \in Nat, NEW e, Before(t, c, k), c <= d,
           Len(sent) \in Nat, UNCHANGED <<sent, answers>>,
           \A j \in d .. Len(sent) : Ahead(d, e, j)' => Ahead(c, k, j)
    PROVE  Before(t, d, e)'
<1>1. \A j \in d .. Len(sent) : j \in c .. Len(sent) OBVIOUS
<1>2. /\ t \in Seq(Nat) /\ Len(t) = 9 /\ t[7] <= 100 + answers
      /\ \A j \in c .. Len(sent) :
            sent[j] \notin Frames /\ Ahead(c, k, j) => t[7] < 100 + sent[j].number
  BY DEF Before
<1>3. \A j \in d .. Len(sent) :
         sent[j] \notin Frames /\ Ahead(d, e, j)' => t[7] < 100 + sent[j].number
  BY <1>1, <1>2
<1> QED BY <1>2, <1>3 DEF Before

\* The same for all callbacks made, when nothing new is told.
LEMMA ToldOn ==
    ASSUME NEW c \in Nat, NEW k, NEW d \in Nat, NEW e, Told(c, k), c <= d,
           Len(sent) \in Nat, UNCHANGED <<conn, sent, answers, calls>>, rtp' # "call",
           \A j \in d .. Len(sent) : Ahead(d, e, j)' => Ahead(c, k, j)
    PROVE  Told(d, e)'
<1>1. PICK s : s = calls OBVIOUS
<1>2. s = calls' BY <1>1
<1>3. SUFFICES ASSUME conn = "open"
               PROVE  /\ \A i \in 1 .. Len(s) : Before(s[i].text, d, e)'
                      /\ \A i, j \in 1 .. Len(s) : i < j => s[i].text[7] < s[j].text[7]
  BY <1>2 DEF Told
<1>4. ASSUME NEW i \in 1 .. Len(s) PROVE Before(s[i].text, d, e)'
  <2>1. PICK t : t = s[i].text OBVIOUS
  <2>2. Before(t, c, k) BY <1>1, <1>3, <2>1 DEF Told
  <2>3. Before(t, d, e)' BY <2>2, BeforeOn
  <2> QED BY <2>1, <2>3
<1>5. \A i, j \in 1 .. Len(s) : i < j => s[i].text[7] < s[j].text[7]
  BY <1>1, <1>3 DEF Told
<1> QED BY <1>4, <1>5

\* A step that reads nothing, and after which the parser is where it was.
LEMMA StillParsed ==
    ASSUME NEW pos, NEW num, NEW c, NEW k, Parsed(pos, num, c, k),
           UNCHANGED <<stream, conn, sent, FramesSent, answers, taken>>,
           (ParserAt(c, k) \/ InPayload(c, k))', Told(c, k)'
    PROVE  Parsed(pos, num, c, k)'
<1>1. Laid(pos)' BY DEF Parsed, Laid
<1>2. Ranked(num)' BY DEF Parsed, Ranked
<1>3. At(pos, num, c, k)'
  <2>1. /\ c \in 1 .. Len(sent) + 1 /\ k \in Nat /\ pos[c] = -k /\ taken = num[c]
        /\ c = Len(sent) + 1 => k = 0
    BY DEF Parsed, At
  <2>2. /\ (c \in 1 .. Len(sent) + 1 /\ k \in Nat /\ pos[c] = -k /\ taken = num[c])'
        /\ (c = Len(sent) + 1 => k = 0)'
    BY <2>1
  <2> QED BY <2>2 DEF At
<1> QED BY <1>1, <1>2, <1>3 DEF Parsed

\* Such a step when no response is being read.
LEMMA SameTold ==
    ASSUME Serving, NEW pos, NEW num, NEW c, NEW k, Parsed(pos, num, c, k),
           UNCHANGED <<conn, sent, answers, calls>>, rtp' # "call", rtp' # "line"
    PROVE  Told(c, k)'
<1>1. Len(sent) \in Nat BY LenProperties DEF Serving
<1>2. c \in Nat /\ c <= c BY <1>1 DEF Parsed, At
<1>3. \A j \in c .. Len(sent) : Ahead(c, k, j)' => Ahead(c, k, j) BY DEF Ahead
<1>4. Told(c, k) BY DEF Parsed
<1> QED BY <1>1, <1>2, <1>3, <1>4, ToldOn

\* A step between two reads, or before a payload.
LEMMA Shifted ==
    ASSUME Serving, NEW pos, NEW num, NEW c, NEW k, Parsed(pos, num, c, k),
           UNCHANGED <<stream, conn, sent, FramesSent, answers, taken, calls, m_recvstate,
                       m_isrtp, m_dataLength>>,
           rtp \in Between \cup {"payload"},
           \/ m_recvstate = "RECV_LEN" /\ rtp' \in Between \ {"call"}
           \/ m_recvstate = "RECV_DATA" /\ rtp' \in {"out", "lock", "take", "poll", "payload"}
    PROVE  Parsed(pos, num, c, k)'
<1>1. rtp' # "call" /\ rtp' # "line" BY DEF Between
<1>2. Told(c, k)' BY <1>1, SameTold
<1>3. ParserAt(c, k) \/ InPayload(c, k) BY DEF Parsed, At
<1>4. CASE m_recvstate = "RECV_LEN"
  <2>1. Skips(c, k)
    BY <1>3, <1>4 DEF ParserAt, InPayload, Between
  <2>2. Skips(c, k)' BY <2>1 DEF Skips, Skipped
  <2>3. m_recvstate' = "RECV_LEN" /\ rtp' \in Between BY <1>4
  <2>4. ParserAt(c, k)' BY <2>2, <2>3 DEF ParserAt
  <2> QED BY <1>2, <2>4, StillParsed
<1>5. CASE m_recvstate = "RECV_DATA"
  <2>1. InPayload(c, k) BY <1>3, <1>5 DEF ParserAt
  <2>2. InPayload(c, k)' BY <1>5, <2>1 DEF InPayload
  <2> QED BY <1>2, <2>2, StillParsed
<1> QED BY <1>4, <1>5

\* A step that changes neither the stream nor the parser.
LEMMA Unmoved ==
    ASSUME Streaming, Serving, NEW pos, NEW num, NEW c, NEW k, Parsed(pos, num, c, k),
           UNCHANGED <<stream, conn, sent, FramesSent, answers, taken, calls, m_recvstate,
                       m_isrtp, m_dataLength, rtp, drop, rtspbuf>>,
           arrived' = arrived \/ (arrived < Len(stream) /\ arrived' = arrived + 1)
    PROVE  Parsed(pos, num, c, k)'
<1>1. conn # "open" => arrived' = arrived BY LenProperties DEF Streaming
<1>2. ParserAt(c, k) \/ InPayload(c, k) BY DEF Parsed, At
<1>3. (ParserAt(c, k) \/ InPayload(c, k))'
  <2>1. CASE InPayload(c, k) BY <2>1 DEF InPayload
  <2>2. CASE ParserAt(c, k)
    <3>1. Skips(c, k)' <=> Skips(c, k) BY DEF Skips, Skipped
    <3>2. Skipped(c, k + drop)' <=> Skipped(c, k + drop) BY DEF Skipped
    <3> QED BY <1>1, <2>2, <3>1, <3>2 DEF ParserAt
  <2> QED BY <1>2, <2>1, <2>2
<1>4. Told(c, k)'
  <2>1. Told(c, k) BY DEF Parsed
  <2> QED BY <2>1 DEF Told, Before, Ahead
<1> QED BY <1>3, <1>4, StillParsed

\* The server sends a unit u.
LEMMA MoreParsed ==
    ASSUME Streaming, Serving, NEW pos, NEW num, NEW c, NEW k, Parsed(pos, num, c, k),
           NEW u \in Unit, conn = "open", sent' = Append(sent, u),
           Joined(stream, Bytes(u), stream'),
           FramesSent' = IF Good(u) THEN Append(FramesSent, u) ELSE FramesSent,
           UNCHANGED <<arrived, conn, taken, calls, m_recvstate, m_isrtp, m_dataLength, rtp, drop,
                       rtspbuf>>,
           answers' \in Nat, answers <= answers',
           u \notin Frames => u.number = answers + 1
    PROVE  \E q, m : Parsed(q, m, c, k)'
<1>1. PICK n : n = Len(sent) OBVIOUS
<1>2. sent \in Seq(Unit) /\ FramesSent \in Seq(Frames) /\ answers \in Nat BY DEF Serving
<1>3. /\ n \in Nat /\ Len(sent') = n + 1 /\ sent'[n + 1] = u
      /\ \A i \in 1 .. n : sent'[i] = sent[i]
  BY <1>1, <1>2, AppendProperties, LenProperties
<1>4. PICK q : Laid(q)' /\ \A i \in 1 .. n + 1 : q[i] = pos[i]
  BY <1>1, <1>2, LaidMore DEF Parsed
<1>5. PICK m : Ranked(m)' /\ \A i \in 1 .. n + 1 : m[i] = num[i]
  BY <1>1, <1>2, RankedMore DEF Parsed
<1>6. /\ c \in 1 .. n + 1 /\ c \in Nat /\ k \in Nat /\ pos[c] = -k /\ taken = num[c]
      /\ c = n + 1 => k = 0
      /\ ParserAt(c, k) \/ InPayload(c, k)
  BY <1>1, <1>3 DEF Parsed, At
<1>7. PICK s : s = sent' OBVIOUS
<1>8. c <= n => s[c] = sent[c] /\ c <= n + 1 BY <1>3, <1>6, <1>7
<1>9. (ParserAt(c, k) \/ InPayload(c, k))'
  <2>1. CASE InPayload(c, k)
    BY <1>1, <1>3, <1>7, <1>8, <2>1 DEF InPayload
  <2>2. CASE ParserAt(c, k)
    <3>1. Skipped(c, k) => Skipped(c, k)'
      BY <1>1, <1>3, <1>7, <1>8 DEF Skipped
    <3>2. Skips(c, k) => Skips(c, k)'
      BY <1>1, <1>3, <1>7, <1>8, <3>1 DEF Skips, Skipped
    <3>3. Skipped(c, k + drop) => Skipped(c, k + drop)'
      BY <1>1, <1>3, <1>7, <1>8 DEF Skipped
    <3> QED BY <1>1, <1>3, <1>7, <1>8, <2>2, <3>2, <3>3 DEF ParserAt
  <2> QED BY <1>6, <2>1, <2>2
<1>10. At(q, m, c, k)'
  <2>1. c \in 1 .. (n + 1) + 1 /\ c # (n + 1) + 1 BY <1>3, <1>6
  <2>2. q[c] = -k /\ m[c] = taken BY <1>4, <1>5, <1>6
  <2> QED BY <1>3, <1>6, <1>7, <1>9, <2>1, <2>2 DEF At
<1>11. ASSUME NEW t, Before(t, c, k) PROVE Before(t, c, k)'
  <2>1. /\ t \in Seq(Nat) /\ Len(t) = 9 /\ t[7] <= 100 + answers
        /\ \A j \in c .. n :
              sent[j] \notin Frames /\ Ahead(c, k, j) => t[7] < 100 + sent[j].number
    BY <1>1, <1>11 DEF Before
  <2>2. t[7] \in Nat
    <3>1. 7 \in 1 .. Len(t) BY <2>1
    <3> QED BY <2>1, <3>1, ElementOfSeq
  <2>3. ASSUME NEW j \in c .. n + 1, s[j] \notin Frames, Ahead(c, k, j)'
        PROVE  t[7] < 100 + s[j].number
    <3>1. CASE j = n + 1 BY <1>2, <1>3, <1>7, <2>1, <2>2, <2>3, <3>1
    <3>2. CASE j # n + 1
      <4>1. j \in c .. n /\ j \in 1 .. n BY <1>3, <1>6, <3>2
      <4>2. s[j] = sent[j] /\ Ahead(c, k, j) BY <1>3, <1>7, <2>3, <4>1 DEF Ahead
      <4> QED BY <2>1, <2>3, <4>1, <4>2
    <3> QED BY <3>1, <3>2
  <2>4. t[7] <= 100 + answers' BY <1>2, <2>1, <2>2
  <2> QED BY <1>3, <1>7, <2>1, <2>3, <2>4 DEF Before
<1>12. Told(c, k)'
  <2>1. PICK z, r : z = calls /\ r = rtspbuf OBVIOUS
  <2>2. /\ \A i \in 1 .. Len(z) : Before(z[i].text, c, k)
        /\ \A i, j \in 1 .. Len(z) : i < j => z[i].text[7] < z[j].text[7]
        /\ rtp = "call" => Before(r, c, k) /\ \A i \in 1 .. Len(z) : z[i].text[7] < r[7]
    BY <2>1 DEF Parsed, Told
  <2>3. ASSUME NEW i \in 1 .. Len(z) PROVE Before(z[i].text, c, k)'
    <3>1. PICK t : t = z[i].text OBVIOUS
    <3>2. Before(t, c, k)' BY <1>11, <2>2, <3>1
    <3> QED BY <3>1, <3>2
  <2>4. rtp = "call" => Before(r, c, k)' BY <1>11, <2>2
  <2> QED BY <2>1, <2>2, <2>3, <2>4 DEF Told
<1> QED BY <1>4, <1>5, <1>10, <1>12 DEF Parsed

\* The connection ends.
LEMMA CutParsed ==
    ASSUME Streaming, Serving, NEW pos, NEW num, NEW c, NEW k, Parsed(pos, num, c, k),
           NEW how \in {"eof", "reset"}, Disconnect(how)
    PROVE  Parsed(pos, num, c, k)'
<1>1. /\ stream' = SubSeq(stream, 1, arrived) /\ conn = "open" /\ conn' # "open"
      /\ UNCHANGED <<arrived, sent, FramesSent, answers, taken, calls, m_recvstate, m_isrtp,
                     m_dataLength, rtp, drop, rtspbuf>>
  BY DEF Disconnect, server, transmitter, fetcher, history
<1>2. Laid(pos)' BY <1>1, LaidCut DEF Parsed, Streaming, Serving
<1>3. Ranked(num)' BY <1>1 DEF Parsed, Ranked
<1>4. Told(c, k)' BY <1>1 DEF Told
<1>5. (ParserAt(c, k) \/ InPayload(c, k))'
  <2>1. ParserAt(c, k) \/ InPayload(c, k) BY DEF Parsed, At
  <2>2. CASE InPayload(c, k) BY <1>1, <2>2 DEF InPayload
  <2>3. CASE ParserAt(c, k)
    <3>1. Skips(c, k)' <=> Skips(c, k) BY <1>1 DEF Skips, Skipped
    <3>2. Skipped(c, k + drop)' <=> Skipped(c, k + drop) BY <1>1 DEF Skipped
    <3> QED BY <1>1, <2>3, <3>1, <3>2 DEF ParserAt
  <2> QED BY <2>1, <2>2, <2>3
<1>6. At(pos, num, c, k)'
  <2>1. /\ c \in 1 .. Len(sent) + 1 /\ k \in Nat /\ pos[c] = -k /\ taken = num[c]
        /\ c = Len(sent) + 1 => k = 0
    BY DEF Parsed, At
  <2>2. /\ (c \in 1 .. Len(sent) + 1 /\ k \in Nat /\ pos[c] = -k /\ taken = num[c])'
        /\ (c = Len(sent) + 1 => k = 0)'
    BY <1>1, <2>1
  <2> QED BY <1>5, <2>2 DEF At
<1> QED BY <1>2, <1>3, <1>4, <1>6 DEF Parsed

\* The bytes Peek sees tell what they are the beginning or the rest of.
LEMMA PeekParsed ==
    ASSUME Distinct, Streaming, Serving, Polled, NEW pos, NEW num, NEW c, NEW k,
           Parsed(pos, num, c, k), Peek
    PROVE  Parsed(pos, num, c, k)'
<1>1. rtp = "peek" /\ arrived > 0 /\ arrived \in Nat /\ arrived <= Len(stream) /\ Len(stream) \in Nat
  BY LenProperties DEF Peek, Polled, Streaming
<1>2. PICK b : b = Bytes(sent[c]) OBVIOUS
<1>3. c \in 1 .. Len(sent) /\ c \in Nat /\ k \in Nat /\ pos[c] = -k /\ sent[c] \in Unit
      /\ Len(sent) \in Nat /\ c <= Len(sent)
  BY <1>1, Reading DEF Parsed
<1>4. /\ Len(b) \in Nat /\ Len(b) >= 4 /\ b[1] = IF sent[c] \in Frames THEN 36 ELSE 82
      /\ sent[c] \notin Frames => Len(b) = 7
  BY <1>2, <1>3, UnitBytes
<1>5. /\ m_recvstate = "RECV_LEN"
      /\ k = 0 \/ (~Good(sent[c]) /\ k \in 2 .. Len(b) /\ k # Len(b))
  BY <1>1, <1>2 DEF Parsed, At, ParserAt, InPayload, Between, Skips, Skipped
<1>6. \A j \in 1 .. 4 : j <= arrived /\ k + j <= Len(b) => stream[j] = b[k + j]
  <2>1. ASSUME NEW j \in 1 .. 4, j <= arrived, k + j <= Len(b) PROVE stream[j] = b[k + j]
    <3>1. j \in 1 .. Len(stream) BY <1>1, <2>1
    <3> QED BY <1>2, <1>3, <2>1, <3>1, StreamByte DEF Parsed
  <2> QED BY <2>1
<1>7. stream[1] = b[k + 1]
  <2>1. 1 \in 1 .. 4 /\ 1 <= arrived /\ k + 1 <= Len(b) BY <1>1, <1>3, <1>4, <1>5
  <2> QED BY <1>6, <2>1
<1>8. /\ \A i \in 1 .. 4 : i <= 1 /\ i <= arrived => Buffered(1)[i] = stream[i]
      /\ \A i \in 1 .. 4 : i <= 2 /\ i <= arrived => Buffered(2)[i] = stream[i]
      /\ Buffered(4) \in [1 .. 4 -> Nat]
      /\ \A i \in 1 .. 4 : i <= 4 /\ i <= arrived => Buffered(4)[i] = stream[i]
  BY BufferedType
<1>9. Buffered(1)[1] = b[k + 1] /\ Buffered(2)[1] = b[k + 1]
  <2>1. 1 \in 1 .. 4 /\ 1 <= 1 /\ 1 <= 2 /\ 1 <= arrived BY <1>1
  <2> QED BY <1>7, <1>8, <2>1
<1>10. b[k + 1] \in {36, 82} <=> k = 0
  <2>1. CASE k = 0
    <3>1. k + 1 = 1 BY <2>1
    <3> QED BY <1>4, <2>1, <3>1
  <2>2. CASE k # 0
    <3>1. ~Good(sent[c]) /\ k + 1 \in 3 .. Len(b) BY <1>3, <1>4, <1>5, <2>2
    <3>2. b[k + 1] \notin {36, 82} BY <1>2, <1>3, <3>1, QuietBytes
    <3> QED BY <2>2, <3>2
  <2> QED BY <2>1, <2>2
<1>11. Marked <=> k = 0 BY <1>9, <1>10 DEF Marked, Dollar, RTSP
<1>12. ASSUME NEW n, NEW step \in {"drop", "header", "text"}, NEW bytes, PeekTo(n, step, bytes),
              (ParserAt(c, k) \/ InPayload(c, k))'
       PROVE  Parsed(pos, num, c, k)'
  <2>1. /\ UNCHANGED <<stream, conn, sent, FramesSent, answers, taken, calls>>
        /\ rtp' # "call" /\ rtp' # "line"
    BY <1>12 DEF PeekTo, connection, history
  <2>2. Told(c, k)' BY <2>1, SameTold
  <2> QED BY <1>12, <2>1, <2>2, StillParsed
<1>13. ASSUME NEW n, NEW step, NEW bytes, PeekTo(n, step, bytes)
       PROVE  /\ rtp' = step /\ drop' = bytes /\ m_recvstate' = "RECV_LEN" /\ Ready(n)
              /\ UNCHANGED <<stream, conn, arrived, sent>>
  BY <1>5, <1>13 DEF PeekTo, connection
<1>14. ASSUME k = 0 PROVE b[k + 1] = b[1] /\ b[k + 2] = b[2] /\ b[k + 3] = b[3] /\ b[k + 4] = b[4]
  <2>1. k + 1 = 1 /\ k + 2 = 2 /\ k + 3 = 3 /\ k + 4 = 4 BY <1>14
  <2> QED BY <2>1
<1>15. ASSUME k = 0, arrived >= 2
       PROVE  /\ Buffered(2)[2] = b[2] /\ (sent[c] \in Frames => b[2] = sent[c].ch)
              /\ (sent[c] \notin Frames => b[2] = 84)
  <2>1. 2 \in 1 .. 4 /\ 2 <= 2 /\ 2 <= arrived /\ k + 2 <= Len(b) BY <1>1, <1>3, <1>4, <1>15
  <2>2. Buffered(2)[2] = stream[2] BY <1>8, <2>1
  <2>3. stream[2] = b[k + 2] BY <1>6, <2>1
  <2>4. sent[c] \in Frames => b[2] = sent[c].ch
    <3>1. PICK u : u = sent[c] OBVIOUS
    <3>2. PICK p : p = u.payload OBVIOUS
    <3>3. u \in Frames => b = Wire(u) BY <1>2, <1>3, <3>1, UnitBytes
    <3>4. u \in Frames => Wire(u)[2] = u.ch BY <3>2, WireBytes
    <3> QED BY <3>1, <3>3, <3>4
  <2>5. sent[c] \notin Frames => b[2] = 84
    <3>1. PICK u : u = sent[c] OBVIOUS
    <3>2. PICK n : n = u.number OBVIOUS
    <3>3. u \notin Frames => n \in Nat /\ b = Text(n) BY <1>2, <1>3, <3>1, <3>2, UnitBytes
    <3>4. u \notin Frames => b[2] = 84 BY <3>3, TextBytes
    <3> QED BY <3>1, <3>4
  <2> QED BY <1>14, <1>15, <2>2, <2>3, <2>4, <2>5
<1>16. CASE ~Marked /\ PeekTo(1, "drop", 1)
  <2>1. rtp' = "drop" /\ drop' = 1 /\ m_recvstate' = "RECV_LEN" /\ UNCHANGED <<conn, arrived, sent>>
    BY <1>13, <1>16
  <2>2. ~Good(sent[c]) /\ k + 1 \in 2 .. Len(b) BY <1>3, <1>4, <1>5, <1>11, <1>16
  <2>3. Skipped(c, k + drop)' BY <1>2, <1>3, <2>1, <2>2 DEF Skipped
  <2>4. ParserAt(c, k)' BY <2>1, <2>3 DEF ParserAt
  <2> QED BY <1>12, <1>16, <2>4
<1>17. CASE Marked /\ Ready(2) /\ ~Numbered /\ PeekTo(2, "drop", 2)
  <2>1. rtp' = "drop" /\ drop' = 2 /\ m_recvstate' = "RECV_LEN" /\ UNCHANGED <<conn, arrived, sent>>
    BY <1>13, <1>17
  <2>2. k = 0 BY <1>11, <1>17
  <2>3. CASE arrived >= 2
    <3>1. Buffered(2)[2] \notin {0, 1, 84} BY <1>17 DEF Numbered, RTSP
    <3>2. ~Good(sent[c]) BY <1>15, <2>2, <2>3, <3>1 DEF Good
    <3>3. k + 2 \in 2 .. Len(b) BY <1>4, <2>2
    <3>4. Skipped(c, k + drop)' BY <1>2, <1>3, <2>1, <3>2, <3>3 DEF Skipped
    <3> QED BY <2>1, <3>4, <1>12, <1>17 DEF ParserAt
  <2>4. CASE ~(arrived >= 2)
    <3>1. conn # "open" /\ arrived <= 2 BY <1>1, <1>17, <2>4 DEF Ready
    <3>2. ParserAt(c, k)' BY <2>1, <3>1 DEF ParserAt
    <3> QED BY <1>12, <1>17, <3>2
  <2> QED BY <2>3, <2>4
<1>18. CASE Marked /\ Ready(2) /\ Numbered /\ Buffered(2)[1] # RTSP[1] /\ PeekTo(2, "header", 0)
  <2>1. rtp' = "header" /\ m_recvstate' = "RECV_LEN" /\ UNCHANGED <<conn, arrived, sent>>
    BY <1>13, <1>18
  <2>2. k = 0 BY <1>11, <1>18
  <2>3. b[1] # 82 BY <1>9, <1>14, <1>18, <2>2 DEF RTSP
  <2>4. sent[c] \in Frames BY <1>4, <2>3
  <2>5. Good(sent[c]) \/ (conn # "open" /\ arrived < 4)
    <3>1. CASE arrived >= 2
      <4>1. Buffered(2)[2] \in {0, 1, 84} BY <1>18 DEF Numbered, RTSP
      <4>2. sent[c].ch \in {0, 1, 84} BY <1>15, <2>2, <2>4, <3>1, <4>1
      <4> QED BY <2>4, <4>2 DEF Good, Distinct, RTSP
    <3>2. CASE ~(arrived >= 2) BY <1>1, <1>18, <3>2 DEF Ready
    <3> QED BY <3>1, <3>2
  <2>6. ParserAt(c, k)' BY <1>3, <2>1, <2>2, <2>4, <2>5 DEF ParserAt
  <2> QED BY <1>12, <1>18, <2>6
<1>19. ASSUME Marked, Buffered(2)[1] = RTSP[1] PROVE k = 0 /\ sent[c] \notin Frames /\ ~Good(sent[c])
  BY <1>4, <1>9, <1>11, <1>14, <1>19 DEF RTSP, Good
<1>20. CASE Marked /\ Buffered(2)[1] = RTSP[1] /\ PeekTo(4, "text", 0)
  <2>1. rtp' = "text" /\ m_recvstate' = "RECV_LEN" /\ UNCHANGED <<conn, arrived, sent>>
    BY <1>13, <1>20
  <2>2. k = 0 /\ sent[c] \notin Frames BY <1>19, <1>20
  <2>3. ParserAt(c, k)' BY <1>3, <2>1, <2>2 DEF ParserAt
  <2> QED BY <1>12, <1>20, <2>3
<1>21. CASE Marked /\ Buffered(2)[1] = RTSP[1] /\ PeekTo(4, "drop", 2)
  <2>1. rtp' = "drop" /\ drop' = 2 /\ m_recvstate' = "RECV_LEN" /\ UNCHANGED <<conn, arrived, sent>>
    BY <1>13, <1>21
  <2>2. k = 0 /\ ~Good(sent[c]) BY <1>19, <1>21
  <2>3. k + 2 \in 2 .. Len(b) BY <1>4, <2>2
  <2>4. Skipped(c, k + drop)' BY <1>2, <1>3, <2>1, <2>2, <2>3 DEF Skipped
  <2>5. ParserAt(c, k)' BY <2>1, <2>4 DEF ParserAt
  <2> QED BY <1>12, <1>21, <2>5
<1> QED BY <1>16, <1>17, <1>18, <1>20, <1>21 DEF Peek

\* Reading n bytes leaves the parser inside unit c,
LEMMA Within ==
    ASSUME Streaming, Serving, NEW pos, NEW num, NEW c, NEW k, Parsed(pos, num, c, k), arrived > 0,
           NEW n \in Nat, Ready(n), Consume(n), ~Dead', UNCHANGED <<taken, calls>>,
           rtp' # "call", rtp' = "line" => k = 0 \/ rtp = "line",
           (ParserAt(c, k + n) \/ InPayload(c, k + n))'
    PROVE  \E q : Parsed(q, num, c, k + n)'
<1>1. /\ c \in 1 .. Len(sent) /\ c \in Nat /\ k \in Nat /\ pos[c] = -k /\ Len(sent) \in Nat
      /\ k + n \in Nat
  BY Reading DEF Parsed
<1>2. taken = num[c] BY DEF Parsed, At
<1>3. PICK b : b = Bytes(sent[c]) OBVIOUS
<1>4. /\ UNCHANGED <<conn, sent, FramesSent, answers>> /\ Ranked(num)'
      /\ \E q : Laid(q)' /\ q[c] = -(k + n)
  BY <1>1, <1>3, Moved DEF Parsed
<1>5. PICK q : Laid(q)' /\ q[c] = -(k + n) BY <1>4
<1>6. At(q, num, c, k + n)'
  <2>1. c \in 1 .. Len(sent) + 1 /\ c # Len(sent) + 1 BY <1>1
  <2>2. (c \in 1 .. Len(sent) + 1 /\ c # Len(sent) + 1 /\ taken = num[c])' BY <1>2, <1>4, <2>1
  <2> QED BY <1>1, <1>5, <2>2 DEF At
<1>7. Told(c, k + n)'
  <2>1. \A j \in c .. Len(sent) : Ahead(c, k + n, j)' => Ahead(c, k, j) BY <1>1 DEF Ahead
  <2>2. Told(c, k) /\ c <= c BY <1>1 DEF Parsed
  <2> QED BY <1>1, <1>4, <2>1, <2>2, ToldOn
<1> QED BY <1>4, <1>5, <1>6, <1>7 DEF Parsed

\* or at the beginning of the next one.
LEMMA Past ==
    ASSUME Streaming, Serving, NEW pos, NEW num, NEW c, NEW k, Parsed(pos, num, c, k), arrived > 0,
           NEW n \in Nat, Ready(n), Consume(n), ~Dead', k + n = Len(Bytes(sent[c])),
           taken' = num[c + 1], ParserAt(c + 1, 0)', Told(c + 1, 0)'
    PROVE  \E q : Parsed(q, num, c + 1, 0)'
<1>1. /\ c \in 1 .. Len(sent) /\ c \in Nat /\ k \in Nat /\ pos[c] = -k /\ Len(sent) \in Nat
  BY Reading DEF Parsed
<1>2. PICK b : b = Bytes(sent[c]) OBVIOUS
<1>3. k + n = Len(b) BY <1>2
<1>4. /\ UNCHANGED <<conn, sent, FramesSent, answers>> /\ Ranked(num)'
      /\ \E q : Laid(q)' /\ (k + n = Len(b) => q[c + 1] = 0)
  BY <1>1, <1>2, Moved DEF Parsed
<1>5. PICK q : Laid(q)' /\ q[c + 1] = 0 BY <1>3, <1>4
<1>6. At(q, num, c + 1, 0)'
  <2>1. PICK z \in Nat : z = 0 OBVIOUS
  <2>2. c + 1 \in 1 .. Len(sent) + 1 /\ q[c + 1] = -z
    <3>1. PICK x : x = q[c + 1] OBVIOUS
    <3>2. x = 0 BY <1>5, <3>1
    <3>3. x \in Int /\ x + z = 0 BY <2>1, <3>2
    <3>4. x = -z BY <3>3
    <3> QED BY <1>1, <3>1, <3>4
  <2>3. (c + 1 \in 1 .. Len(sent) + 1 /\ taken = num[c + 1])' BY <1>4, <2>2
  <2>4. ParserAt(c + 1, z)' BY <2>1
  <2>5. At(q, num, c + 1, z)' BY <2>1, <2>2, <2>3, <2>4 DEF At
  <2> QED BY <2>1, <2>5
<1> QED BY <1>4, <1>5, <1>6 DEF Parsed

\* What was told when the next unit begins.
LEMMA PastTold ==
    ASSUME Serving, NEW pos, NEW num, NEW c \in Nat, NEW k, Parsed(pos, num, c, k),
           UNCHANGED <<conn, sent, answers, calls>>, rtp' # "call"
    PROVE  Told(c + 1, 0)'
<1>1. c + 1 \in Nat /\ c <= c + 1 /\ Len(sent) \in Nat BY LenProperties DEF Serving
<1>2. \A j \in c + 1 .. Len(sent) : Ahead(c, k, j) BY <1>1 DEF Ahead
<1>3. Told(c, k) BY DEF Parsed
<1> QED BY <1>1, <1>2, <1>3, ToldOn

\* A unit that is not of the session does not count.
LEMMA NotCounted ==
    ASSUME NEW pos, NEW num, NEW c \in 1 .. Len(sent), NEW k, Parsed(pos, num, c, k),
           ~Good(sent[c]), taken' = taken
    PROVE  taken' = num[c + 1]
<1>1. taken = num[c] BY DEF Parsed, At
<1>2. num[c + 1] = num[c] BY DEF Parsed, Ranked
<1> QED BY <1>1, <1>2

\* Drop skips bytes of a unit that is not of the session, and no others.
LEMMA DropParsed ==
    ASSUME Streaming, Serving, Polled, NEW pos, NEW num, NEW c, NEW k, Parsed(pos, num, c, k),
           Drop, ~Dead'
    PROVE  \E q, m, d, e : Parsed(q, m, d, e)'
<1>1. /\ rtp = "drop" /\ arrived > 0 /\ drop \in 1 .. 2 /\ drop \in Nat /\ Ready(drop) /\ Consume(drop)
      /\ rtp' = "poll" /\ UNCHANGED <<taken, calls, m_recvstate>>
  BY DEF Drop, Polled, history
<1>2. PICK n \in Nat : n = drop BY <1>1
<1>3. n \in 1 .. 2 /\ Ready(n) /\ Consume(n) BY <1>1, <1>2
<1>4. /\ c \in 1 .. Len(sent) /\ c \in Nat /\ k \in Nat /\ pos[c] = -k /\ sent[c] \in Unit
  BY <1>1, Reading DEF Parsed
<1>5. PICK b : b = Bytes(sent[c]) OBVIOUS
<1>6. /\ n <= arrived /\ arrived' = arrived - n /\ UNCHANGED <<conn, sent, FramesSent, answers>>
  BY <1>3, Taking
<1>7. m_recvstate = "RECV_LEN" /\ (Skipped(c, k + n) \/ (conn # "open" /\ arrived <= n))
  BY <1>1, <1>2 DEF Parsed, At, ParserAt, InPayload, Between
<1>8. Skipped(c, k + n)
  <2>1. SUFFICES ASSUME conn # "open", arrived <= n PROVE FALSE BY <1>7
  <2>2. arrived \in Nat BY LenProperties DEF Streaming
  <2>3. conn' # "open" /\ arrived' = 0 BY <1>6, <2>1, <2>2
  <2> QED BY <2>3 DEF Dead
<1>9. ~Good(sent[c]) /\ k + n \in 2 .. Len(b) BY <1>5, <1>8 DEF Skipped
<1>10. CASE k + n = Len(b)
  <2>1. ParserAt(c + 1, 0)' BY <1>1, <1>7 DEF ParserAt, Between, Skips
  <2>2. taken' = num[c + 1] BY <1>1, <1>4, <1>9, NotCounted
  <2>3. rtp' # "call" BY <1>1
  <2>4. Told(c + 1, 0)' BY <1>1, <1>4, <1>6, <2>3, PastTold
  <2>5. \E q : Parsed(q, num, c + 1, 0)' BY <1>1, <1>3, <1>5, <1>10, <2>1, <2>2, <2>4, Past
  <2> QED BY <2>5
<1>11. CASE k + n # Len(b)
  <2>1. Skipped(c, k + n)' BY <1>6, <1>8 DEF Skipped
  <2>2. Skips(c, k + n)' BY <1>5, <1>6, <1>11, <2>1 DEF Skips
  <2>3. ParserAt(c, k + n)' BY <1>1, <1>7, <2>2 DEF ParserAt, Between
  <2>4. rtp' # "call" /\ rtp' # "line" BY <1>1
  <2>5. \E q : Parsed(q, num, c, k + n)' BY <1>1, <1>3, <2>3, <2>4, Within
  <2> QED BY <2>5
<1> QED BY <1>10, <1>11

\* ReadHeader finds the channel and the length of a frame of the session.
LEMMA HeaderParsed ==
    ASSUME Streaming, Serving, Polled, NEW pos, NEW num, NEW c, NEW k, Parsed(pos, num, c, k),
           ReadHeader, ~Dead'
    PROVE  \E q, m, d, e : Parsed(q, m, d, e)'
<1>1. /\ rtp = "header" /\ arrived > 0 /\ Ready(4) /\ Consume(4)
      /\ rtp' = "poll" /\ UNCHANGED <<taken, calls>> /\ m_recvstate' = "RECV_DATA"
  BY DEF ReadHeader, Polled, history
<1>2. /\ c \in 1 .. Len(sent) /\ c \in Nat /\ pos[c] = -k /\ sent[c] \in Unit /\ c <= Len(sent)
  BY <1>1, Reading DEF Parsed
<1>3. k = 0 /\ sent[c] \in Frames /\ (Good(sent[c]) \/ (conn # "open" /\ arrived < 4))
  BY <1>1 DEF Parsed, At, ParserAt, InPayload, Between
<1>4. /\ 4 <= arrived /\ UNCHANGED <<conn, sent, FramesSent, answers>>
  BY <1>1, 4 \in Nat, Taking
<1>5. arrived \in Nat /\ arrived <= Len(stream) /\ Len(stream) \in Nat BY LenProperties DEF Streaming
<1>6. Good(sent[c]) BY <1>3, <1>4, <1>5
<1>7. PICK u, b, h : u = sent[c] /\ b = Bytes(u) /\ h = Buffered(4) OBVIOUS
<1>8. PICK p : p = u.payload OBVIOUS
<1>9. /\ Len(p) \in Nat /\ b = Wire(u) /\ Len(b) = 4 + Len(p) /\ b[2] = u.ch
      /\ b[3] * 256 + b[4] = Len(p)
  <2>1. u \in Frames /\ b = Wire(u) BY <1>3, <1>7 DEF Bytes
  <2>2. Len(p) \in Nat BY <1>8, <2>1, FrameFields
  <2> QED BY <1>8, <2>1, <2>2, WireBytes
<1>10. \A j \in 1 .. 4 : h[j] = b[j]
  <2>1. ASSUME NEW j \in 1 .. 4 PROVE h[j] = b[j]
    <3>1. j \in 1 .. Len(stream) /\ k + j <= Len(b) /\ k + j = j /\ j <= 4 /\ j <= arrived /\ k \in Nat
      BY <1>3, <1>4, <1>5, <1>9
    <3>2. stream[j] = b[k + j] BY <1>2, <1>7, <3>1, StreamByte DEF Parsed
    <3>3. \A i \in 1 .. 4 : i <= 4 /\ i <= arrived => Buffered(4)[i] = stream[i] BY BufferedType
    <3> QED BY <1>7, <3>1, <3>2, <3>3
  <2> QED BY <2>1
<1>11. h[2] = u.ch /\ h[3] * 256 + h[4] = Len(p)
  <2>1. h[2] = b[2] /\ h[3] = b[3] /\ h[4] = b[4] BY <1>10
  <2> QED BY <1>9, <2>1
<1>12. m_isrtp' = (h[2] = 0) /\ m_dataLength' = h[3] * 256 + h[4] BY <1>7, Zenon DEF ReadHeader
<1>13. m_isrtp' = (u.ch = 0) /\ m_dataLength' = Len(p) BY <1>11, <1>12
<1>14. InPayload(c, k + 4)'
  <2>1. k + 4 = 4 BY <1>3
  <2>2. sent'[c] = u /\ c <= Len(sent') /\ Good(u) BY <1>2, <1>4, <1>6, <1>7
  <2>3. (m_isrtp <=> sent[c].ch = 0)' BY <1>13, <2>2
  <2>4. (m_dataLength = Len(sent[c].payload))' BY <1>8, <1>13, <2>2
  <2> QED BY <1>1, <2>1, <2>2, <2>3, <2>4 DEF InPayload
<1>15. \E q : Parsed(q, num, c, k + 4)'
  <2>1. rtp' # "call" /\ rtp' # "line" BY <1>1
  <2> QED BY <1>1, <1>14, <2>1, 4 \in Nat, Within
<1> QED BY <1>15

\* ReadRTSP is at the beginning of a response.
LEMMA RTSPParsed ==
    ASSUME Streaming, Serving, Polled, NEW pos, NEW num, NEW c, NEW k, Parsed(pos, num, c, k),
           ReadRTSP, ~Dead'
    PROVE  \E q, m, d, e : Parsed(q, m, d, e)'
<1>1. /\ rtp = "text" /\ arrived > 0 /\ Ready(2) /\ Consume(2) /\ m_httpTunnelHeaderBuffer = RTSP
      /\ UNCHANGED <<taken, calls, m_recvstate>> /\ rtp' # "call"
  BY DEF ReadRTSP, Polled, history
<1>2. /\ c \in 1 .. Len(sent) /\ c \in Nat /\ pos[c] = -k /\ sent[c] \in Unit /\ c <= Len(sent)
  BY <1>1, Reading DEF Parsed
<1>3. k = 0 /\ sent[c] \notin Frames /\ m_recvstate = "RECV_LEN"
  BY <1>1 DEF Parsed, At, ParserAt, InPayload, Between
<1>4. UNCHANGED <<conn, sent, FramesSent, answers>>
  BY <1>1, 2 \in Nat, Taking
<1>5. k + 2 = 2 BY <1>3
<1>6. ParserAt(c, k + 2)'
  <2>1. CASE RecvRtspCmd # NULL
    <3>1. rtp' = "line" /\ rtspbuf' = Buffered(2) BY <2>1 DEF ReadRTSP
    <3>2. PICK h : h = Buffered(2) OBVIOUS
    <3>3. h \in [1 .. 4 -> Nat] BY <3>2, BufferedType
    <3>4. h \in Seq(Nat) /\ Len(h) = 4
      <4>1. h \in Seq(Nat) BY <3>3, 4 \in Nat, SeqDef
      <4>2. DOMAIN h = 1 .. 4 BY <3>3
      <4>3. Len(h) \in Nat /\ DOMAIN h = 1 .. Len(h) BY <4>1, LenProperties
      <4> QED BY <4>1, <4>2, <4>3
    <3>5. h[4] = 80
      <4>1. ~(4 <= Least(2, arrived))
        <5>1. arrived \in Nat BY LenProperties DEF Streaming
        <5> QED BY <5>1 DEF Least
      <4>2. Buffered(2)[4] = m_httpTunnelHeaderBuffer[4] BY <4>1 DEF Buffered
      <4> QED BY <1>1, <3>2, <4>2 DEF RTSP
    <3>6. PICK r : r = rtspbuf' OBVIOUS
    <3>7. Len(r) = 2 + 2 /\ r[Len(r)] # 10 BY <3>1, <3>2, <3>4, <3>5, <3>6
    <3>8. ParserAt(c, 2)'
      <4>1. (sent[c] \notin Frames /\ c <= Len(sent))' BY <1>2, <1>3, <1>4
      <4>2. m_recvstate' = "RECV_LEN" BY <1>1, <1>3
      <4>3. 2 \in 2 .. 6 /\ 2 # 6 /\ ~(2 >= 5) OBVIOUS
      <4> QED BY <3>1, <3>6, <3>7, <4>1, <4>2, <4>3 DEF ParserAt, LF
    <3> QED BY <1>5, <3>8
  <2>2. CASE RecvRtspCmd = NULL
    <3>1. rtp' = "clear" /\ m_recvstate' = "RECV_LEN" BY <1>1, <1>3, <2>2 DEF ReadRTSP
    <3>2. PICK b : b = Bytes(sent[c]) OBVIOUS
    <3>3. Len(b) = 7 BY <1>2, <1>3, <3>2, UnitBytes
    <3>4. ~Good(sent[c]) /\ 2 \in 2 .. Len(b) /\ 2 # Len(b) BY <1>3, <3>3 DEF Good
    <3>5. Skips(c, 2) BY <1>2, <3>2, <3>4 DEF Skips, Skipped
    <3>6. Skips(c, 2)' BY <1>4, <3>5 DEF Skips, Skipped
    <3>7. ParserAt(c, 2)' BY <3>1, <3>6 DEF ParserAt, Between
    <3> QED BY <1>5, <3>7
  <2> QED BY <2>1, <2>2
<1>7. \E q : Parsed(q, num, c, k + 2)'
  BY <1>1, <1>3, <1>6, 2 \in Nat, Within
<1> QED BY <1>7

\* The first six bytes of a response do not end its text, the seventh does.
LEMMA TextParsed ==
    ASSUME Streaming, Serving, Polled, Gotten, Numbers, NEW pos, NEW num, NEW c, NEW k,
           Parsed(pos, num, c, k), ReadTextByte, ~Dead'
    PROVE  \E q, m, d, e : Parsed(q, m, d, e)'
<1>1. /\ rtp = "line" /\ arrived > 0 /\ Consume(1) /\ rtspbuf' = Append(rtspbuf, stream[1])
      /\ rtp' = IF EndsText(rtspbuf, 4, stream[1]) THEN "call" ELSE "line"
      /\ UNCHANGED <<taken, calls, m_recvstate>>
  BY DEF ReadTextByte, history
<1>2. arrived \in Nat /\ arrived <= Len(stream) /\ Len(stream) \in Nat BY LenProperties DEF Streaming
<1>3. Ready(1) /\ 1 \in Nat /\ 1 \in 1 .. Len(stream) BY <1>1, <1>2 DEF Ready
<1>4. /\ c \in 1 .. Len(sent) /\ c \in Nat /\ pos[c] = -k /\ sent[c] \in Unit /\ c <= Len(sent)
      /\ Len(sent) \in Nat
  BY <1>1, Reading DEF Parsed
<1>5. PICK r, x, u : r = rtspbuf /\ x = stream[1] /\ u = sent[c] OBVIOUS
<1>6. /\ u \notin Frames /\ m_recvstate = "RECV_LEN" /\ k \in 2 .. 6 /\ Len(r) = k + 2
      /\ (r[Len(r)] = 10 <=> k = 6) /\ (k >= 5 => r[7] = 100 + u.number)
  BY <1>1, <1>5 DEF Parsed, At, ParserAt, InPayload, Between, LF
<1>7. UNCHANGED <<conn, sent, FramesSent, answers>> BY <1>1, <1>3, Taking
<1>8. PICK b, n : b = Bytes(u) /\ n = u.number OBVIOUS
<1>9. n \in Nat \ {0} /\ b = Text(n) /\ Len(b) = 7 BY <1>4, <1>5, <1>6, <1>8, UnitBytes
<1>10. b[3] = 83 /\ b[4] = 80 /\ b[5] = 100 + n /\ b[6] = 10 /\ b[7] = 10
  BY <1>9, TextBytes
<1>11. x = b[k + 1]
  <2>1. k \in Nat /\ k + 1 <= Len(b) BY <1>6, <1>9
  <2> QED BY <1>3, <1>4, <1>5, <1>8, <2>1, StreamByte DEF Parsed
<1>12. k = 2 \/ k = 3 \/ k = 4 \/ k = 5 \/ k = 6 BY <1>6
<1>13. x = IF k = 2 THEN 83 ELSE IF k = 3 THEN 80 ELSE IF k = 4 THEN 100 + n ELSE 10
  <2>1. CASE k = 2 BY <1>10, <1>11, <2>1
  <2>2. CASE k = 3 BY <1>10, <1>11, <2>2
  <2>3. CASE k = 4 BY <1>10, <1>11, <2>3
  <2>4. CASE k = 5 BY <1>10, <1>11, <2>4
  <2>5. CASE k = 6 BY <1>10, <1>11, <2>5
  <2> QED BY <1>12, <2>1, <2>2, <2>3, <2>4, <2>5
<1>14. x \in Nat BY <1>9, <1>12, <1>13
<1>15. EndsText(r, 4, x) <=> k = 6 BY <1>6, <1>9, <1>12, <1>13 DEF EndsText, LF
<1>16. PICK t : t = Append(r, x) OBVIOUS
<1>17. /\ rtspbuf' = t /\ t \in Seq(Nat) /\ Len(t) = k + 3 /\ t[k + 3] = x
       /\ \A i \in 1 .. k + 2 : t[i] = r[i]
  <2>1. r \in Seq(Nat) /\ rtspbuf' = t BY <1>1, <1>5, <1>16 DEF Gotten
  <2>2. /\ t \in Seq(Nat) /\ Len(t) = Len(r) + 1 /\ t[Len(r) + 1] = x
        /\ \A i \in 1 .. Len(r) : t[i] = r[i]
    BY <1>14, <1>16, <2>1, AppendProperties
  <2>3. Len(r) + 1 = k + 3 BY <1>6
  <2> QED BY <1>6, <2>1, <2>2, <2>3
<1>18. k + 1 >= 5 => t[7] = 100 + n
  <2>1. CASE k = 4
    <3>1. k + 3 = 7 BY <2>1
    <3> QED BY <1>13, <1>17, <2>1, <3>1
  <2>2. CASE k = 5 \/ k = 6
    <3>1. 7 \in 1 .. k + 2 /\ k >= 5 BY <2>2
    <3> QED BY <1>6, <1>8, <1>17, <3>1
  <2> QED BY <1>12, <2>1, <2>2
<1>19. CASE k # 6
  <2>1. rtp' = "line" BY <1>1, <1>5, <1>15, <1>19
  <2>2. t[Len(t)] = 10 <=> k + 1 = 6
    BY <1>9, <1>12, <1>13, <1>17, <1>19
  <2>3. k + 1 \in 2 .. 6 /\ Len(t) = (k + 1) + 2 BY <1>12, <1>17, <1>19
  <2>4. ParserAt(c, k + 1)'
    <3>1. sent'[c] = u /\ c <= Len(sent') BY <1>4, <1>5, <1>7
    <3>2. m_recvstate' = "RECV_LEN" BY <1>1, <1>6
    <3>3. k + 1 >= 5 => t[7] = 100 + u.number BY <1>8, <1>18
    <3> QED BY <1>6, <1>17, <2>1, <2>2, <2>3, <3>1, <3>2, <3>3 DEF ParserAt, LF
  <2>5. rtp' # "call" BY <2>1
  <2>6. \E q : Parsed(q, num, c, k + 1)' BY <1>1, <1>3, <2>4, <2>5, Within
  <2> QED BY <2>6
<1>20. CASE k = 6
  <2>1. rtp' = "call" BY <1>1, <1>5, <1>15, <1>20
  <2>2. k + 1 = Len(Bytes(sent[c])) BY <1>5, <1>8, <1>9, <1>20
  <2>3. ParserAt(c + 1, 0)' BY <1>1, <1>6, <2>1 DEF ParserAt, Between, Skips
  <2>4. ~Good(sent[c]) BY <1>5, <1>6 DEF Good
  <2>5. taken' = num[c + 1] BY <1>1, <1>4, <2>4, NotCounted
  <2>6. t[7] = 100 + n /\ Len(t) = 9 BY <1>17, <1>18, <1>20
  <2>7. ASSUME NEW v, Before(v, c, k) PROVE Before(v, c + 1, 0)' /\ v[7] < t[7]
    <3>1. \A j \in c + 1 .. Len(sent) : Ahead(c, k, j) BY <1>1 DEF Ahead
    <3>2. c + 1 \in Nat /\ c <= c + 1 BY <1>4
    <3>3. Before(v, c + 1, 0)' BY <1>4, <1>7, <2>7, <3>1, <3>2, BeforeOn
    <3>4. c \in c .. Len(sent) /\ Ahead(c, k, c) BY <1>1, <1>4 DEF Ahead
    <3>5. v[7] < 100 + sent[c].number BY <1>5, <1>6, <2>7, <3>4 DEF Before
    <3> QED BY <1>5, <1>8, <2>6, <3>3, <3>5
  <2>8. Before(t, c + 1, 0)'
    <3>1. t[7] <= 100 + answers
      <4>1. n <= answers BY <1>4, <1>5, <1>6, <1>8 DEF Numbers
      <4> QED BY <1>9, <2>6, <4>1 DEF Serving
    <3>2. ASSUME NEW j \in c + 1 .. Len(sent), sent[j] \notin Frames
          PROVE  t[7] < 100 + sent[j].number
      <4>1. PICK y : y = sent[j].number OBVIOUS
      <4>2. j \in 1 .. Len(sent) /\ c < j BY <1>4
      <4>3. sent[c].number < sent[j].number BY <1>4, <1>5, <1>6, <3>2, <4>2 DEF Numbers
      <4>4. y \in Nat
        <5>1. sent[j] \in Unit BY <4>2, ElementOfSeq DEF Serving
        <5> QED BY <3>2, <4>1, <5>1 DEF Unit, Answer
      <4>5. n < y BY <1>5, <1>8, <4>1, <4>3
      <4> QED BY <1>9, <2>6, <4>1, <4>4, <4>5
    <3> QED BY <1>7, <1>17, <2>6, <3>1, <3>2 DEF Before
  <2>9. Told(c + 1, 0)'
    <3>1. PICK s : s = calls OBVIOUS
    <3>2. s = calls' /\ t = rtspbuf' BY <1>1, <1>17, <3>1
    <3>3. SUFFICES ASSUME conn = "open"
                   PROVE  /\ \A i \in 1 .. Len(s) : Before(s[i].text, c + 1, 0)'
                          /\ \A i, j \in 1 .. Len(s) : i < j => s[i].text[7] < s[j].text[7]
                          /\ \A i \in 1 .. Len(s) : s[i].text[7] < t[7]
      BY <1>7, <2>8, <3>2 DEF Told
    <3>4. /\ \A i \in 1 .. Len(s) : Before(s[i].text, c, k)
          /\ \A i, j \in 1 .. Len(s) : i < j => s[i].text[7] < s[j].text[7]
      BY <3>1, <3>3 DEF Parsed, Told
    <3>5. ASSUME NEW i \in 1 .. Len(s) PROVE Before(s[i].text, c + 1, 0)' /\ s[i].text[7] < t[7]
      <4>1. PICK v : v = s[i].text OBVIOUS
      <4>2. Before(v, c, k) BY <3>4, <4>1
      <4>3. Before(v, c + 1, 0)' /\ v[7] < t[7] BY <2>7, <4>2
      <4> QED BY <4>1, <4>3
    <3> QED BY <3>4, <3>5
  <2>10. \E q : Parsed(q, num, c + 1, 0)' BY <1>1, <1>3, <2>2, <2>3, <2>5, <2>9, Past
  <2> QED BY <2>10
<1> QED BY <1>19, <1>20

\* The payload that is about to be read is that of the frame whose turn it is.
LEMMA PayloadAt ==
    ASSUME Streaming, Serving, Polled, NEW pos, NEW num, NEW c, NEW k, Parsed(pos, num, c, k),
           rtp = "payload", NEW f, f = sent[c], NEW p, p = f.payload
    PROVE  /\ arrived > 0 /\ c \in 1 .. Len(sent) /\ c \in Nat /\ k = 4 /\ Good(f)
           /\ f \in Frames /\ (m_isrtp <=> f.ch = 0)
           /\ m_dataLength = Len(p) /\ Len(p) \in Nat /\ k + m_dataLength = Len(Bytes(f))
           /\ num[c + 1] = taken + 1 /\ taken + 1 <= Len(FramesSent) /\ FramesSent[taken + 1] = f
           /\ \A i \in 1 .. m_dataLength : i <= arrived => stream[i] = p[i]
<1>1. arrived > 0 /\ arrived <= Len(stream) /\ arrived \in Nat /\ Len(stream) \in Nat
  BY LenProperties DEF Polled, Streaming
<1>2. c \in 1 .. Len(sent) /\ c \in Nat /\ pos[c] = -k /\ k \in Nat
  BY <1>1, Reading DEF Parsed
<1>3. /\ Good(f) /\ k = 4 /\ (m_isrtp <=> f.ch = 0) /\ m_dataLength = Len(p) /\ taken = num[c]
  BY DEF Parsed, At, ParserAt, InPayload, Between
<1>4. f \in Frames BY <1>3 DEF Good
<1>5. Len(p) \in Nat BY <1>4, FrameFields
<1>6. PICK b : b = Bytes(f) OBVIOUS
<1>7. b = Wire(f) BY <1>4, <1>6 DEF Bytes
<1>8. Len(b) = 4 + Len(p) /\ \A j \in 1 .. Len(p) : b[4 + j] = p[j]
  BY <1>4, <1>7, WireBytes, SMTT(30)
<1>9. /\ num[c + 1] = num[c] + 1 /\ num[c] + 1 <= Len(FramesSent) /\ FramesSent[num[c] + 1] = f
  BY <1>2, <1>3 DEF Parsed, Ranked
<1>10. ASSUME NEW i \in 1 .. m_dataLength, i <= arrived PROVE stream[i] = p[i]
  <2>1. i \in 1 .. Len(stream) /\ k + i <= Len(b) BY <1>1, <1>3, <1>5, <1>8, <1>10
  <2>2. stream[i] = b[k + i] BY <1>2, <1>6, <2>1, StreamByte DEF Parsed
  <2> QED BY <1>3, <1>8, <2>2
<1> QED BY <1>1, <1>2, <1>3, <1>4, <1>5, <1>6, <1>8, <1>9, <1>10

\* After the payload the next unit begins.
LEMMA PayloadParsed ==
    ASSUME Streaming, Serving, Polled, NEW pos, NEW num, NEW c, NEW k, Parsed(pos, num, c, k),
           rtp = "payload", Ready(m_dataLength), Consume(m_dataLength), taken' = taken + 1,
           m_recvstate' = "RECV_LEN", rtp' \in {"take", "out"}, calls' = calls, ~Dead'
    PROVE  \E q, m, d, e : Parsed(q, m, d, e)'
<1>1. PICK f, p : f = sent[c] /\ p = f.payload OBVIOUS
<1>2. /\ arrived > 0 /\ c \in Nat /\ k + m_dataLength = Len(Bytes(sent[c]))
      /\ num[c + 1] = taken + 1
  BY <1>1, PayloadAt
<1>3. PICK n \in Nat : n = m_dataLength BY DEF Polled
<1>4. UNCHANGED <<conn, sent, answers>> BY <1>3, Taking
<1>5. ParserAt(c + 1, 0)' BY DEF ParserAt, Between, Skips
<1>6. Told(c + 1, 0)'
  <2>1. rtp' # "call" OBVIOUS
  <2> QED BY <1>2, <1>4, <2>1, PastTold
<1>7. taken' = num[c + 1] BY <1>2
<1>8. Ready(n) /\ Consume(n) /\ k + n = Len(Bytes(sent[c])) BY <1>2, <1>3
<1>9. \E q : Parsed(q, num, c + 1, 0)' BY <1>2, <1>5, <1>6, <1>7, <1>8, Past
<1> QED BY <1>9

\* The callback is told the response just read.
LEMMA CallParsed ==
    ASSUME Serving, Gotten, NEW pos, NEW num, NEW c, NEW k, Parsed(pos, num, c, k), CallBack
    PROVE  Parsed(pos, num, c, k)'
<1>1. PICK e, n : e = [clbk |-> RecvRtspCmd, text |-> rtspbuf] /\ n = Len(calls) OBVIOUS
<1>2. /\ rtp = "call" /\ rtp' = "clear" /\ calls' = Append(calls, e)
      /\ UNCHANGED <<stream, arrived, conn, sent, FramesSent, answers, taken, m_recvstate>>
  BY <1>1 DEF CallBack, connection
<1>3. e \in [clbk : Nat, text : Seq(Nat)] /\ e.text = rtspbuf BY <1>1 DEF Gotten
<1>4. /\ n \in Nat /\ Len(calls') = n + 1 /\ calls'[n + 1] = e
      /\ \A i \in 1 .. n : calls'[i] = calls[i]
  BY <1>1, <1>2, <1>3, AppendProperties, LenProperties DEF Gotten
<1>5. m_recvstate = "RECV_LEN" /\ Skips(c, k)
  BY <1>2 DEF Parsed, At, ParserAt, InPayload, Between
<1>6. ParserAt(c, k)'
  <2>1. Skips(c, k)' BY <1>2, <1>5 DEF Skips, Skipped
  <2> QED BY <1>2, <1>5, <2>1 DEF ParserAt, Between
<1>7. Told(c, k)'
  <2>1. PICK s, r, z : s = calls' /\ r = rtspbuf /\ z = calls OBVIOUS
  <2>2. SUFFICES ASSUME conn = "open"
                 PROVE  /\ \A i \in 1 .. n + 1 : Before(s[i].text, c, k)'
                        /\ \A i, j \in 1 .. n + 1 : i < j => s[i].text[7] < s[j].text[7]
    BY <1>2, <1>4, <2>1 DEF Told
  <2>3. /\ \A i \in 1 .. n : Before(z[i].text, c, k)
        /\ \A i, j \in 1 .. n : i < j => z[i].text[7] < z[j].text[7]
        /\ Before(r, c, k) /\ \A i \in 1 .. n : z[i].text[7] < r[7]
    BY <1>1, <1>2, <2>1, <2>2 DEF Parsed, Told
  <2>4. s[n + 1].text = r /\ \A i \in 1 .. n : s[i] = z[i] BY <1>3, <1>4, <2>1
  <2>5. ASSUME NEW t, Before(t, c, k) PROVE Before(t, c, k)'
    <3>1. Len(sent) \in Nat BY LenProperties DEF Serving
    <3>2. c \in Nat /\ c <= c BY <3>1 DEF Parsed, At
    <3>3. \A j \in c .. Len(sent) : Ahead(c, k, j)' => Ahead(c, k, j) BY <1>2 DEF Ahead
    <3> QED BY <1>2, <2>5, <3>1, <3>2, <3>3, BeforeOn
  <2>6. ASSUME NEW i \in 1 .. n + 1 PROVE Before(s[i].text, c, k)'
    <3>1. PICK t : t = s[i].text OBVIOUS
    <3>2. Before(t, c, k)
      <4>1. CASE i = n + 1 BY <2>3, <2>4, <3>1, <4>1
      <4>2. CASE i # n + 1
        <5>1. i \in 1 .. n BY <1>4, <4>2
        <5> QED BY <2>3, <2>4, <3>1, <5>1
      <4> QED BY <4>1, <4>2
    <3>3. Before(t, c, k)' BY <2>5, <3>2
    <3> QED BY <3>1, <3>3
  <2>7. ASSUME NEW i \in 1 .. n + 1, NEW j \in 1 .. n + 1, i < j
        PROVE  s[i].text[7] < s[j].text[7]
    <3>1. i \in 1 .. n BY <1>4, <2>7
    <3>2. CASE j = n + 1 BY <2>3, <2>4, <3>1, <3>2
    <3>3. CASE j # n + 1
      <4>1. j \in 1 .. n BY <1>4, <3>3
      <4> QED BY <2>3, <2>4, <2>7, <3>1, <4>1
    <3> QED BY <3>2, <3>3
  <2> QED BY <2>6, <2>7
<1> QED BY <1>2, <1>6, <1>7, StillParsed

\* Whatever a step does, the parser is inside or between units afterwards.
LEMMA ParsedStep ==
    ASSUME Alone, Distinct, Base, Numbers, NEW pos, NEW num, NEW c, NEW k,
           Parsed(pos, num, c, k), [Next]_vars, ~Dead'
    PROVE  \E q, m, d, e : Parsed(q, m, d, e)'
<1>1. Streaming /\ Serving /\ Polled /\ Gotten BY DEF Base
<1> DEFINE Goal == \E q, m, d, e : Parsed(q, m, d, e)'
<1>2. Parsed(pos, num, c, k)' => Goal OBVIOUS
<1>3. ASSUME UNCHANGED <<stream, conn, sent, FramesSent, answers, taken, calls, m_recvstate,
                         m_isrtp, m_dataLength, rtp, drop, rtspbuf>>,
             arrived' = arrived \/ (arrived < Len(stream) /\ arrived' = arrived + 1)
      PROVE  Goal
  BY <1>1, <1>2, <1>3, Unmoved
<1>4. ASSUME UNCHANGED <<stream, conn, sent, FramesSent, answers, taken, calls, m_recvstate,
                         m_isrtp, m_dataLength>>,
             rtp \in Between \cup {"payload"},
             \/ m_recvstate = "RECV_LEN" /\ rtp' \in Between \ {"call"}
             \/ m_recvstate = "RECV_DATA" /\ rtp' \in {"out", "lock", "take", "poll", "payload"}
      PROVE  Goal
  BY <1>1, <1>2, <1>4, Shifted
<1>5. m_recvstate \in {"RECV_LEN", "RECV_DATA"} BY <1>1 DEF Polled
<1>6. ASSUME UNCHANGED <<stream, conn, sent, FramesSent, answers, taken, calls, m_recvstate,
                         m_isrtp, m_dataLength>>,
             rtp \in Between \cup {"payload"}, rtp' \in {"out", "lock", "take", "poll"}
      PROVE  Goal
  BY <1>4, <1>5, <1>6 DEF Between
<1>7. CASE UNCHANGED vars BY <1>3, <1>7 DEF vars
<1>8. ASSUME NEW u \in Unit, conn = "open", sent' = Append(sent, u),
             Joined(stream, Bytes(u), stream'),
             FramesSent' = IF Good(u) THEN Append(FramesSent, u) ELSE FramesSent,
             UNCHANGED <<arrived, conn, transmitter, fetcher, history>>,
             answers' \in Nat, answers <= answers',
             u \notin Frames => u.number = answers + 1
      PROVE  Goal
  <2>1. UNCHANGED <<arrived, conn, taken, calls, m_recvstate, m_isrtp, m_dataLength, rtp, drop,
                    rtspbuf>>
    BY <1>8 DEF transmitter, fetcher, history
  <2>2. \E q, m : Parsed(q, m, c, k)' BY <1>1, <1>8, <2>1, MoreParsed
  <2> QED BY <2>2
<1>9. ASSUME NEW f \in Frames, SendFrame(f) PROVE Goal
  <2>1. /\ f \in Unit /\ Len(sent) < MaxUnits /\ conn = "open"
        /\ sent' = Append(sent, f) /\ stream' = stream \o Bytes(f)
        /\ FramesSent' = IF Good(f) THEN Append(FramesSent, f) ELSE FramesSent
        /\ UNCHANGED <<arrived, conn, answers, transmitter, fetcher, history>>
        /\ answers' \in Nat
    BY <1>1, <1>9, FrameSent
  <2>2. Joined(stream, Bytes(f), stream') BY <1>1, <2>1, Sending
  <2>3. answers <= answers' BY <2>1
  <2> QED BY <1>8, <1>9, <2>1, <2>2, <2>3
<1>10. CASE SendResponse
  <2>1. PICK u \in Unit :
          /\ u \notin Frames /\ u.number = answers + 1 /\ answers' = answers + 1
          /\ Len(sent) < MaxUnits /\ conn = "open"
          /\ sent' = Append(sent, u) /\ stream' = stream \o Bytes(u)
          /\ FramesSent' = IF Good(u) THEN Append(FramesSent, u) ELSE FramesSent
          /\ UNCHANGED <<arrived, conn, transmitter, fetcher, history>>
          /\ answers' \in Nat
    BY <1>1, <1>10, ResponseSent
  <2>2. Joined(stream, Bytes(u), stream') BY <1>1, <2>1, Sending
  <2>3. answers <= answers' BY <1>1, <2>1 DEF Serving
  <2> QED BY <1>8, <2>1, <2>2, <2>3
<1>11. CASE Arrive
  BY <1>3, <1>11 DEF Arrive, server, transmitter, fetcher, history
<1>12. ASSUME NEW how \in {"eof", "reset"}, Disconnect(how) PROVE Goal
  BY <1>1, <1>2, <1>12, CutParsed
<1>13. ASSUME NEW how \in Fetches, Fetch(how) PROVE Goal
  BY <1>6, <1>13 DEF Fetch, connection, transmitter, history, Between
<1>14. CASE TryLockSocket
  BY <1>6, <1>14 DEF TryLockSocket, connection, transmitter, history, Between
<1>15. CASE Take BY <1>6, <1>15 DEF Take, connection, transmitter, history, Between
<1>16. CASE PollSocket
  <2>1. CASE PollRound
    BY <1>4, <1>5, <2>1 DEF PollRound, connection, transmitter, history, Between
  <2>2. CASE Peek BY <1>1, <1>2, <2>2, PeekParsed
  <2>3. CASE Drop BY <1>1, <2>3, DropParsed
  <2>4. CASE ReadHeader BY <1>1, <2>4, HeaderParsed
  <2>5. CASE ReadRTSP BY <1>1, <2>5, RTSPParsed
  <2>6. CASE ReadTextByte BY <1>1, <2>6, TextParsed
  <2>7. CASE ReadTextEnd BY <2>7 DEF ReadTextEnd, connection, Dead
  <2>8. CASE CallBack BY <1>1, <1>2, <2>8, CallParsed
  <2>9. CASE ClearCallback
    BY <1>6, <2>9 DEF ClearCallback, connection, transmitter, history, Between
  <2>10. CASE ReadPayload
    <3>1. /\ rtp = "payload" /\ Ready(m_dataLength) /\ Consume(m_dataLength)
          /\ taken' = taken + 1 /\ m_recvstate' = "RECV_LEN" /\ rtp' \in {"take", "out"}
          /\ calls' = calls
      BY <2>10 DEF ReadPayload
    <3> QED BY <1>1, <3>1, PayloadParsed
  <2>11. CASE PollEnds BY <1>6, <2>11 DEF PollEnds, connection, transmitter, history, Between
  <2> QED BY <1>16, <2>1, <2>2, <2>3, <2>4, <2>5, <2>6, <2>7, <2>8, <2>9, <2>10,
             <2>11 DEF PollSocket
<1>17. CASE PollFails
  <2>1. rtp = "payload" /\ rtp' = "out" /\ UNCHANGED <<calls, m_isrtp, m_dataLength>>
    BY <1>17 DEF PollFails
  <2>2. CASE UNCHANGED <<connection, m_recvstate, taken>>
    BY <1>6, <2>1, <2>2 DEF connection
  <2>3. CASE /\ Ready(m_dataLength) /\ Consume(m_dataLength)
             /\ m_recvstate' = "RECV_LEN" /\ taken' = taken + 1
    <3>1. rtp' \in {"take", "out"} BY <2>1
    <3> QED BY <1>1, <2>1, <2>3, <3>1, PayloadParsed
  <2> QED BY <1>17, <2>2, <2>3 DEF PollFails
<1>18. CASE SetRtspCmdClbk
  BY <1>3, <1>18 DEF SetRtspCmdClbk, connection, transmitter, fetcher, history
<1>19. ASSUME NEW wait \in Waits, Command(wait) PROVE Goal
  BY <1>3, <1>19 DEF Command, connection, transmitter, fetcher, history
<1>20. CASE RecvRTSP
  BY <1>1, <1>20 DEF RecvRTSP, LockSocket, RecvRTSPByte, RecvRTSPFails, Polled
<1> QED BY <1>7, <1>9, <1>10, <1>11, <1>12, <1>13, <1>14, <1>15, <1>16, <1>17, <1>18, <1>19,
           <1>20 DEF Next, FetchStep

-----------------------------------------------------------------------------
(* The refinement *)

\* The steps that take a frame off the stream.
Takes ==
    /\ rtp = "payload" /\ Ready(m_dataLength) /\ Consume(m_dataLength) /\ taken' = taken + 1
    /\ \/ OutOfMem /\ delivered' = delivered
       \/ delivered' = Append(delivered, [ch |-> IF m_isrtp THEN 0 ELSE 1, payload |-> Payload])

\* ReadPayload and PollFails are the only ones.
LEMMA StepTakes ==
    ASSUME Base, [Next]_vars
    PROVE  \/ UNCHANGED <<taken, delivered>>
           \/ Takes
<1> DEFINE Goal == UNCHANGED <<taken, delivered>> \/ Takes
<1>1. ASSUME UNCHANGED <<taken, delivered>> PROVE Goal BY <1>1
<1>2. CASE UNCHANGED vars BY <1>2 DEF vars
<1>3. ASSUME NEW f \in Frames, SendFrame(f) PROVE Goal BY <1>3 DEF SendFrame, history
<1>4. CASE SendResponse BY <1>4 DEF SendResponse, history
<1>5. CASE Arrive BY <1>5 DEF Arrive, history
<1>6. ASSUME NEW how \in {"eof", "reset"}, Disconnect(how) PROVE Goal
  BY <1>6 DEF Disconnect, history
<1>7. ASSUME NEW how \in Fetches, Fetch(how) PROVE Goal BY <1>7 DEF Fetch, history
<1>8. CASE TryLockSocket BY <1>8 DEF TryLockSocket, history
<1>9. CASE Take BY <1>9 DEF Take, history
<1>10. CASE PollSocket
  <2>1. CASE PollRound BY <2>1 DEF PollRound, history
  <2>2. CASE Peek BY <2>2 DEF Peek, PeekTo, history
  <2>3. CASE Drop BY <2>3 DEF Drop, history
  <2>4. CASE ReadHeader BY <2>4 DEF ReadHeader, history
  <2>5. CASE ReadRTSP BY <2>5 DEF ReadRTSP, history
  <2>6. CASE ReadTextByte BY <2>6 DEF ReadTextByte, history
  <2>7. CASE ReadTextEnd BY <2>7 DEF ReadTextEnd, history
  <2>8. CASE CallBack BY <2>8 DEF CallBack
  <2>9. CASE ClearCallback BY <2>9 DEF ClearCallback, history
  <2>10. CASE ReadPayload BY <2>10, Zenon DEF ReadPayload, Takes
  <2>11. CASE PollEnds BY <2>11 DEF PollEnds, history
  <2> QED BY <1>10, <2>1, <2>2, <2>3, <2>4, <2>5, <2>6, <2>7, <2>8, <2>9, <2>10,
             <2>11 DEF PollSocket
<1>11. CASE PollFails BY <1>11 DEF PollFails, Takes
<1>12. CASE SetRtspCmdClbk BY <1>12 DEF SetRtspCmdClbk, history
<1>13. ASSUME NEW wait \in Waits, Command(wait) PROVE Goal BY <1>13 DEF Command, history
<1>14. CASE RecvRTSP
  BY <1>14 DEF RecvRTSP, LockSocket, RecvRTSPByte, RecvRTSPFails, history
<1> QED BY <1>2, <1>3, <1>4, <1>5, <1>6, <1>7, <1>8, <1>9, <1>10, <1>11, <1>12, <1>13, <1>14
        DEF Next, FetchStep

\* A payload that came short is the last thing that comes.
LEMMA EndedStep ==
    ASSUME Alone, Base, Channel!Ended => Dead, [Next]_vars
    PROVE  Channel!Ended' => Dead'
<1>1. Streaming /\ Polled /\ Gotten /\ Flows BY StepFlows DEF Base
<1>2. ASSUME delivered' = delivered PROVE Channel!Ended' => Dead'
  <2>1. Channel!Ended' => Channel!Ended BY <1>2 DEF Channel!Ended
  <2> QED BY <1>1, <2>1, DeadStays
<1>3. ASSUME Takes, NEW e, e = [ch |-> IF m_isrtp THEN 0 ELSE 1, payload |-> Payload],
             delivered' = Append(delivered, e), Channel!Ended'
      PROVE  Dead'
  <2>1. PICK p, n : p = Payload /\ n = m_dataLength OBVIOUS
  <2>2. /\ p \in Seq(Int) /\ DOMAIN p = 1 .. n
        /\ \A i \in 1 .. n : i <= arrived => p[i] # -1
    BY <1>1, <2>1, PayloadType
  <2>3. e.payload = p BY <1>3, <2>1
  <2>4. e \in [ch : {0, 1}, payload : Seq(Int)] BY <1>3, <2>1, <2>2
  <2>5. delivered'[Len(delivered')] = e
    <3>1. /\ Len(delivered') = Len(delivered) + 1 /\ delivered'[Len(delivered) + 1] = e
      BY <1>1, <1>3, <2>4, AppendProperties DEF Gotten
    <3> QED BY <3>1
  <2>6. \E i \in DOMAIN p : p[i] = -1
    <3>1. PICK x : x = delivered'[Len(delivered')] OBVIOUS
    <3>2. \E i \in DOMAIN x.payload : x.payload[i] = -1
      BY <1>3, <3>1 DEF Channel!Ended, Channel!Unknown
    <3> QED BY <2>3, <2>5, <3>1, <3>2
  <2>7. PICK i \in 1 .. n : ~(i <= arrived) BY <2>2, <2>6
  <2>8. n \in Nat /\ arrived \in Nat /\ Ready(n) /\ Consume(n)
    BY <1>1, <1>3, <2>1, LenProperties DEF Takes, Polled, Streaming
  <2>9. arrived < n BY <2>7, <2>8
  <2>10. conn # "open" BY <2>8, <2>9 DEF Ready
  <2>11. arrived' = 0 /\ conn' = conn BY <1>1, <2>8, <2>9, Taking
  <2> QED BY <2>10, <2>11 DEF Dead
<1> QED BY <1>2, <1>3, StepTakes DEF Takes

\* What is not dead is parsed.
LEMMA Live ==
    ASSUME StreamInv, arrived > 0
    PROVE  ~Channel!Ended /\ \E pos, num, c, k : Parsed(pos, num, c, k)
<1>1. ~Dead
  <2>1. arrived # 0 OBVIOUS
  <2> QED BY <2>1 DEF Dead
<1> QED BY <1>1 DEF StreamInv

\* No more frames are taken than were sent.
LEMMA TakenStep ==
    ASSUME Alone, StreamInv, [Next]_vars
    PROVE  taken' <= Len(FramesSent')
<1>1. Streaming /\ Serving /\ Polled /\ Gotten BY DEF StreamInv, Base
<1>2. taken \in Nat /\ taken <= Len(FramesSent) /\ Len(FramesSent) \in Nat
  BY <1>1, LenProperties DEF StreamInv, Gotten, Serving
<1>3. CASE UNCHANGED <<taken, delivered>>
  <2>1. Len(FramesSent') = Len(FramesSent) \/ Len(FramesSent') = Len(FramesSent) + 1
    <3>1. Flows BY StepFlows DEF StreamInv
    <3>2. CASE FramesSent' = FramesSent BY <3>2
    <3>3. ASSUME NEW u \in Unit,
                 FramesSent' = IF Good(u) THEN Append(FramesSent, u) ELSE FramesSent
          PROVE  Len(FramesSent') = Len(FramesSent) \/ Len(FramesSent') = Len(FramesSent) + 1
      <4>1. CASE Good(u)
        <5>1. u \in Frames /\ FramesSent' = Append(FramesSent, u) BY <3>3, <4>1 DEF Good
        <5> QED BY <1>1, <5>1, AppendProperties DEF Serving
      <4>2. CASE ~Good(u) BY <3>3, <4>2
      <4> QED BY <4>1, <4>2
    <3>4. ASSUME NEW f \in Frames, SendFrame(f)
          PROVE  Len(FramesSent') = Len(FramesSent) \/ Len(FramesSent') = Len(FramesSent) + 1
      BY <1>1, <3>3, <3>4, FrameSent
    <3>5. CASE SendResponse BY <3>5 DEF SendResponse
    <3> QED BY <3>1, <3>4, <3>5 DEF Flows, Arrive, Disconnect, Consume, server
  <2>2. PICK x, y : x = Len(FramesSent) /\ y = Len(FramesSent') OBVIOUS
  <2>3. taken <= y BY <1>2, <2>1, <2>2
  <2> QED BY <1>3, <2>2, <2>3
<1>4. CASE Takes
  <2>1. rtp = "payload" /\ arrived > 0 BY <1>1, <1>4 DEF Takes, Polled
  <2>2. PICK pos, num, c, k : Parsed(pos, num, c, k) BY <2>1, Live
  <2>3. PICK f : f = sent[c] OBVIOUS
  <2>4. PICK p : p = f.payload OBVIOUS
  <2>5. taken + 1 <= Len(FramesSent) BY <1>1, <2>1, <2>2, <2>3, <2>4, PayloadAt
  <2>6. m_dataLength \in Nat BY <1>1 DEF Polled
  <2>7. FramesSent' = FramesSent BY <1>4 DEF Takes, Consume, server
  <2> QED BY <1>4, <2>5, <2>7 DEF Takes
<1> QED BY <1>3, <1>4, StepTakes DEF StreamInv

\* Before anything is sent, nothing is unread.
LEMMA InitStream ==
    ASSUME Init
    PROVE  StreamInv /\ Clbks
<1> USE DEF Init
<1>1. Streaming /\ Serving
  <2>1. <<>> \in Seq(Nat) /\ <<>> \in Seq(Unit) /\ <<>> \in Seq(Frames) /\ Len(<<>>) = 0 OBVIOUS
  <2>2. 0 <= MaxUnits /\ 0 \in 0 .. 0 BY BoundsAssumption
  <2> QED BY <2>1, <2>2 DEF Streaming, Serving
<1>2. Polled
  <2>1. m_httpTunnelHeaderBuffer \in [1 .. 4 -> Nat] BY DEF Garbage, RTSP
  <2> QED BY <2>1 DEF Polled, Polling
<1>3. Gotten BY DEF Gotten, NULL
<1>4. Numbers BY DEF Numbers
<1>5. ~Channel!Ended BY DEF Channel!Ended
<1>6. \E pos, num, c, k : Parsed(pos, num, c, k)
  <2>1. PICK o \in [1 .. 1 -> Nat] : o[1] = 0
    <3>1. [i \in 1 .. 1 |-> 0] \in [1 .. 1 -> Nat] /\ [i \in 1 .. 1 |-> 0][1] = 0 OBVIOUS
    <3> QED BY <3>1
  <2>2. PICK z \in Nat : z = 0 OBVIOUS
  <2>3. Len(sent) = 0 /\ Len(stream) = 0 /\ Len(FramesSent) = 0 /\ Len(calls) = 0 OBVIOUS
  <2>4. Laid(o)
    <3>1. o \in [1 .. 1 -> Int] BY <2>1
    <3> QED BY <2>1, <2>3, <3>1 DEF Laid
  <2>5. Ranked(o) BY <2>1, <2>3 DEF Ranked
  <2>6. At(o, o, 1, z)
    <3>1. ParserAt(1, z) BY <2>2 DEF ParserAt, Between, Skips
    <3>2. o[1] = -z
      <4>1. PICK x : x = o[1] OBVIOUS
      <4>2. x \in Int /\ x + z = 0 BY <2>1, <2>2, <4>1
      <4>3. x = -z BY <4>2
      <4> QED BY <4>1, <4>3
    <3>3. taken = o[1] /\ 1 \in 1 .. Len(sent) + 1 BY <2>1, <2>3
    <3> QED BY <2>2, <3>1, <3>2, <3>3 DEF At
  <2>7. Told(1, z) BY <2>3 DEF Told
  <2>8. Parsed(o, o, 1, z) BY <2>4, <2>5, <2>6, <2>7 DEF Parsed
  <2> QED BY <2>8
<1>7. taken <= Len(FramesSent) OBVIOUS
<1>8. StreamInv BY <1>1, <1>2, <1>3, <1>4, <1>5, <1>6, <1>7 DEF StreamInv, Base
<1>9. Clbks BY DEF Clbks, NULL
<1> QED BY <1>8, <1>9

\* StreamInv is inductive.
LEMMA StreamStep ==
    ASSUME Alone, Distinct, StreamInv, [Next]_vars
    PROVE  StreamInv'
<1>1. Base /\ Numbers /\ Streaming /\ Serving /\ Flows BY StepFlows DEF StreamInv, Base
<1>2. Base' BY <1>1, BaseStep
<1>3. Numbers' BY <1>1, NumbersStep
<1>4. Channel!Ended' => Dead' BY <1>1, EndedStep DEF StreamInv
<1>5. (taken <= Len(FramesSent))' BY TakenStep
<1>6. ASSUME ~Dead' PROVE \E pos, num, c, k : Parsed(pos, num, c, k)'
  <2>1. ~Dead BY <1>1, <1>6, DeadStays
  <2>2. PICK pos, num, c, k : Parsed(pos, num, c, k) BY <2>1 DEF StreamInv
  <2> QED BY <1>1, <1>6, <2>2, ParsedStep
<1> QED BY <1>2, <1>3, <1>4, <1>5, <1>6 DEF StreamInv

\* A step that reads a payload delivers it, cuts it short or gives it up.
LEMMA TakesImplements ==
    ASSUME StreamInv, Takes
    PROVE  Channel!Next
<1>1. Streaming /\ Serving /\ Polled /\ Gotten BY DEF StreamInv, Base
<1>2. rtp = "payload" /\ arrived > 0 /\ arrived \in Nat
  BY <1>1, LenProperties DEF Takes, Polled, Streaming
<1>3. ~Channel!Ended BY <1>2, Live
<1>4. PICK pos, num, c, k : Parsed(pos, num, c, k) BY <1>2, Live
<1>5. PICK f : f = sent[c] OBVIOUS
<1>6. PICK p : p = f.payload OBVIOUS
<1>7. /\ Good(f) /\ f \in Frames /\ (m_isrtp <=> f.ch = 0) /\ m_dataLength = Len(p) /\ Len(p) \in Nat
      /\ taken + 1 <= Len(FramesSent) /\ FramesSent[taken + 1] = f
      /\ \A i \in 1 .. m_dataLength : i <= arrived => stream[i] = p[i]
  BY <1>1, <1>2, <1>4, <1>5, <1>6, PayloadAt
<1>8. taken < Len(FramesSent) BY <1>1, <1>7, LenProperties DEF Gotten, Serving
<1>9. FramesSent' = FramesSent /\ taken' = taken + 1 BY DEF Takes, Consume, server
<1>10. CASE OutOfMem /\ delivered' = delivered
  BY <1>3, <1>8, <1>9, <1>10 DEF Channel!Next, Channel!GiveUp
<1>11. PICK n, d, ch : n = Len(p) /\ d = Payload /\ ch = IF m_isrtp THEN 0 ELSE 1 OBVIOUS
<1>12. ch = f.ch
  <2>1. f.ch \in {0, 1} BY <1>7 DEF Good
  <2> QED BY <1>7, <1>11, <2>1
<1>13. p \in Seq(Nat) /\ f = [ch |-> ch, payload |-> p] BY <1>6, <1>7, <1>12, FrameFields
<1>14. d = [i \in 1 .. n |-> IF i <= arrived THEN p[i] ELSE -1]
  BY <1>7, <1>11 DEF Payload, Unknown
<1>15. CASE delivered' = Append(delivered, [ch |-> ch, payload |-> d])
  <2>1. CASE n <= arrived
    <3>1. d = p
      <4>1. p = [i \in 1 .. n |-> p[i]] BY <1>11, <1>13
      <4>2. \A i \in 1 .. n : i <= arrived BY <1>2, <1>7, <1>11, <2>1
      <4>3. d = [i \in 1 .. n |-> p[i]] BY <1>14, <4>2
      <4> QED BY <4>1, <4>3
    <3>2. delivered' = Append(delivered, FramesSent[taken + 1]) BY <1>7, <1>13, <1>15, <3>1
    <3> QED BY <1>3, <1>8, <1>9, <3>2 DEF Channel!Next, Channel!Deliver
  <2>2. CASE ~(n <= arrived)
    <3>1. arrived < Len(f.payload) /\ arrived \in 0 .. n BY <1>2, <1>6, <1>7, <1>11, <2>2
    <3>2. [ch |-> ch, payload |-> d] =
            [f EXCEPT !.payload = [i \in 1 .. Len(f.payload) |->
                                      IF i <= arrived THEN f.payload[i] ELSE -1]]
      <4>1. [f EXCEPT !.payload = d] = [ch |-> ch, payload |-> d] BY <1>13
      <4>2. d = [i \in 1 .. Len(f.payload) |-> IF i <= arrived THEN f.payload[i] ELSE -1]
        BY <1>6, <1>11, <1>14
      <4> QED BY <4>1, <4>2
    <3>3. delivered' = Append(delivered,
            [f EXCEPT !.payload = [i \in 1 .. Len(f.payload) |->
                                      IF i <= arrived THEN f.payload[i] ELSE -1]])
      BY <1>15, <3>2
    <3>4. Channel!CutShort(arrived)
      BY <1>3, <1>7, <1>8, <1>9, <3>1, <3>3 DEF Channel!CutShort, Channel!Unknown
    <3>5. n \in Channel!Lengths
      <4>1. f \in {g \in Frames : g.ch \in {0, 1}} BY <1>7 DEF Good
      <4> QED BY <1>6, <1>11, <4>1 DEF Channel!Lengths
    <3> QED BY <3>1, <3>4, <3>5 DEF Channel!Next
  <2> QED BY <2>1, <2>2
<1> QED BY <1>10, <1>11, <1>15 DEF Takes

\* Every step of the tunnel is one of FrameChannel's, or none.
LEMMA StepImplements ==
    ASSUME Alone, StreamInv, [Next]_vars
    PROVE  Channel!Next \/ UNCHANGED Channel!vars
<1>1. Serving /\ Flows BY StepFlows DEF StreamInv, Base
<1>2. CASE Takes BY <1>2, TakesImplements
<1>3. CASE UNCHANGED <<taken, delivered>>
  <2>1. CASE FramesSent' = FramesSent BY <1>3, <2>1 DEF Channel!vars
  <2>2. ASSUME NEW f \in Frames, SendFrame(f), FramesSent' # FramesSent PROVE Channel!Next
    <3>1. f.ch \in {0, 1} /\ FramesSent' = Append(FramesSent, f) BY <2>2 DEF SendFrame
    <3>2. f \in {g \in Frames : g.ch \in {0, 1}} BY <3>1
    <3>3. Channel!Send(f) BY <1>3, <3>1 DEF Channel!Send
    <3> QED BY <3>2, <3>3 DEF Channel!Next
  <2>3. FramesSent' = FramesSent \/ \E f \in Frames : SendFrame(f)
    BY <1>1 DEF Flows, SendResponse, Arrive, Disconnect, Consume, server
  <2> QED BY <2>1, <2>2, <2>3
<1> QED BY <1>2, <1>3, StepTakes DEF StreamInv

-----------------------------------------------------------------------------
(* Theorems *)

\* The frames of channels 0 and 1 come out of PollSocket whole, once and in the
\* order they were sent, as FrameChannel promises, whatever the responses, the
\* foreign frames, the pauses of the network and the ends of polls between and
\* inside them, and whenever allocations fail or the connection ends.
THEOREM TunnelImplementsChannel ==
    ASSUME Alone, Distinct
    PROVE  Spec => FramesWholeOnceInOrder
<1>1. Init => StreamInv /\ Channel!Init
  BY InitStream DEF Init, Channel!Init
<1>2. StreamInv /\ [Next]_vars => StreamInv'
  BY StreamStep
<1>3. StreamInv /\ [Next]_vars => [Channel!Next]_(Channel!vars)
  BY StepImplements
<1> QED BY <1>1, <1>2, <1>3, PTL DEF Spec, FramesWholeOnceInOrder, Channel!Spec

\* A callback is called once at most; while the connection is up it gets the
\* whole text of a response, later calls those of later responses.
THEOREM TunnelCallbackOnce ==
    ASSUME Alone, Distinct
    PROVE  Spec => []CallbackOncePerResponse
<1>1. Init => StreamInv /\ Clbks
  BY InitStream
<1>2. StreamInv /\ Clbks /\ [Next]_vars => (StreamInv /\ Clbks)'
  BY StreamStep, ClbksStep DEF StreamInv, Base
<1>3. StreamInv /\ Clbks => CallbackOncePerResponse
  <2> SUFFICES ASSUME StreamInv, Clbks PROVE CallbackOncePerResponse OBVIOUS
  <2>1. DOMAIN calls = 1 .. Len(calls) BY LenProperties DEF StreamInv, Base, Gotten
  <2>2. PICK t : t = Text(1) OBVIOUS
  <2>3. Len(t) + 2 = 9
    <3>1. Len(t) = 7 BY <2>2, 1 \in Nat, TextBytes
    <3> QED BY <3>1
  <2>4. ASSUME conn = "open"
        PROVE  \A i, j \in 1 .. Len(calls) :
                  /\ Len(calls[i].text) = 9
                  /\ i < j => calls[i].text[7] < calls[j].text[7]
    <3>1. ~Dead BY <2>4 DEF Dead
    <3>2. PICK c, k : Told(c, k) BY <3>1 DEF StreamInv, Parsed
    <3> QED BY <2>4, <3>2 DEF Told, Before
  <2> QED BY <2>1, <2>2, <2>3, <2>4 DEF CallbackOncePerResponse, Clbks
<1> QED BY <1>1, <1>2, <1>3, PTL DEF Spec

-----------------------------------------------------------------------------
(* TypeOK: what StreamInv does not say *)

\* As many responses fit in a byte as the server may send.
Short == MaxUnits <= 155

BytesOK == stream \in Seq(Byte) /\ answers <= Len(sent)
BuffersOK == m_httpTunnelHeaderBuffer \in [1 .. 4 -> Byte] /\ rtspbuf \in Seq(Byte)
ScalarsOK ==
    /\ m_isrtp \in BOOLEAN /\ SocketMutex \in {"free", "rtp", "cmd"}
    /\ fetch \in {"data", "packet"} /\ UsleepTimes \in 0 .. Sleeps /\ drop \in 0 .. 2
    /\ rtp # "out" => UsleepTimes > 0
    /\ registered \in 0 .. MaxClbks /\ RecvRtspCmd \in 0 .. MaxClbks /\ cmds \in 0 .. MaxCmds
    /\ response \in Seq(Byte)

\* Part of a sequence of bytes.
LEMMA PartOfBytes ==
    ASSUME NEW s \in Seq(Byte), NEW a \in Nat \ {0}, NEW n \in 0 .. Len(s)
    PROVE  SubSeq(s, a, n) \in Seq(Byte)
<1>1. Len(s) \in Nat BY LenProperties
<1>2. \A i \in a .. n : i \in 1 .. Len(s) BY <1>1
<1>3. \A i \in a .. n : s[i] \in Byte BY <1>2, ElementOfSeq
<1> QED BY <1>1, <1>3, SubSeqProperties

\* The stream consists of bytes.
LEMMA BytesStep ==
    ASSUME Short, Streaming, Serving, BytesOK, Flows
    PROVE  BytesOK'
<1>1. PICK l, n : l = Len(stream) /\ n = Len(sent) OBVIOUS
<1>2. /\ l \in Nat /\ n \in Nat /\ answers \in Nat /\ answers <= n /\ stream \in Seq(Byte)
      /\ arrived \in 0 .. l /\ sent \in Seq(Unit)
  BY <1>1, LenProperties DEF Streaming, Serving, BytesOK
<1>3. CASE UNCHANGED <<stream, arrived, conn, sent, FramesSent, answers>> BY <1>3 DEF BytesOK
<1>4. ASSUME NEW f \in Frames, SendFrame(f) PROVE BytesOK'
  <2>1. stream' = stream \o Wire(f) /\ sent' = Append(sent, f) /\ f \in Unit /\ answers' = answers
    BY <1>4 DEF SendFrame, Unit
  <2>2. Wire(f) \in Seq(Byte)
    <3>1. PICK p : p = f.payload OBVIOUS
    <3>2. p \in Seq(Byte) /\ Len(p) \in Nat /\ Len(p) < 65536 /\ f.ch \in Byte
      <4>1. f.ch \in Byte BY FramesAssumption
      <4> QED BY <3>1, <4>1, FrameFields, FramesAssumption
    <3>3. PICK a, b \in Nat : a = Len(p) \div 256 /\ b = Len(p) % 256 /\ a * 256 + b = Len(p)
      BY <3>2, Sizes
    <3>4. a \in 0 .. 255 /\ b \in 0 .. 255
      <4>1. PICK z \in Nat : z = Len(p) /\ z < 65536 BY <3>2
      <4>2. a * 256 + b = z /\ b = z % 256 BY <3>3, <4>1
      <4>3. b \in 0 .. 255 BY <4>2
      <4>4. a * 256 < 65536 BY <4>1, <4>2
      <4>5. a < 256 BY <4>4
      <4> QED BY <4>3, <4>5
    <3>5. PICK h : h = <<36, f.ch, a, b>> OBVIOUS
    <3>6. h \in Seq(Byte) BY <3>2, <3>4, <3>5 DEF Byte
    <3>7. Wire(f) = h \o p BY <3>1, <3>3, <3>5, Zenon DEF Wire, Dollar
    <3> QED BY <3>2, <3>6, <3>7, ConcatProperties
  <2>3. stream' \in Seq(Byte) BY <1>2, <2>1, <2>2, ConcatProperties
  <2>4. Len(sent') = n + 1 BY <1>1, <1>2, <2>1, AppendProperties
  <2>5. answers <= n + 1 BY <1>2
  <2> QED BY <2>1, <2>3, <2>4, <2>5 DEF BytesOK
<1>5. CASE SendResponse
  <2>1. PICK m \in Nat : m = answers + 1 BY <1>2
  <2>2. stream' = stream \o Text(m) /\ answers' = m /\ Len(sent) < MaxUnits
    BY <1>5, <2>1 DEF SendResponse, Room
  <2>3. PICK u \in Unit : sent' = Append(sent, u) BY <1>5, ResponseSent
  <2>4. Text(m) \in Seq(Byte)
    <3>1. 100 + m \in Byte
      <4>1. MaxUnits \in Nat /\ MaxUnits <= 155 BY BoundsAssumption DEF Short
      <4> QED BY <1>1, <1>2, <2>1, <2>2, <4>1 DEF Byte
    <3>2. PICK g, h : g = <<82, 84, 83, 80>> /\ h = <<100 + m, 10, 10>> OBVIOUS
    <3>3. g \in Seq(Byte) /\ h \in Seq(Byte) BY <3>1, <3>2 DEF Byte
    <3>4. Text(m) = g \o h BY <3>2, Zenon DEF Text, RTSP, LF
    <3> QED BY <3>3, <3>4, ConcatProperties
  <2>5. stream' \in Seq(Byte) BY <1>2, <2>2, <2>4, ConcatProperties
  <2>6. Len(sent') = n + 1 BY <1>1, <1>2, <2>3, AppendProperties
  <2>7. m <= n + 1 BY <1>2, <2>1
  <2> QED BY <2>2, <2>5, <2>6, <2>7 DEF BytesOK
<1>6. CASE Arrive BY <1>6 DEF Arrive, server, BytesOK
<1>7. ASSUME NEW how \in {"eof", "reset"}, Disconnect(how) PROVE BytesOK'
  <2>1. PICK m : m = arrived OBVIOUS
  <2>2. stream' = SubSeq(stream, 1, m) /\ UNCHANGED <<sent, answers>>
    BY <1>7, <2>1 DEF Disconnect, server
  <2>3. stream' \in Seq(Byte) BY <1>1, <1>2, <2>1, <2>2, PartOfBytes
  <2> QED BY <2>2, <2>3 DEF BytesOK
<1>8. ASSUME NEW m \in Nat, Consume(m) PROVE BytesOK'
  <2>1. PICK a : a = Least(m, arrived) + 1 OBVIOUS
  <2>2. a \in Nat \ {0} BY <1>2, <2>1 DEF Least
  <2>3. stream' = SubSeq(stream, a, l) /\ UNCHANGED <<sent, answers>>
    BY <1>1, <1>8, <2>1 DEF Consume, server
  <2>4. stream' \in Seq(Byte) BY <1>1, <1>2, <2>2, <2>3, PartOfBytes
  <2> QED BY <2>3, <2>4 DEF BytesOK
<1> QED BY <1>3, <1>4, <1>5, <1>6, <1>7, <1>8 DEF Flows

\* So do the buffers that are read from it.
LEMMA BuffersStep ==
    ASSUME Base, BytesOK, BuffersOK, [Next]_vars
    PROVE  BuffersOK'
<1>1. /\ stream \in Seq(Byte) /\ arrived \in 0 .. Len(stream) /\ Len(stream) \in Nat
      /\ m_httpTunnelHeaderBuffer \in [1 .. 4 -> Byte] /\ rtspbuf \in Seq(Byte)
  BY LenProperties DEF Base, Streaming, BytesOK, BuffersOK
<1>2. ASSUME NEW n \in Nat PROVE Buffered(n) \in [1 .. 4 -> Byte]
  <2>1. PICK m : m = Least(n, arrived) OBVIOUS
  <2>2. m \in Nat /\ m <= arrived BY <1>1, <2>1 DEF Least
  <2>3. \A i \in 1 .. 4 : i <= m => i \in 1 .. Len(stream) BY <1>1, <2>2
  <2>4. \A i \in 1 .. 4 : i <= m => stream[i] \in Byte BY <1>1, <2>3, ElementOfSeq
  <2>5. Buffered(n) = [i \in 1 .. 4 |-> IF i <= m THEN stream[i] ELSE m_httpTunnelHeaderBuffer[i]]
    BY <2>1 DEF Buffered
  <2> QED BY <1>1, <2>4, <2>5
<1>3. 1 \in Nat /\ 2 \in Nat /\ 4 \in Nat /\ (rtp = "drop" => drop \in Nat) BY DEF Base, Polled
<1>4. ASSUME UNCHANGED <<m_httpTunnelHeaderBuffer, rtspbuf>> PROVE BuffersOK'
  BY <1>4 DEF BuffersOK
<1>5. ASSUME m_httpTunnelHeaderBuffer' \in [1 .. 4 -> Byte], UNCHANGED rtspbuf PROVE BuffersOK'
  BY <1>1, <1>5 DEF BuffersOK
<1>6. CASE UNCHANGED vars BY <1>4, <1>6 DEF vars
<1>7. ASSUME NEW f \in Frames, SendFrame(f) PROVE BuffersOK'
  BY <1>4, <1>7 DEF SendFrame, transmitter
<1>8. CASE SendResponse BY <1>4, <1>8 DEF SendResponse, transmitter
<1>9. CASE Arrive BY <1>4, <1>9 DEF Arrive, transmitter
<1>10. ASSUME NEW how \in {"eof", "reset"}, Disconnect(how) PROVE BuffersOK'
  BY <1>4, <1>10 DEF Disconnect, transmitter
<1>11. ASSUME NEW how \in Fetches, Fetch(how) PROVE BuffersOK' BY <1>4, <1>11 DEF Fetch, transmitter
<1>12. CASE TryLockSocket BY <1>4, <1>12 DEF TryLockSocket, transmitter
<1>13. CASE Take BY <1>4, <1>13 DEF Take, transmitter
<1>14. CASE PollSocket
  <2>1. CASE PollRound BY <1>4, <2>1 DEF PollRound, transmitter
  <2>2. CASE Peek BY <1>2, <1>3, <1>5, <2>2 DEF Peek, PeekTo
  <2>3. CASE Drop BY <1>2, <1>3, <1>5, <2>3 DEF Drop
  <2>4. CASE ReadHeader BY <1>2, <1>3, <1>5, <2>4 DEF ReadHeader
  <2>5. CASE ReadRTSP
    <3>1. PICK h : h = Buffered(2) OBVIOUS
    <3>2. h \in [1 .. 4 -> Byte] /\ m_httpTunnelHeaderBuffer' = h BY <1>2, <1>3, <2>5, <3>1 DEF ReadRTSP
    <3>3. h \in Seq(Byte) BY <3>2, 4 \in Nat, SeqDef
    <3>4. rtspbuf' = h \/ rtspbuf' = rtspbuf BY <2>5, <3>2 DEF ReadRTSP
    <3> QED BY <1>1, <3>2, <3>3, <3>4 DEF BuffersOK
  <2>6. CASE ReadTextByte
    <3>1. 1 \in 1 .. Len(stream) BY <1>1, <2>6 DEF ReadTextByte
    <3>2. stream[1] \in Byte BY <1>1, <3>1, ElementOfSeq
    <3>3. rtspbuf' \in Seq(Byte) /\ UNCHANGED m_httpTunnelHeaderBuffer
      BY <1>1, <2>6, <3>2, AppendProperties DEF ReadTextByte
    <3> QED BY <1>1, <3>3 DEF BuffersOK
  <2>7. CASE ReadTextEnd BY <1>1, <2>7 DEF ReadTextEnd, BuffersOK
  <2>8. CASE CallBack BY <1>1, <2>8 DEF CallBack, BuffersOK
  <2>9. CASE ClearCallback BY <1>4, <2>9 DEF ClearCallback, transmitter
  <2>10. CASE ReadPayload BY <1>4, <2>10 DEF ReadPayload
  <2>11. CASE PollEnds BY <1>4, <2>11 DEF PollEnds, transmitter
  <2> QED BY <1>14, <2>1, <2>2, <2>3, <2>4, <2>5, <2>6, <2>7, <2>8, <2>9, <2>10,
             <2>11 DEF PollSocket
<1>15. CASE PollFails BY <1>4, <1>15 DEF PollFails
<1>16. CASE SetRtspCmdClbk BY <1>4, <1>16 DEF SetRtspCmdClbk, transmitter
<1>17. ASSUME NEW wait \in Waits, Command(wait) PROVE BuffersOK'
  BY <1>4, <1>17 DEF Command, transmitter
<1>18. CASE RecvRTSP
  BY <1>4, <1>18 DEF RecvRTSP, LockSocket, RecvRTSPByte, RecvRTSPFails, transmitter
<1> QED BY <1>6, <1>7, <1>8, <1>9, <1>10, <1>11, <1>12, <1>13, <1>14, <1>15, <1>16, <1>17,
           <1>18 DEF Next, FetchStep

\* The rest of TypeOK.
LEMMA ScalarsStep ==
    ASSUME Base, ScalarsOK, [Next]_vars, Alone
    PROVE  ScalarsOK'
<1>1. /\ m_isrtp \in BOOLEAN /\ SocketMutex \in {"free", "rtp", "cmd"}
      /\ fetch \in {"data", "packet"} /\ UsleepTimes \in 0 .. Sleeps /\ drop \in 0 .. 2
      /\ rtp # "out" => UsleepTimes > 0
      /\ registered \in 0 .. MaxClbks /\ RecvRtspCmd \in 0 .. MaxClbks /\ cmds \in 0 .. MaxCmds
      /\ response \in Seq(Byte)
  BY DEF ScalarsOK
<1>2. Sleeps \in Nat \ {0} /\ MaxClbks \in Nat /\ MaxCmds \in Nat BY BoundsAssumption
<1>3. ASSUME UNCHANGED <<m_isrtp, SocketMutex, fetch, UsleepTimes, drop, rtp, registered, RecvRtspCmd,
                         cmds, response>>
      PROVE  ScalarsOK'
  BY <1>1, <1>3 DEF ScalarsOK
<1>4. ASSUME UNCHANGED <<m_isrtp, fetch, UsleepTimes, registered, RecvRtspCmd, cmds, response>>,
             rtp # "out" \/ rtp' = "out", SocketMutex' \in {"free", "rtp", "cmd"}, drop' \in 0 .. 2
      PROVE  ScalarsOK'
  BY <1>1, <1>4 DEF ScalarsOK
<1>5. CASE UNCHANGED vars BY <1>3, <1>5 DEF vars
<1>6. ASSUME NEW f \in Frames, SendFrame(f) PROVE ScalarsOK'
  BY <1>3, <1>6 DEF SendFrame, transmitter, fetcher, commander
<1>7. CASE SendResponse BY <1>3, <1>7 DEF SendResponse, transmitter, fetcher, commander
<1>8. CASE Arrive BY <1>3, <1>8 DEF Arrive, transmitter, fetcher, commander
<1>9. ASSUME NEW how \in {"eof", "reset"}, Disconnect(how) PROVE ScalarsOK'
  BY <1>3, <1>9 DEF Disconnect, transmitter, fetcher, commander
<1>10. ASSUME NEW how \in Fetches, Fetch(how) PROVE ScalarsOK'
  <2>1. /\ fetch' \in {"data", "packet"} /\ UsleepTimes' = Sleeps
        /\ UNCHANGED <<m_isrtp, SocketMutex, drop, registered, RecvRtspCmd, cmds, response>>
    BY <1>10, FetchesAssumption DEF Fetch, transmitter, commander
  <2>2. UsleepTimes' \in 0 .. Sleeps /\ UsleepTimes' > 0 BY <1>2, <2>1
  <2> QED BY <1>1, <2>1, <2>2 DEF ScalarsOK
<1>11. CASE TryLockSocket
  BY <1>1, <1>4, <1>11 DEF TryLockSocket, transmitter, commander
<1>12. CASE Take
  <2>1. UNCHANGED <<m_isrtp, SocketMutex, fetch, drop, registered, RecvRtspCmd, cmds, response>>
    BY <1>12 DEF Take, transmitter, commander
  <2>2. UsleepTimes' \in 0 .. Sleeps /\ (rtp' # "out" => UsleepTimes' > 0)
    BY <1>1, <1>2, <1>12 DEF Take
  <2> QED BY <1>1, <2>1, <2>2 DEF ScalarsOK
<1>13. CASE PollSocket
  <2>1. CASE PollRound BY <1>1, <1>4, <2>1 DEF PollRound, transmitter, commander
  <2>2. CASE Peek BY <1>1, <1>4, <2>2 DEF Peek, PeekTo, commander
  <2>3. CASE Drop BY <1>1, <1>4, <2>3 DEF Drop, commander
  <2>4. CASE ReadHeader
    <3>1. m_isrtp' \in BOOLEAN BY <2>4, Zenon DEF ReadHeader
    <3>2. /\ rtp = "header"
          /\ UNCHANGED <<SocketMutex, fetch, UsleepTimes, drop, registered, RecvRtspCmd, cmds, response>>
      BY <2>4 DEF ReadHeader, commander
    <3> QED BY <1>1, <3>1, <3>2 DEF ScalarsOK
  <2>5. CASE ReadRTSP BY <1>1, <1>4, <2>5 DEF ReadRTSP, commander
  <2>6. CASE ReadTextByte BY <1>1, <1>4, <2>6 DEF ReadTextByte, commander
  <2>7. CASE ReadTextEnd BY <1>1, <1>4, <2>7 DEF ReadTextEnd, commander
  <2>8. CASE CallBack BY <1>1, <1>4, <2>8 DEF CallBack, commander
  <2>9. CASE ClearCallback
    <3>1. RecvRtspCmd' \in 0 .. MaxClbks BY <1>2, <2>9 DEF ClearCallback, NULL
    <3> QED BY <1>1, <2>9, <3>1 DEF ClearCallback, transmitter, commander, ScalarsOK
  <2>10. CASE ReadPayload BY <1>1, <1>4, <2>10 DEF ReadPayload, commander
  <2>11. CASE PollEnds BY <1>1, <1>4, <2>11 DEF PollEnds, transmitter, commander
  <2> QED BY <1>13, <2>1, <2>2, <2>3, <2>4, <2>5, <2>6, <2>7, <2>8, <2>9, <2>10,
             <2>11 DEF PollSocket
<1>14. CASE PollFails BY <1>1, <1>4, <1>14 DEF PollFails, commander
<1>15. CASE SetRtspCmdClbk
  <2>1. registered' \in 0 .. MaxClbks /\ RecvRtspCmd' \in 0 .. MaxClbks
    BY <1>1, <1>2, <1>15 DEF SetRtspCmdClbk
  <2> QED BY <1>1, <1>15, <2>1 DEF SetRtspCmdClbk, transmitter, fetcher, ScalarsOK
<1>16. ASSUME NEW wait \in Waits, Command(wait) PROVE ScalarsOK'
  <2>1. cmds' \in 0 .. MaxCmds BY <1>1, <1>2, <1>16 DEF Command
  <2> QED BY <1>1, <1>16, <2>1 DEF Command, transmitter, fetcher, ScalarsOK
<1>17. CASE RecvRTSP
  BY <1>17 DEF RecvRTSP, LockSocket, RecvRTSPByte, RecvRTSPFails, Base, Polled
<1> QED BY <1>5, <1>6, <1>7, <1>8, <1>9, <1>10, <1>11, <1>12, <1>13, <1>14, <1>15, <1>16,
           <1>17 DEF Next, FetchStep

\* The variables of the tunnel keep their types; in particular PollSocket never
\* takes more frames off the stream than the server sent units, and the number
\* of sleeps left never becomes negative.
THEOREM TunnelTypeOK ==
    ASSUME Alone, Distinct, Short
    PROVE  Spec => []TypeOK
<1> DEFINE IInv == StreamInv /\ BytesOK /\ BuffersOK /\ ScalarsOK
<1>1. Init => IInv
  <2> SUFFICES ASSUME Init PROVE IInv OBVIOUS
  <2>1. StreamInv BY InitStream
  <2>2. BytesOK BY DEF Init, BytesOK
  <2>3. BuffersOK
    <3>1. m_httpTunnelHeaderBuffer \in [1 .. 4 -> Byte] BY DEF Init, Garbage, RTSP, Byte
    <3>2. rtspbuf \in Seq(Byte) BY DEF Init
    <3> QED BY <3>1, <3>2 DEF BuffersOK
  <2>4. ScalarsOK
    <3>1. 0 \in 0 .. Sleeps /\ 0 \in 0 .. MaxClbks /\ 0 \in 0 .. MaxCmds /\ 0 \in 0 .. 2
      BY BoundsAssumption
    <3>2. /\ m_isrtp = FALSE /\ SocketMutex = "free" /\ fetch = "data" /\ UsleepTimes = 0
          /\ drop = 0 /\ rtp = "out" /\ registered = 0 /\ RecvRtspCmd = 0 /\ cmds = 0
          /\ response = <<>>
      BY DEF Init, NULL
    <3>3. response \in Seq(Byte) BY <3>2
    <3>4. m_isrtp \in BOOLEAN BY <3>2, Zenon
    <3> QED BY <3>1, <3>2, <3>3, <3>4 DEF ScalarsOK
  <2> QED BY <2>1, <2>2, <2>3, <2>4
<1>2. IInv /\ [Next]_vars => IInv'
  <2> SUFFICES ASSUME IInv, [Next]_vars PROVE IInv' OBVIOUS
  <2>1. Base /\ Streaming /\ Serving /\ Flows BY StepFlows DEF StreamInv, Base
  <2>2. StreamInv' BY StreamStep
  <2>3. BytesOK' BY <2>1, BytesStep
  <2>4. BuffersOK' BY <2>1, BuffersStep
  <2>5. ScalarsOK' BY <2>1, ScalarsStep
  <2> QED BY <2>2, <2>3, <2>4, <2>5
<1>3. IInv => TypeOK
  <2> SUFFICES ASSUME IInv PROVE TypeOK OBVIOUS
  <2>1. taken \in 0 .. MaxUnits
    <3>1. /\ taken \in Nat /\ taken <= Len(FramesSent) /\ Len(FramesSent) <= Len(sent)
          /\ Len(sent) <= MaxUnits /\ Len(FramesSent) \in Nat /\ Len(sent) \in Nat
      BY LenProperties DEF StreamInv, Base, Serving, Gotten
    <3> QED BY <3>1, BoundsAssumption
  <2> QED BY <2>1 DEF StreamInv, Base, Streaming, Polled, BytesOK, BuffersOK, ScalarsOK, TypeOK
<1> QED BY <1>1, <1>2, <1>3, PTL DEF Spec
=============================================================================
