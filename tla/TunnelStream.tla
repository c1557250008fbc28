---------------------------- MODULE TunnelStream ----------------------------
(***************************************************************************)
(* RTP and RTSP on one TCP connection (HTTP tunnelling, RTP over TCP).     *)
(* The thread that fetches media reads the socket in PollSocket of         *)
(* MyTCPTransmitter, under the mutex of MyRTPTCPSession or without it; the *)
(* thread that issues commands waits for its response in RecvRTSP, or      *)
(* leaves it to the callback that PollSocket calls.                        *)
(*                                                                         *)
(* The stream is modelled byte by byte, as the parser sees it; a payload   *)
(* is any short sequence of bytes, a response is "RTSP", one byte for the  *)
(* rest of its status line, and the empty line that ends it.  The peeks of *)
(* one header are one step, as is each recv(); the network may deliver any *)
(* number of bytes between two steps.                                      *)
(***************************************************************************)
EXTENDS Integers, Sequences, FiniteSets

CONSTANTS
    Frames,      \* interleaved frames [ch, payload] the server may send
    Fetches,     \* how the application gets media: subset of {"data", "packet"}
    Waits,       \* do commands wait for their response? subset of BOOLEAN
    OutOfMem,    \* allocations may fail
    Sleeps,      \* ceil(timeout / USLEEP_UNIT)
    MaxUnits,    \* bound: frames and responses the server sends
    MaxCmds,     \* bound: commands the application issues
    MaxClbks     \* bound: callbacks it registers

ASSUME FetchesAssumption == Fetches \subseteq {"data", "packet"}
ASSUME ModesAssumption == Waits \subseteq BOOLEAN /\ OutOfMem \in BOOLEAN
ASSUME BoundsAssumption ==
    /\ Sleeps \in Nat \ {0}
    /\ MaxUnits \in Nat /\ MaxCmds \in Nat /\ MaxClbks \in Nat

Byte == 0 .. 255
Dollar == 36
RTSP   == <<82, 84, 83, 80>>   \* "RTSP"
LF     == 10
NULL   == 0                    \* no callback
Unknown == -1                  \* a byte of a buffer that recv() never wrote

\* The length of a frame is a 16-bit field.
ASSUME FramesAssumption ==
    \A f \in Frames : /\ f \in [ch : Byte, payload : Seq(Byte)]
                      /\ Len(f.payload) < 65536

VARIABLES
    \* the connection
    stream,       \* bytes the server sent and nobody read yet
    arrived,      \* how many of them have arrived: FIONREAD
    conn,         \* "open", "eof", "reset"
    sent,         \* the units the server sent, in order
    FramesSent,   \* the frames of channels 0 and 1 among them
    answers,      \* the number of responses among them
    \* MyTCPTransmitter
    m_recvstate, m_httpTunnelHeaderBuffer, m_isrtp, m_dataLength, RecvRtspCmd,
    rtspbuf,      \* text of the response being read for the callback
    \* MyRTPTCPSession and the thread that fetches media
    SocketMutex,  \* "free" or the thread that locked it: "rtp", "cmd"
    rtp, fetch, UsleepTimes, drop,
    queue,        \* RTP packets the session holds
    \* the thread that issues commands
    cmd, response,
    \* what happened so far
    delivered,    \* packets PollSocket put on m_rawpacketlist
    taken,        \* how many frames it read off the stream to get there
    calls,        \* callbacks made: which one, with which text
    registered,   \* callbacks the application registered
    cmds          \* commands it issued

server      == <<sent, FramesSent, answers>>
connection  == <<stream, arrived, conn, sent, FramesSent, answers>>
transmitter == <<m_recvstate, m_httpTunnelHeaderBuffer, m_isrtp, m_dataLength, rtspbuf>>
fetcher     == <<rtp, fetch, UsleepTimes, drop, queue>>
commander   == <<cmd, response, registered, cmds>>
history     == <<delivered, taken, calls>>
vars == <<stream, arrived, conn, sent, FramesSent, answers, m_recvstate,
          m_httpTunnelHeaderBuffer, m_isrtp, m_dataLength, RecvRtspCmd, rtspbuf, SocketMutex, rtp, fetch,
          UsleepTimes, drop, queue, cmd, response, delivered, taken, calls,
          registered, cmds>>

Polling == {"poll", "peek", "drop", "header", "payload", "text", "line",
            "call", "clear"}

TypeOK ==
    /\ stream \in Seq(Byte) /\ arrived \in 0 .. Len(stream)
    /\ conn \in {"open", "eof", "reset"}
    /\ m_recvstate \in {"RECV_LEN", "RECV_DATA"}
    /\ m_httpTunnelHeaderBuffer \in [1 .. 4 -> Byte]
    /\ m_isrtp \in BOOLEAN /\ m_dataLength \in Nat
    /\ RecvRtspCmd \in 0 .. MaxClbks /\ rtspbuf \in Seq(Byte)
    /\ SocketMutex \in {"free", "rtp", "cmd"}
    /\ rtp \in Polling \cup {"out", "lock", "take"}
    /\ fetch \in {"data", "packet"} /\ UsleepTimes \in 0 .. Sleeps /\ drop \in 0 .. 2
    /\ cmd \in {"idle", "lock", "read"} /\ response \in Seq(Byte)
    /\ taken \in 0 .. MaxUnits
    /\ registered \in 0 .. MaxClbks /\ cmds \in 0 .. MaxCmds

\* The constructor leaves the header buffer uninitialised: whatever the heap
\* holds, of which only the likeness to a header matters.
Garbage == {<<0, 0, 0, 0>>, RTSP, <<255, 255, 255, 255>>}

Init ==
    /\ stream = <<>> /\ arrived = 0 /\ conn = "open"
    /\ sent = <<>> /\ FramesSent = <<>> /\ answers = 0
    /\ m_recvstate = "RECV_LEN" /\ m_httpTunnelHeaderBuffer \in Garbage
    /\ m_isrtp = FALSE /\ m_dataLength = 0 /\ RecvRtspCmd = NULL /\ rtspbuf = <<>>
    /\ SocketMutex = "free"
    /\ rtp = "out" /\ fetch = "data" /\ UsleepTimes = 0 /\ drop = 0 /\ queue = <<>>
    /\ cmd = "idle" /\ response = <<>>
    /\ delivered = <<>> /\ taken = 0 /\ calls = <<>>
    /\ registered = 0 /\ cmds = 0

-----------------------------------------------------------------------------
(* The server and the network *)

Wire(f) == <<Dollar, f.ch, Len(f.payload) \div 256, Len(f.payload) % 256>> \o f.payload
\* The number stands for the rest of the response.  That rest holds neither '$'
\* nor 'R': without a callback PollSocket skips a response byte by byte, and
\* would take such a byte for the beginning of a frame or of another response.
Text(n) == RTSP \o <<100 + n, LF, LF>>

Room == conn = "open" /\ Len(sent) < MaxUnits

SendFrame(f) ==
    /\ Room
    /\ sent' = Append(sent, f)
    /\ FramesSent' = IF f.ch \in {0, 1} THEN Append(FramesSent, f) ELSE FramesSent
    /\ stream' = stream \o Wire(f)
    /\ UNCHANGED <<arrived, conn, answers, transmitter, RecvRtspCmd, SocketMutex, fetcher,
                   commander, history>>

\* The server answers the commands in the order they were issued.
SendResponse ==
    /\ Room
    /\ answers < cmds
    /\ answers' = answers + 1
    /\ sent' = Append(sent, [number |-> answers'])
    /\ stream' = stream \o Text(answers')
    /\ UNCHANGED <<arrived, conn, FramesSent, transmitter, RecvRtspCmd, SocketMutex, fetcher,
                   commander, history>>

Arrive ==
    /\ arrived < Len(stream)
    /\ arrived' = arrived + 1
    /\ UNCHANGED <<stream, conn, server, transmitter, RecvRtspCmd, SocketMutex,
                   fetcher, commander, history>>

\* The connection ends; bytes that have not arrived are lost.
Disconnect(how) ==
    /\ conn = "open"
    /\ conn' = how
    /\ stream' = SubSeq(stream, 1, arrived)
    /\ UNCHANGED <<arrived, server, transmitter, RecvRtspCmd, SocketMutex, fetcher,
                   commander, history>>

-----------------------------------------------------------------------------
(* recv() *)

Least(a, b) == IF a < b THEN a ELSE b

\* recv(sock, buf, n, MSG_WAITALL) returns: n bytes are there, or all that
\* will ever come.
Ready(n) == arrived >= n \/ conn # "open"

\* The header buffer after n bytes were read or peeked into it.
Buffered(n) == [i \in 1 .. 4 |-> IF i <= Least(n, arrived) THEN stream[i]
                                 ELSE m_httpTunnelHeaderBuffer[i]]

\* Mutant of Consume: a short read counts as a full one.
ConsumeAll(n) ==
    /\ stream' = SubSeq(stream, n + 1, Len(stream))
    /\ arrived' = arrived - n
    /\ UNCHANGED <<conn, server>>

Consume(n) ==
    /\ stream' = SubSeq(stream, Least(n, arrived) + 1, Len(stream))
    /\ arrived' = arrived - Least(n, arrived)
    /\ UNCHANGED <<conn, server>>

-----------------------------------------------------------------------------
(* PollSocket *)

\* The head of the loop: FIONREAD says whether there is another round.
PollRound ==
    /\ rtp = "poll" /\ arrived > 0
    /\ rtp' = IF m_recvstate = "RECV_LEN" THEN "peek" ELSE "payload"
    /\ UNCHANGED <<connection, transmitter, RecvRtspCmd, SocketMutex, fetch,
                   UsleepTimes, drop, queue, commander, history>>

\* RECV_LEN: what do the first bytes look like?
PeekTo(n, step, bytes) ==
    /\ Ready(n)
    /\ m_httpTunnelHeaderBuffer' = Buffered(n)
    /\ rtp' = step /\ drop' = bytes
    /\ UNCHANGED <<connection, m_recvstate, m_isrtp, m_dataLength, rtspbuf,
                   RecvRtspCmd, SocketMutex, fetch, UsleepTimes, queue, commander,
                   history>>

Marked   == Buffered(1)[1] \in {Dollar, RTSP[1]}
Numbered == Buffered(2)[2] \in {0, 1, RTSP[2]}

Peek ==
    /\ rtp = "peek"
    /\ \/ ~Marked /\ PeekTo(1, "drop", 1)
       \/ Marked /\ Ready(2) /\ ~Numbered /\ PeekTo(2, "drop", 2)
       \/ /\ Marked /\ Ready(2) /\ Numbered
          /\ \/ Buffered(2)[1] # RTSP[1] /\ PeekTo(2, "header", 0)
             \/ Buffered(2)[1] = RTSP[1] /\ Buffered(4) = RTSP /\ PeekTo(4, "text", 0)
             \/ Buffered(2)[1] = RTSP[1] /\ Buffered(4) # RTSP /\ PeekTo(4, "drop", 2)

\* "clear the bytes in socket buffer"
Drop ==
    /\ rtp = "drop" /\ Ready(drop)
    /\ m_httpTunnelHeaderBuffer' = Buffered(drop)
    /\ Consume(drop)
    /\ rtp' = "poll"
    /\ UNCHANGED <<m_recvstate, m_isrtp, m_dataLength, rtspbuf, RecvRtspCmd,
                   SocketMutex, fetch, UsleepTimes, drop, queue, commander, history>>

\* '$', channel, length.
ReadHeader ==
    /\ rtp = "header" /\ Ready(4)
    /\ m_httpTunnelHeaderBuffer' = Buffered(4)
    /\ m_isrtp' = (Buffered(4)[2] = 0)
    /\ m_dataLength' = Buffered(4)[3] * 256 + Buffered(4)[4]
    /\ m_recvstate' = "RECV_DATA"
    /\ Consume(4)
    /\ rtp' = "poll"
    /\ UNCHANGED <<rtspbuf, RecvRtspCmd, SocketMutex, fetch, UsleepTimes, drop, queue,
                   commander, history>>

\* "RTSP": two of the four bytes are taken off the socket; the text of a
\* callback starts with all four.
ReadRTSP ==
    /\ rtp = "text" /\ Ready(2)
    /\ m_httpTunnelHeaderBuffer' = Buffered(2)
    /\ Consume(2)
    /\ IF RecvRtspCmd # NULL
       THEN rtspbuf' = m_httpTunnelHeaderBuffer' /\ rtp' = "line"
       ELSE rtp' = "clear" /\ UNCHANGED rtspbuf
    /\ UNCHANGED <<m_recvstate, m_isrtp, m_dataLength, RecvRtspCmd, SocketMutex, fetch,
                   UsleepTimes, drop, queue, commander, history>>

\* ReadLine on a text of which the first `start` bytes were not read by it:
\* was the line that byte c ends an empty one?
EndsText(text, start, c) ==
    c = LF /\ (Len(text) = start \/ text[Len(text)] = LF)

\* One byte of ReadLine; a text ends at an empty line.
ReadTextByte ==
    /\ rtp = "line" /\ arrived > 0
    /\ rtspbuf' = Append(rtspbuf, stream[1])
    /\ Consume(1)
    /\ rtp' = IF EndsText(rtspbuf, 4, stream[1]) THEN "call" ELSE "line"
    /\ UNCHANGED <<m_recvstate, m_httpTunnelHeaderBuffer, m_isrtp, m_dataLength,
                   RecvRtspCmd, SocketMutex, fetch, UsleepTimes, drop, queue,
                   commander, history>>

\* End of file ends the text too; an error discards it (rtspbuf = NULL).
ReadTextEnd ==
    /\ rtp = "line" /\ arrived = 0 /\ conn # "open"
    /\ rtspbuf' = IF conn = "reset" THEN <<>> ELSE rtspbuf
    /\ rtp' = "call"
    /\ UNCHANGED <<connection, m_recvstate, m_httpTunnelHeaderBuffer, m_isrtp,
                   m_dataLength, RecvRtspCmd, SocketMutex, fetch, UsleepTimes, drop,
                   queue, commander, history>>

\* RecvRtspCmd(rtspbuf)
CallBack ==
    /\ rtp = "call"
    /\ calls' = Append(calls, [clbk |-> RecvRtspCmd, text |-> rtspbuf])
    /\ rtspbuf' = <<>>
    /\ rtp' = "clear"
    /\ UNCHANGED <<connection, m_recvstate, m_httpTunnelHeaderBuffer, m_isrtp,
                   m_dataLength, RecvRtspCmd, SocketMutex, fetch, UsleepTimes, drop,
                   queue, commander, delivered, taken>>

\* Mutant of ClearCallback: the callback stays registered.
KeepCallback ==
    /\ rtp = "clear"
    /\ rtp' = "poll"
    /\ UNCHANGED <<connection, transmitter, RecvRtspCmd, SocketMutex, fetch,
                   UsleepTimes, drop, queue, commander, history>>

\* RecvRtspCmd = NULL, whether it was called or not.
ClearCallback ==
    /\ rtp = "clear"
    /\ RecvRtspCmd' = NULL
    /\ rtp' = "poll"
    /\ UNCHANGED <<connection, transmitter, SocketMutex, fetch, UsleepTimes, drop,
                   queue, commander, history>>

\* m_dataLength bytes, of which recv() may have written fewer.
Payload == [i \in 1 .. m_dataLength |-> IF i <= arrived THEN stream[i] ELSE Unknown]

\* RECV_DATA completes a packet and ends the poll; the session sorts what it
\* polled: RTP packets are kept for the application, RTCP is consumed.
ReadPayload ==
    /\ rtp = "payload" /\ Ready(m_dataLength)
    /\ Consume(m_dataLength)
    /\ m_recvstate' = "RECV_LEN"
    /\ taken' = taken + 1
    /\ delivered' = Append(delivered, [ch |-> IF m_isrtp THEN 0 ELSE 1, payload |-> Payload])
    /\ queue' = IF m_isrtp THEN Append(queue, Payload) ELSE queue
    /\ rtp' = "take"
    /\ SocketMutex' = IF fetch = "data" THEN "free" ELSE SocketMutex
    /\ UNCHANGED <<m_httpTunnelHeaderBuffer, m_isrtp, m_dataLength, rtspbuf, RecvRtspCmd,
                   fetch, UsleepTimes, drop, commander, calls>>

\* Mutant of PollEnds: every poll starts with a header.
PollEndsInHeader ==
    /\ rtp = "poll" /\ arrived = 0
    /\ rtp' = "take"
    /\ SocketMutex' = IF fetch = "data" THEN "free" ELSE SocketMutex
    /\ m_recvstate' = "RECV_LEN"
    /\ UNCHANGED <<connection, m_httpTunnelHeaderBuffer, m_isrtp, m_dataLength,
                   rtspbuf, RecvRtspCmd, fetch, UsleepTimes, drop, queue, commander,
                   history>>

\* Mutant of PollEnds: a poll that brought nothing does not unlock the socket.
PollEndsLocked ==
    /\ rtp = "poll" /\ arrived = 0
    /\ rtp' = "take"
    /\ UNCHANGED <<connection, transmitter, RecvRtspCmd, SocketMutex, fetch,
                   UsleepTimes, drop, queue, commander, history>>

\* No more bytes for now: Poll() ends and GetMyRTPData unlocks the socket.
PollEnds ==
    /\ rtp = "poll" /\ arrived = 0
    /\ rtp' = "take"
    /\ SocketMutex' = IF fetch = "data" THEN "free" ELSE SocketMutex
    /\ UNCHANGED <<connection, transmitter, RecvRtspCmd, fetch, UsleepTimes, drop,
                   queue, commander, history>>

\* No memory for the payload, before it is read, or for the packet, after it:
\* Get... is left (ERR_RTP_OUTOFMEM, or bad_alloc) with the socket locked.
PollFails ==
    /\ OutOfMem /\ rtp = "payload"
    /\ rtp' = "out"
    /\ \/ UNCHANGED <<connection, m_recvstate, taken>>
       \/ /\ Ready(m_dataLength) /\ Consume(m_dataLength)
          /\ m_recvstate' = "RECV_LEN" /\ taken' = taken + 1
    /\ UNCHANGED <<m_httpTunnelHeaderBuffer, m_isrtp, m_dataLength, rtspbuf, RecvRtspCmd,
                   SocketMutex, fetch, UsleepTimes, drop, queue, commander, delivered,
                   calls>>

-----------------------------------------------------------------------------
(* GetMyRTPData and GetMyRTPPacket *)

Fetch(how) ==
    /\ rtp = "out"
    /\ fetch' = how
    /\ UsleepTimes' = Sleeps
    /\ rtp' = "lock"
    /\ UNCHANGED <<connection, transmitter, RecvRtspCmd, SocketMutex, drop, queue,
                   commander, history>>

\* Mutant of TryLockSocket: a failed pthread_mutex_trylock() is only counted.
TryLockIgnored ==
    /\ rtp = "lock"
    /\ rtp' = "poll"
    /\ SocketMutex' = IF fetch = "data" /\ SocketMutex = "free" THEN "rtp" ELSE SocketMutex
    /\ UNCHANGED <<connection, transmitter, RecvRtspCmd, fetch, UsleepTimes, drop,
                   queue, commander, history>>

\* GetMyRTPData polls if TryLockSocket succeeds, GetMyRTPPacket in any case.
TryLockSocket ==
    /\ rtp = "lock"
    /\ IF fetch = "packet" THEN rtp' = "poll" /\ UNCHANGED SocketMutex
       ELSE IF SocketMutex = "free" THEN rtp' = "poll" /\ SocketMutex' = "rtp"
       ELSE rtp' = "take" /\ UNCHANGED SocketMutex
    /\ UNCHANGED <<connection, transmitter, RecvRtspCmd, fetch, UsleepTimes, drop,
                   queue, commander, history>>

\* Take a packet and return it; without one sleep, and try again or give up.
Take ==
    /\ rtp = "take"
    /\ IF queue # <<>>
       THEN queue' = Tail(queue) /\ UsleepTimes' = 0 /\ rtp' = "out"
       ELSE /\ UsleepTimes' = UsleepTimes - 1
            /\ rtp' = IF UsleepTimes' <= 0 THEN "out" ELSE "lock"
            /\ UNCHANGED queue
    /\ UNCHANGED <<connection, transmitter, RecvRtspCmd, SocketMutex, fetch, drop,
                   commander, history>>

-----------------------------------------------------------------------------
(* The thread that issues commands *)

SetRtspCmdClbk ==
    /\ cmd = "idle" /\ registered < MaxClbks
    /\ registered' = registered + 1
    /\ RecvRtspCmd' = registered'
    /\ UNCHANGED <<connection, transmitter, SocketMutex, fetcher, cmd, response, cmds,
                   history>>

\* Do...(..., http_tunnel_no_response = ~wait)
Command(wait) ==
    /\ cmd = "idle" /\ cmds < MaxCmds
    /\ cmds' = cmds + 1
    /\ cmd' = IF wait THEN "lock" ELSE "idle"
    /\ UNCHANGED <<connection, transmitter, RecvRtspCmd, SocketMutex, fetcher, response,
                   registered, history>>

\* Responses have no body: that of DESCRIBE would be read by RecvSDP after the
\* mutex is released again.
LockSocket ==
    /\ cmd = "lock" /\ SocketMutex = "free"
    /\ SocketMutex' = "cmd"
    /\ cmd' = "read" /\ response' = <<>>
    /\ UNCHANGED <<connection, transmitter, RecvRtspCmd, fetcher, registered, cmds,
                   history>>

\* RecvRTSP is through, with a response or an error.
RecvRTSPReturns ==
    /\ cmd' = "idle"
    /\ SocketMutex' = "free"

RecvRTSPByte ==
    /\ cmd = "read" /\ arrived > 0
    /\ response' = Append(response, stream[1])
    /\ Consume(1)
    /\ IF EndsText(response, 0, stream[1]) THEN RecvRTSPReturns
       ELSE UNCHANGED <<cmd, SocketMutex>>
    /\ UNCHANGED <<transmitter, RecvRtspCmd, fetcher, registered, cmds, history>>

\* Only the end of the connection ends the wait: CheckSockReadable has no
\* time-out.
RecvRTSPFails ==
    /\ cmd = "read" /\ arrived = 0 /\ conn # "open"
    /\ RecvRTSPReturns
    /\ UNCHANGED <<connection, transmitter, RecvRtspCmd, fetcher, response, registered,
                   cmds, history>>

-----------------------------------------------------------------------------
PollSocket == \/ PollRound \/ Peek \/ Drop \/ ReadHeader \/ ReadRTSP \/ ReadTextByte
              \/ ReadTextEnd \/ CallBack \/ ClearCallback \/ ReadPayload \/ PollEnds

FetchStep == TryLockSocket \/ PollSocket \/ Take

RecvRTSP == LockSocket \/ RecvRTSPByte \/ RecvRTSPFails

Next ==
    \/ \E f \in Frames : SendFrame(f)
    \/ SendResponse
    \/ Arrive
    \/ \E how \in {"eof", "reset"} : Disconnect(how)
    \/ \E how \in Fetches : Fetch(how)
    \/ FetchStep
    \/ PollFails
    \/ SetRtspCmdClbk
    \/ \E wait \in Waits : Command(wait)
    \/ RecvRTSP

Spec == Init /\ [][Next]_vars

\* Bytes sent arrive; a thread that can run runs, and the application keeps
\* fetching; a command gets the mutex, since the fetching thread sleeps
\* without it whenever a poll brought nothing.
FairSpec ==
    /\ Spec
    /\ WF_vars(Arrive)
    /\ WF_vars(\E how \in Fetches : Fetch(how))
    /\ WF_vars(FetchStep)
    /\ WF_vars(RecvRTSPByte \/ RecvRTSPFails)
    /\ SF_vars(LockSocket)
-----------------------------------------------------------------------------
(* Properties *)

\* The frames of channels 0 and 1 come out of PollSocket whole, once and in
\* order, whatever responses, foreign channels, pauses of the network and ends
\* of polls come between and inside them (m_recvstate survives a poll).
Channel == INSTANCE FrameChannel WITH
               Frames <- {f \in Frames : f.ch \in {0, 1}}, Lossy <- OutOfMem,
               sent <- FramesSent, out <- delivered
FramesWholeOnceInOrder == Channel!Spec

\* A registered callback is called at most once, and the calls made while the
\* connection is up get the texts of different responses, oldest first: the
\* seventh byte of a text tells its response.
CallbackOncePerResponse ==
    /\ \A i \in DOMAIN calls : calls[i].clbk \in 1 .. registered
    /\ \A i, j \in DOMAIN calls : i # j => calls[i].clbk # calls[j].clbk
    /\ conn = "open" =>
         \A i, j \in DOMAIN calls :
             /\ Len(calls[i].text) = Len(Text(1)) + 2
             /\ i < j => calls[i].text[7] < calls[j].text[7]

\* The mutex of the session is held exactly by the thread that reads the
\* socket, and so two threads never read it at a time (GetMyRTPData polls
\* between TryLockSocket and UnlockSocket, RecvRTSP between LockSocket and
\* UnlockSocket).
OneReader ==
    /\ SocketMutex = "rtp" <=> rtp \in Polling
    /\ SocketMutex = "cmd" <=> cmd = "read"

\* A frame with a payload reaches the session as long as the connection stays
\* up, the application keeps fetching and no command reads the stream itself.
FramesArrive ==
    \A n \in 1 .. MaxUnits :
        (Len(FramesSent) >= n /\ FramesSent[n].payload # <<>>)
            ~> (taken >= n \/ conn # "open" \/ cmd # "idle" \/ response # <<>>)

\* A command that waits for its response gets to read the socket: no poll,
\* not even one that reads a response for a callback, keeps the mutex forever.
CommandGetsSocket == cmd = "lock" ~> cmd = "read"

\* "the callback is only used once and will be set to NULL immediately": the
\* callback that is set to NULL is one that was used.
CallbackLeavesUsed ==
    [][RecvRtspCmd # NULL /\ RecvRtspCmd' = NULL =>
           \E i \in DOMAIN calls : calls[i].clbk = RecvRtspCmd]_vars
=============================================================================
