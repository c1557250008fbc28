----------------------------- MODULE RtspClient -----------------------------
(***************************************************************************)
(* The command engine of class RtspClient (rtspClient.cpp): the Do...      *)
(* commands, the TCP connection they share, authentication, the media      *)
(* sessions made from the SDP, and the error paths that close the          *)
(* connection.  One command runs at a time; it blocks in RecvRTSP, and     *)
(* there the server, the network and the rest of the process interleave.   *)
(*                                                                         *)
(* Abstracted data: a URI is absent, usable, or still carries user:pwd     *)
(* (which GetIP cannot parse); a message keeps only what the client looks  *)
(* at; Realm and Nonce are kept as empty / not empty, TimeRate as 0 / 1    *)
(* for not 0.  RTP ports are the subject of RtpPorts.                      *)
(***************************************************************************)
EXTENDS Integers, Sequences, FiniteSets

CONSTANTS
    MediaTypes,  \* the media types an SDP of the server may announce
    MaxFd,       \* descriptors are 3 .. MaxFd
    MaxCSeq,     \* bound: the application stops issuing commands
    Tunnel,      \* SetHttpTunnelPort was called (RtspOverHttpDataPort # 0)
    NoResp,      \* the application uses http_tunnel_no_response = true
    Commands,    \* the commands the application issues
    Codes,       \* status codes the server answers with
    Challenges,  \* WWW-Authenticate headers of its 401 answers
    SessionIDs,  \* Session headers of its answers to SETUP ("" for none)
    Timeouts     \* their timeout= parameters (-1 for none)

\* Keys of MediaSessionMap, in the order std::map iterates over them; "none"
\* stands for the commands that address no session.
Rank == [m \in {"none", "application", "audio", "video"} |->
            CASE m = "none" -> 0 [] m = "application" -> 1
              [] m = "audio" -> 2 [] m = "video" -> 3]

SessionCommands == {"SETUP", "PLAY", "PAUSE", "GET_PARAMETER", "TEARDOWN"}
PlainCommands   == {"OPTIONS", "DESCRIBE"}
HttpCommands    == {"GET", "POST"}   \* DoRtspOverHttpGet, DoRtspOverHttpPost

ASSUME MediaTypesAssumption ==
    MediaTypes \subseteq {"application", "audio", "video"}
ASSUME BoundsAssumption == MaxFd \in Nat /\ MaxCSeq \in Nat
ASSUME ModeAssumption == Tunnel \in BOOLEAN /\ NoResp \in BOOLEAN
ASSUME CommandsAssumption ==
    Commands \subseteq SessionCommands \cup PlainCommands \cup HttpCommands
ASSUME ServerAssumption ==
    /\ Codes \subseteq {"200", "401", "40x", "other"}
    /\ Challenges \subseteq {"digest", "basic", "none"}
    /\ Timeouts \subseteq Int

Fd     == 3 .. MaxFd
Media  == MediaTypes \cup {"none", "audio", "video"}
Owners == {"free", "rtsp", "http", "other"}
Errors == {"RTSP_NO_ERROR", "RTSP_INVALID_URI", "RTSP_SEND_ERROR",
           "RTSP_RECV_ERROR", "RTSP_INVALID_MEDIA_SESSION",
           "RTSP_RESPONSE_401", "RTSP_UNKNOWN_ERROR"}

Request == [name : SessionCommands \cup PlainCommands \cup HttpCommands,
            cseq : Nat, auth : {"none", "digest", "basic"}, ended : BOOLEAN]
Reply   == [cseq : Nat \cup {-1}, code : {"", "200", "401", "40x", "other"},
            chal : {"digest", "basic", "none"}, sid : SessionIDs \cup {""},
            timeout : Int, sdp : SUBSET MediaTypes]
Session == [SessionID : SessionIDs \cup {""}, Timeout : Int, TimeRate : {0, 1},
            RTPInterface : {"NULL", "udp", "tcp"}, TunnellingSock : Int]
Call    == [name : SessionCommands \cup PlainCommands \cup HttpCommands \cup {"none"},
            media : Media, fd : Fd \cup {-1}, cseq : Nat, all : BOOLEAN,
            rtp_over_tcp : BOOLEAN, no_response : BOOLEAN, err : Errors]

\* RtspResponse = "": nothing received, or the last read failed.
NoResponse == [cseq |-> 0, code |-> "", chal |-> "none", sid |-> "",
               timeout |-> -1, sdp |-> {}]
\* A MediaSession as its constructor leaves it (Timeout is not initialised).
NewSession == [SessionID |-> "", Timeout |-> 0, TimeRate |-> 0,
               RTPInterface |-> "NULL", TunnellingSock |-> 0]
NoCall     == [name |-> "none", media |-> "none", fd |-> -1, cseq |-> 0,
               all |-> FALSE, rtp_over_tcp |-> FALSE, no_response |-> FALSE,
               err |-> "RTSP_NO_ERROR"]

VARIABLES
    \* members of RtspClient
    RtspURI, Username, Realm, Nonce, RtspCSeq, RtspSockfd,
    RtspOverHttpDataSockfd, RtspResponse, SDPStr, mediaInfoMap,
    live,          \* keys of MediaSessionMap
    session,       \* its values (NewSession for a key that is absent)
    \* the command under way
    pc, call,
    todo,          \* media types the running Do...() has still to serve
    Err,           \* ErrAll of the running Do...(), then what it returned
    \* outside the client
    fds,           \* descriptor table of the process: who owns which number
    up,            \* the server has not closed the connection
    toServer, toClient  \* bytes in flight, as whole messages

identity  == <<RtspURI, Username>>
auth      == <<Realm, Nonce>>
sessions  == <<mediaInfoMap, live, session>>
control   == <<pc, call, todo, Err>>
network   == <<fds, up, toServer, toClient>>
sockets   == <<RtspSockfd, RtspOverHttpDataSockfd>>
vars == <<RtspURI, Username, Realm, Nonce, RtspCSeq, RtspSockfd,
          RtspOverHttpDataSockfd, RtspResponse, SDPStr, mediaInfoMap, live,
          session, pc, call, todo, Err, fds, up, toServer, toClient>>

TypeOK ==
    /\ RtspURI \in {"", "plain", "userpwd"} /\ Username \in BOOLEAN
    /\ Realm \in BOOLEAN /\ Nonce \in BOOLEAN
    /\ RtspCSeq \in Nat
    /\ RtspSockfd \in Fd \cup {-1}
    /\ RtspOverHttpDataSockfd \in Fd \cup {-1, 0}
    /\ RtspResponse \in Reply
    /\ SDPStr \in SUBSET MediaTypes
    /\ mediaInfoMap \in SUBSET MediaTypes /\ live \in SUBSET MediaTypes
    /\ session \in [MediaTypes -> Session]
    /\ pc \in {"idle", "start", "send", "wait", "authwait", "reclose"}
    /\ call \in Call
    /\ todo \in SUBSET Media
    /\ Err \in Errors
    /\ fds \in [Fd -> Owners]
    /\ up \in BOOLEAN
    /\ toServer \in Seq(Request) /\ toClient \in Seq(Reply)

\* RtspClient(), or RtspClient(uri) with or without user:pwd in the URI.
Init ==
    /\ RtspURI \in {"", "plain"} /\ Username \in {FALSE, RtspURI = "plain"}
    /\ Realm = FALSE /\ Nonce = FALSE
    /\ RtspCSeq = 0 /\ RtspSockfd = -1 /\ RtspOverHttpDataSockfd = 0
    /\ RtspResponse = NoResponse /\ SDPStr = {}
    /\ mediaInfoMap = {} /\ live = {}
    /\ session = [m \in MediaTypes |-> NewSession]
    /\ pc = "idle" /\ call = NoCall /\ todo = {} /\ Err = "RTSP_NO_ERROR"
    /\ fds = [f \in Fd |-> "free"] /\ up = FALSE
    /\ toServer = <<>> /\ toClient = <<>>

-----------------------------------------------------------------------------
(* Helpers *)

\* The first key of a set of them in map order (it = begin(), it++ ...).
First(S) == CHOOSE m \in S : \A n \in S : Rank[m] <= Rank[n]

\* socket(): the lowest number that is free, as POSIX requires.
Lowest(f) == fds[f] = "free" /\ \A g \in Fd : fds[g] = "free" => f <= g

\* What a descriptor variable designates.  RtspOverHttpDataSockfd starts at
\* 0, which is the standard input of the process.
Owner(f) == IF f \in Fd THEN fds[f] ELSE IF f = 0 THEN "other" ELSE "free"

\* The connection the server answers on, and the one RecvRTSP reads.
Carrier == IF Tunnel THEN "http" ELSE "rtsp"
ReadFd  == IF Tunnel /\ call.name # "GET" THEN RtspOverHttpDataSockfd
           ELSE call.fd

\* In a tunnel RecvRTSP may read a descriptor that is not the tunnel's: the
\* standard input, what another part of the process opened under a stale
\* number, or the client's own RTSP socket.  Such a read may block for ever,
\* end or fail, or return text that is taken for the answer; that text answers
\* no request (Foreign for its CSeq) and may match any of the patterns.
Foreign == -1
ForeignReplies ==
    {a \in [cseq : {Foreign}, code : Codes \cup {"other"},
            chal : Challenges \cup {"none"}, sid : SessionIDs \cup {""},
            timeout : Timeouts \cup {-1}, sdp : SUBSET MediaTypes] :
        \* of what the command does not look at, one value stands for all
        /\ a.code \notin {"401", "other"} => a.chal = "none"
        /\ call.name # "SETUP" => a.sid = "" /\ a.timeout = -1
        /\ call.name # "DESCRIBE" => a.sdp = {}}

\* What the read may return as an answer: the next one on the connection, or
\* text of a descriptor of somebody else; what the connection still holds then.
Answers ==
    IF Owner(ReadFd) = Carrier
    THEN IF toClient = <<>> THEN {} ELSE {Head(toClient)}
    ELSE IF Owner(ReadFd) = "free" THEN {} ELSE ForeignReplies
Unread     == IF Owner(ReadFd) = Carrier THEN Tail(toClient) ELSE toClient
Unreadable == Owner(ReadFd) # Carrier \/ (~up /\ toClient = <<>>)
Blocked    == /\ pc \in {"wait", "authwait"}
              /\ Owner(ReadFd) \notin {Carrier, "free"}

\* Mutant of Close: RtspSockfd keeps the number of the closed descriptor.
CloseKeepsRtspSockfd(sockfd) ==
    /\ fds' = [f \in Fd |->
                 IF f \in {sockfd, RtspSockfd, RtspOverHttpDataSockfd}
                 THEN "free" ELSE fds[f]]
    /\ up' = FALSE /\ toServer' = <<>> /\ toClient' = <<>>
    /\ UNCHANGED sockets

\* Close(sockfd): RtspSockfd, sockfd and RtspOverHttpDataSockfd are closed,
\* whichever of them are positive; only RtspSockfd is reset.
Close(sockfd) ==
    /\ fds' = [f \in Fd |->
                 IF f \in {sockfd, RtspSockfd, RtspOverHttpDataSockfd}
                 THEN "free" ELSE fds[f]]
    /\ RtspSockfd' = -1
    /\ up' = FALSE /\ toServer' = <<>> /\ toClient' = <<>>
    /\ UNCHANGED RtspOverHttpDataSockfd

\* A command for session m ends with e: the caller remembers the first error
\* and goes on with its next session.
Finish(m, e) ==
    /\ Err' = IF Err = "RTSP_NO_ERROR" THEN e ELSE Err
    /\ todo' = todo \ {m}
    /\ pc' = IF todo \ {m} = {} THEN "idle" ELSE "start"

\* The wrappers SendRTSP/RecvRTSP have closed the connection already when
\* DoTEARDOWN, or the caller of CheckAuth, calls Close(Sockfd) once more.
CloseAgain(e) ==
    /\ pc' = "reclose" /\ call' = [call EXCEPT !.err = e]
    /\ UNCHANGED <<todo, Err>>

-----------------------------------------------------------------------------
(* What the application calls *)

\* SetURI stores the URI as given; SetUsername; RtspClient(uri) and the
\* commands that take a URI strip user:pwd from it (parseUriWithUserPwd).
SetURI(uri) ==
    /\ pc = "idle"
    /\ RtspURI' = uri
    /\ Username' = (Username \/ uri = "userpwd")
    /\ UNCHANGED <<auth, RtspCSeq, sockets, RtspResponse, SDPStr, sessions,
                   control, network>>

SetUsername ==
    /\ pc = "idle" /\ Username' = TRUE
    /\ UNCHANGED <<RtspURI, auth, RtspCSeq, sockets, RtspResponse, SDPStr,
                   sessions, control, network>>

\* Entry of a Do...() command serving the sessions in T.
Enter(name, T, all, tcp, noresp) ==
    /\ pc = "idle" /\ name \in Commands
    /\ RtspCSeq + 2 * Cardinality(T) <= MaxCSeq
    /\ call' = [NoCall EXCEPT !.name = name, !.all = all,
                              !.rtp_over_tcp = tcp, !.no_response = noresp]
    /\ Err' = "RTSP_NO_ERROR" /\ todo' = T
    /\ pc' = IF T = {} THEN "idle" ELSE "start"
    /\ UNCHANGED <<auth, RtspCSeq, sockets, RtspResponse, SDPStr, sessions,
                   network>>

\* DoOPTIONS(uri), DoDESCRIBE(uri)
DoPlain(name, uri) ==
    /\ name \in PlainCommands
    /\ \E noresp \in {FALSE, NoResp} : Enter(name, {"none"}, FALSE, FALSE, noresp)
    /\ RtspURI' = IF uri = "" THEN RtspURI ELSE "plain"
    /\ Username' = (Username \/ uri = "userpwd")

\* DoRtspOverHttpGet(), DoRtspOverHttpPost()
DoHttp(name) ==
    /\ Tunnel /\ name \in HttpCommands
    /\ Enter(name, {"none"}, FALSE, FALSE, FALSE)
    /\ UNCHANGED identity

\* DoSETUP(media_type), DoPLAY(media_type), ... and the overloads that take
\* a MediaSession of the map.
DoOne(name, m) ==
    /\ name \in SessionCommands
    /\ \E tcp \in {FALSE, name = "SETUP"}, noresp \in {FALSE, NoResp} :
          Enter(name, {m}, FALSE, tcp, noresp)
    /\ UNCHANGED identity

\* Mutant of DoAll: DoTEARDOWN() stops after "audio".
DoAllOnlyAudio(name) ==
    /\ name \in SessionCommands
    /\ Enter(name, IF name = "TEARDOWN" THEN {"audio"} ELSE live,
             TRUE, FALSE, FALSE)
    /\ UNCHANGED identity

\* DoSETUP(), DoPLAY(), ... : every session of the map; DoTEARDOWN(): "audio"
\* and "video", in the map or not.
DoAll(name) ==
    /\ name \in SessionCommands
    /\ Enter(name, IF name = "TEARDOWN" THEN {"audio", "video"} ELSE live,
             TRUE, FALSE, FALSE)
    /\ UNCHANGED identity

\* ParseSDP(): the medias of SDPStr are added to those of earlier calls, and
\* each one that has no session gets one.  RTP_SetUp needs a TimeRate, which
\* the SDP or the payload type table may leave 0.
ParseSDP ==
    /\ pc = "idle" /\ RtspResponse # NoResponse
    /\ mediaInfoMap' = mediaInfoMap \cup SDPStr
    /\ live' = live \cup mediaInfoMap'
    /\ \E rated \in SUBSET (live' \ live) :
         session' = [m \in MediaTypes |->
                      IF m \in live' \ live
                      THEN [NewSession EXCEPT !.TimeRate = IF m \in rated THEN 1 ELSE 0]
                      ELSE session[m]]
    /\ UNCHANGED <<identity, auth, RtspCSeq, sockets, RtspResponse, SDPStr,
                   control, network>>

-----------------------------------------------------------------------------
(* A command for the next session: connect, send *)

\* The descriptor CreateTcpSockfd finds in the object.
Cached == IF call.name = "GET" THEN RtspOverHttpDataSockfd ELSE RtspSockfd

\* CreateTcpSockfd stores its result in the same member.
SetCached(f) ==
    IF call.name = "GET"
    THEN RtspOverHttpDataSockfd' = f /\ UNCHANGED RtspSockfd
    ELSE RtspSockfd' = f /\ UNCHANGED RtspOverHttpDataSockfd

Begin(m) == pc = "start" /\ todo # {} /\ m = First(todo)

\* No session of that type in the map.
NoMediaSession ==
    \E m \in Media :
        /\ Begin(m) /\ call.name \in SessionCommands /\ m \notin live
        /\ Finish(m, "RTSP_INVALID_MEDIA_SESSION")
        /\ UNCHANGED <<identity, auth, RtspCSeq, sockets, RtspResponse, SDPStr,
                       sessions, call, network>>

Served(m) == Begin(m) /\ (call.name \in SessionCommands => m \in live)

\* CreateTcpSockfd: a positive descriptor is taken to be a live connection.
ReuseConnection ==
    \E m \in Media :
        /\ Served(m) /\ Cached > 0
        /\ pc' = "send" /\ call' = [call EXCEPT !.media = m, !.fd = Cached]
        /\ UNCHANGED <<identity, auth, RtspCSeq, sockets, RtspResponse, SDPStr,
                       sessions, todo, Err, network>>

\* CreateTcpSockfd: socket() and connect().
OpenConnection ==
    \E m \in Media, f \in Fd :
        /\ Served(m) /\ Cached <= 0 /\ RtspURI = "plain" /\ Lowest(f)
        /\ fds' = [fds EXCEPT ![f] = IF call.name = "GET" THEN "http" ELSE "rtsp"]
        /\ SetCached(f)
        /\ up' = (up \/ Carrier = IF call.name = "GET" THEN "http" ELSE "rtsp")
        /\ pc' = "send" /\ call' = [call EXCEPT !.media = m, !.fd = f]
        /\ UNCHANGED <<identity, auth, RtspCSeq, RtspResponse, SDPStr, sessions,
                       todo, Err, toServer, toClient>>

\* Mutant of ConnectFails: the failed connection is recorded as 0.
ConnectFailsStoresZero ==
    \E m \in Media :
        /\ Served(m) /\ Cached <= 0
        /\ SetCached(0)
        /\ Finish(m, "RTSP_INVALID_URI")
        /\ UNCHANGED <<identity, auth, RtspCSeq, RtspResponse, SDPStr, sessions,
                       call, network>>

\* CreateTcpSockfd: no URI, an address GetIP cannot parse, or an error of
\* socket() or connect().
ConnectFails ==
    \E m \in Media :
        /\ Served(m) /\ Cached <= 0
        /\ SetCached(-1)
        /\ Finish(m, "RTSP_INVALID_URI")
        /\ UNCHANGED <<identity, auth, RtspCSeq, RtspResponse, SDPStr, sessions,
                       call, network>>

\* DoSETUP: SetAvailableRTPPort found no port; the connection stays open.
NoPortAvailable ==
    /\ pc = "send" /\ call.name = "SETUP"
    /\ Finish(call.media, "RTSP_UNKNOWN_ERROR")
    /\ UNCHANGED <<identity, auth, RtspCSeq, sockets, RtspResponse, SDPStr,
                   sessions, call, network>>

\* The Authorization header SETUP, PLAY and TEARDOWN send unasked.
Authorization ==
    IF call.name \notin {"SETUP", "PLAY", "TEARDOWN"} \/ ~Realm THEN "none"
    ELSE IF Nonce THEN "digest" ELSE "basic"

\* After "Authorization: Basic ..." a single "\r\n" ends that header line: the
\* empty line that ends the request is missing.
RequestOf(a) == [name |-> call.name, cseq |-> RtspCSeq', auth |-> a,
                 ended |-> a # "basic"]

\* Bytes that follow an unended request belong to it.
Deliver(q, r) ==
    IF q # <<>> /\ ~q[Len(q)].ended THEN [q EXCEPT ![Len(q)].ended = r.ended]
    ELSE Append(q, r)

\* SendRTSP on Sockfd: what was written to a connection the server has closed
\* is lost; the next write may fail.
Write(r)   == toServer' = IF up /\ Owner(call.fd) \in {"rtsp", "http"}
                          THEN Deliver(toServer, r) ELSE toServer
Unwritable == Owner(call.fd) \in {"free", "other"} \/ ~up

\* ++RtspCSeq; the HTTP requests carry none.
NextCSeq == RtspCSeq' = IF call.name \in HttpCommands THEN RtspCSeq ELSE RtspCSeq + 1

SendRequest ==
    /\ pc = "send" /\ Owner(call.fd) # "free"
    /\ NextCSeq
    /\ IF call.name = "POST" THEN UNCHANGED toServer
       ELSE Write(RequestOf(Authorization))
    /\ call' = [call EXCEPT !.cseq = RtspCSeq']
    /\ IF call.name = "POST" \/ call.no_response
       THEN Finish(call.media, "RTSP_NO_ERROR")
       ELSE pc' = "wait" /\ UNCHANGED <<todo, Err>>
    /\ UNCHANGED <<identity, auth, sockets, RtspResponse, SDPStr, sessions, fds,
                   up, toClient>>

SendFails ==
    /\ pc = "send" /\ Unwritable
    /\ NextCSeq
    /\ Close(call.fd)
    /\ IF call.name = "TEARDOWN" THEN CloseAgain("RTSP_SEND_ERROR")
       ELSE Finish(call.media, "RTSP_SEND_ERROR") /\ UNCHANGED call
    /\ UNCHANGED <<identity, auth, RtspResponse, SDPStr, sessions>>

-----------------------------------------------------------------------------
(* The answer: RecvRTSP, CheckAuth, and what the command does with it *)

\* CheckAuth: err is left uninitialised by a status that matches none of the
\* four patterns, so such an answer may be taken for a 401 or not.
CheckOK(a) ==
    \/ pc = "wait" /\ (call.name = "GET" \/ a.code # "401")
    \/ pc = "authwait" /\ a.code = "200"
CheckChallenge(a) ==
    pc = "wait" /\ call.name # "GET" /\ a.code \in {"401", "other"}
CheckError(a) ==
    \/ CheckChallenge(a) /\ ~Username
    \/ pc = "authwait" /\ a.code # "200"

\* MediaSession::RTP_SetUp, called once the session has an RTPPort; a failure
\* of MyRTP_SetUp leaves the interface in place and is not reported.
RTP_SetUp(s, sock) ==
    IF s.TimeRate = 0 \/ s.RTPInterface # "NULL" THEN s
    ELSE [s EXCEPT !.RTPInterface = IF sock > 0 THEN "tcp" ELSE "udp",
                   !.TunnellingSock = IF sock > 0 THEN sock ELSE -1]

\* DoSETUP: SessionID, Timeout (60 is stored and overwritten), RTP_SetUp.
SetUpSession(s, r) ==
    RTP_SetUp([s EXCEPT !.SessionID = r.sid, !.Timeout = r.timeout],
              IF call.rtp_over_tcp THEN call.fd ELSE RtspOverHttpDataSockfd)

\* RecvSDP reads the body; SDPStr stays empty when the body is cut short.  The
\* server's answers to DESCRIBE give a Content-Length below RECV_BUF_SIZE: at
\* the two early returns the code would leave the body on the stream.
RecvSDP(r) == SDPStr' \in {r.sdp, IF up THEN r.sdp ELSE {}}

\* OPTIONS, DESCRIBE, PLAY, PAUSE, GET_PARAMETER, SETUP and the tunnel's GET.
Accept ==
    \E a \in Answers :
        /\ CheckOK(a) /\ call.name # "TEARDOWN"
        /\ RtspResponse' = a /\ toClient' = Unread
        /\ IF call.name = "SETUP"
           THEN session' = [session EXCEPT ![call.media] = SetUpSession(@, a)]
           ELSE UNCHANGED session
        /\ IF call.name = "DESCRIBE" THEN RecvSDP(a) ELSE UNCHANGED SDPStr
        /\ Finish(call.media, "RTSP_NO_ERROR")
        /\ UNCHANGED <<identity, auth, RtspCSeq, sockets, mediaInfoMap, live,
                       call, fds, up, toServer>>

\* Mutant of TornDown: the comparison of the SessionIDs is missing.
TornDownFirst(m) == First(live)

\* DoTEARDOWN deletes the first session of the map that has the SessionID of
\* its argument.
TornDown(m) == First({n \in live : session[n].SessionID = session[m].SessionID})

\* TEARDOWN was answered: the session is deleted, the connection closed.
AcceptTeardown ==
    /\ \E a \in Answers : CheckOK(a) /\ RtspResponse' = a
    /\ call.name = "TEARDOWN"
    /\ live' = live \ {TornDown(call.media)}
    /\ session' = [session EXCEPT ![TornDown(call.media)] = NewSession]
    /\ Close(call.fd)
    /\ Finish(call.media, "RTSP_NO_ERROR")
    /\ UNCHANGED <<identity, auth, RtspCSeq, SDPStr, mediaInfoMap, call>>

\* CheckAuth answers a challenge: the request is repeated under a new CSeq,
\* with the RTSP URI and the Authorization header the challenge asks for.
Challenged(a) ==
    /\ CheckChallenge(a) /\ Username
    /\ RtspResponse' = a
    /\ Realm' = (Realm \/ a.chal # "none")
    /\ Nonce' = (Nonce \/ a.chal = "digest")
    /\ RtspCSeq' = RtspCSeq + 1

\* Mutant of Retry: CheckAuth does not wait for the second answer.
RetryReturns ==
    \E a \in Answers :
        /\ Challenged(a) /\ Owner(call.fd) # "free"
        /\ toClient' = Unread
        /\ Write(RequestOf(a.chal))
        /\ Finish(call.media, "RTSP_NO_ERROR")
        /\ call' = [call EXCEPT !.cseq = RtspCSeq']
        /\ UNCHANGED <<identity, sockets, SDPStr, sessions, fds, up>>

Retry ==
    \E a \in Answers :
        /\ Challenged(a) /\ Owner(call.fd) # "free"
        /\ toClient' = Unread
        /\ Write(RequestOf(a.chal))
        /\ pc' = "authwait" /\ call' = [call EXCEPT !.cseq = RtspCSeq']
        /\ UNCHANGED <<identity, sockets, SDPStr, sessions, todo, Err, fds, up>>

RetryFails ==
    /\ \E a \in Answers : Challenged(a)
    /\ Unwritable
    /\ Close(call.fd)
    /\ CloseAgain("RTSP_RESPONSE_401")
    /\ UNCHANGED <<identity, SDPStr, sessions>>

\* Mutant of Refused: the connection is left open.
RefusedKeepsConnection ==
    /\ \E a \in Answers : CheckError(a) /\ RtspResponse' = a
    /\ toClient' = Unread
    /\ Finish(call.media, "RTSP_RESPONSE_401")
    /\ UNCHANGED <<identity, auth, RtspCSeq, sockets, SDPStr, sessions, call,
                   fds, up, toServer>>

\* No user name to answer with, or the repeated request was not answered 200.
Refused ==
    /\ \E a \in Answers : CheckError(a) /\ RtspResponse' = a
    /\ Close(call.fd)
    /\ Finish(call.media, "RTSP_RESPONSE_401")
    /\ UNCHANGED <<identity, auth, RtspCSeq, SDPStr, sessions, call>>

\* Mutant of RecvFails: ReadLine = 0 (the server has closed) is not an error.
RecvFailsNotAtEof ==
    /\ pc \in {"wait", "authwait"} /\ Owner(ReadFd) # Carrier
    /\ RtspResponse' = NoResponse
    /\ Close(call.fd)
    /\ CloseAgain("RTSP_RECV_ERROR")
    /\ UNCHANGED <<identity, auth, RtspCSeq, SDPStr, sessions>>

\* RecvRTSP: the read failed or the server has closed the connection.
RecvFails ==
    /\ pc \in {"wait", "authwait"} /\ Unreadable
    /\ RtspResponse' = NoResponse
    /\ Close(call.fd)
    /\ IF pc = "authwait" THEN CloseAgain("RTSP_RESPONSE_401")
       ELSE IF call.name = "TEARDOWN" THEN CloseAgain("RTSP_RECV_ERROR")
       ELSE Finish(call.media, "RTSP_RECV_ERROR") /\ UNCHANGED call
    /\ UNCHANGED <<identity, auth, RtspCSeq, SDPStr, sessions>>

\* The second Close(Sockfd) of an error path.
Reclose ==
    /\ pc = "reclose"
    /\ Close(call.fd)
    /\ Finish(call.media, call.err)
    /\ UNCHANGED <<identity, auth, RtspCSeq, RtspResponse, SDPStr, sessions, call>>

-----------------------------------------------------------------------------
(* The server and the rest of the process *)

\* The server (external) reads a whole request and answers it; it waits for
\* the end of an unended one.
ServerReplies ==
    /\ up /\ toServer # <<>> /\ Head(toServer).ended
    /\ \E code \in Codes :
       \E chal \in IF code = "401" THEN Challenges ELSE {"none"},
          sid \in IF code = "200" /\ Head(toServer).name = "SETUP"
                 THEN SessionIDs ELSE {""},
          timeout \in IF code = "200" /\ Head(toServer).name = "SETUP"
                     THEN Timeouts ELSE {-1},
          sdp \in IF code = "200" /\ Head(toServer).name = "DESCRIBE"
                 THEN SUBSET MediaTypes ELSE {{}} :
         toClient' = Append(toClient,
                       [cseq |-> Head(toServer).cseq, code |-> code, chal |-> chal,
                        sid |-> sid, timeout |-> timeout, sdp |-> sdp])
    /\ toServer' = Tail(toServer)
    /\ UNCHANGED <<identity, auth, RtspCSeq, sockets, RtspResponse, SDPStr,
                   sessions, control, fds, up>>

\* It may close the connection (in a tunnel both of them) at any time.
ServerCloses ==
    /\ up /\ up' = FALSE /\ toServer' = <<>>
    /\ UNCHANGED <<identity, auth, RtspCSeq, sockets, RtspResponse, SDPStr,
                   sessions, control, fds, toClient>>

\* Another thread, or a library, opens and closes descriptors of its own.
OtherOpens ==
    /\ \E f \in Fd : Lowest(f) /\ fds' = [fds EXCEPT ![f] = "other"]
    /\ UNCHANGED <<identity, auth, RtspCSeq, sockets, RtspResponse, SDPStr,
                   sessions, control, up, toServer, toClient>>

OtherCloses ==
    /\ \E f \in Fd : fds[f] = "other" /\ fds' = [fds EXCEPT ![f] = "free"]
    /\ UNCHANGED <<identity, auth, RtspCSeq, sockets, RtspResponse, SDPStr,
                   sessions, control, up, toServer, toClient>>

-----------------------------------------------------------------------------
Application ==
    \/ \E uri \in {"plain", "userpwd"} : SetURI(uri)
    \/ SetUsername
    \/ \E name \in PlainCommands, uri \in {"", "plain", "userpwd"} : DoPlain(name, uri)
    \/ \E name \in HttpCommands : DoHttp(name)
    \/ \E name \in SessionCommands, m \in MediaTypes : DoOne(name, m)
    \/ \E name \in SessionCommands : DoAll(name)
    \/ ParseSDP

Client ==
    \/ NoMediaSession \/ ReuseConnection \/ OpenConnection \/ ConnectFails
    \/ NoPortAvailable \/ SendRequest \/ SendFails
    \/ Accept \/ AcceptTeardown \/ Retry \/ RetryFails \/ Refused
    \/ RecvFails \/ Reclose

Environment == ServerReplies \/ ServerCloses \/ OtherOpens \/ OtherCloses

Next == Application \/ Client \/ Environment

Spec == Init /\ [][Next]_vars

\* The thread that issued the command runs on, unless it reads a descriptor of
\* somebody else, from which nothing need ever come; and the server answers
\* every complete request it has received.
FairSpec == Spec /\ WF_vars(~Blocked /\ Client) /\ WF_vars(ServerReplies)

-----------------------------------------------------------------------------
(* Properties *)

\* RtspSockfd, when positive, is an open RTSP connection, and no connection
\* the client opened is forgotten: reconnects, error paths and the second
\* Close of a failed TEARDOWN neither leave RtspSockfd dangling nor leak.
OneConnection ==
    /\ RtspSockfd > 0 => Owner(RtspSockfd) = "rtsp"
    /\ \A f \in Fd : /\ fds[f] = "rtsp" => f = RtspSockfd
                     /\ fds[f] = "http" => f = RtspOverHttpDataSockfd

\* A command that failed in the exchange with the server leaves no connection
\* behind, so that the next one cannot read what is left of this exchange.
ErrorClosesConnection ==
    pc = "idle" /\ ~call.all
       /\ Err \in {"RTSP_SEND_ERROR", "RTSP_RECV_ERROR", "RTSP_RESPONSE_401"}
    => RtspSockfd = -1 /\ toClient = <<>>

\* When a command that waits for its answer returns RTSP_NO_ERROR, GetResponse
\* is the answer to the request that command sent last: no answer of an
\* earlier command, of an earlier connection or to the request that was
\* challenged is taken for it (the client never compares CSeq).  In a tunnel it
\* may instead be text that no server sent, read from standard input or from a
\* reused RtspOverHttpDataSockfd; without one that cannot happen.
AnswersOwnRequest ==
    pc = "idle" /\ call.fd # -1 /\ call.name # "POST" /\ ~call.no_response
       /\ Err = "RTSP_NO_ERROR"
    => RtspResponse.cseq = call.cseq \/ (Tunnel /\ RtspResponse.cseq = Foreign)

\* The client releases a descriptor of another owner only by the second Close
\* of an error path, or through RtspOverHttpDataSockfd, which Close does not
\* reset.
ClosesOwnDescriptors ==
    [][\A f \in Fd :
          fds[f] = "other" /\ fds'[f] # "other" =>
             \/ OtherCloses
             \/ pc = "reclose" /\ f = call.fd
             \/ f = RtspOverHttpDataSockfd]_vars

\* DoTEARDOWN of a session whose SessionID no other session has removes that
\* session and no other.
TeardownUniqueSession ==
    [][pc # "idle" /\ live' # live
         /\ (\A n \in live \ {call.media} :
               session[n].SessionID # session[call.media].SessionID)
       => live' = live \ {call.media}]_vars

\* DoTEARDOWN(media) for a session that has been set up removes the session
\* it names.
TeardownNamedSession ==
    [][pc # "idle" /\ live' # live /\ session[call.media].SessionID # ""
       => live' = live \ {call.media}]_vars

\* DoTEARDOWN() that returns RTSP_NO_ERROR has torn down all the sessions.
TeardownAllSessions ==
    [][call.name = "TEARDOWN" /\ call.all /\ pc # "idle" /\ pc' = "idle"
         /\ Err' = "RTSP_NO_ERROR"
       => live' = {}]_vars

\* Every command returns, whatever the server answers and whether or not it
\* challenges each request, as long as it answers the complete requests; or it
\* comes to read a descriptor of somebody else, which has no time-out.
CommandReturns == pc # "idle" ~> (pc = "idle" \/ Blocked)

=============================================================================
