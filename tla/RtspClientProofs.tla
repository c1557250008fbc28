-------------------------- MODULE RtspClientProofs --------------------------
(***************************************************************************)
(* Proofs about RtspClient for any set of medias, commands and answers,    *)
(* any number of descriptors and any number of requests.                   *)
(***************************************************************************)
EXTENDS RtspClient, SequenceTheorems, TLAPS

USE MediaTypesAssumption, BoundsAssumption, ModeAssumption, CommandsAssumption,
    ServerAssumption

AnyName == SessionCommands \cup PlainCommands \cup HttpCommands

\* While a command runs, call is that command: requests carry its name.
InCall == pc # "idle" => call.name \in AnyName

-----------------------------------------------------------------------------
(* The helpers *)

\* Every non-empty set of keys has a first one.
LEMMA FirstIn ==
    ASSUME NEW S \in SUBSET {"none", "application", "audio", "video"}, S # {}
    PROVE  First(S) \in S
  <1>1. \E m \in S : \A n \in S : Rank[m] <= Rank[n]
    BY DEF Rank
  <1> QED BY <1>1 DEF First

LEMMA FinishTypes ==
    ASSUME TypeOK, NEW m, NEW e \in Errors, Finish(m, e)
    PROVE  /\ pc' \in {"idle", "start"} /\ todo' \in SUBSET Media
           /\ Err' \in Errors
  BY DEF TypeOK, Finish

LEMMA CloseTypes ==
    ASSUME TypeOK, NEW sockfd, Close(sockfd)
    PROVE  /\ fds' \in [Fd -> Owners] /\ RtspSockfd' = -1
           /\ RtspOverHttpDataSockfd' = RtspOverHttpDataSockfd
           /\ up' = FALSE /\ toServer' = <<>> /\ toClient' = <<>>
  BY DEF TypeOK, Close, Owners

LEMMA CloseAgainTypes ==
    ASSUME TypeOK, NEW e \in Errors, CloseAgain(e)
    PROVE  pc' = "reclose" /\ call' \in Call /\ todo' = todo /\ Err' = Err
  BY DEF TypeOK, CloseAgain, Call

LEMMA ReplyType == NoResponse \in Reply
  BY DEF NoResponse, Reply

LEMMA CallType == NoCall \in Call
  BY DEF NoCall, Call, Media, Errors

LEMMA NewSessionType == NewSession \in Session
  BY DEF NewSession, Session

LEMMA InitType == Init => TypeOK
  <1> SUFFICES ASSUME Init PROVE TypeOK
    OBVIOUS
  <1>2. session \in [MediaTypes -> Session]
    BY NewSessionType DEF Init
  <1>3. RtspResponse \in Reply /\ call \in Call
    BY ReplyType, CallType DEF Init
  <1>4. fds \in [Fd -> Owners] /\ Err \in Errors
    BY DEF Init, Owners, Errors
  <1>5. toServer \in Seq(Request) /\ toClient \in Seq(Reply)
    BY EmptySeq DEF Init
  <1>6. Username \in BOOLEAN /\ Realm \in BOOLEAN /\ Nonce \in BOOLEAN /\ up \in BOOLEAN
    BY Zenon DEF Init
  <1>7. /\ RtspSockfd \in Fd \cup {-1} /\ RtspOverHttpDataSockfd \in Fd \cup {-1, 0}
        /\ RtspCSeq \in Nat
    BY DEF Init
  <1> QED BY <1>2, <1>3, <1>4, <1>5, <1>6, <1>7 DEF Init, TypeOK

-----------------------------------------------------------------------------
(* Type correctness, one lemma per group of actions *)

\* What the application calls.
LEMMA EnterType ==
    ASSUME TypeOK, NEW name \in AnyName, NEW T \in SUBSET Media, NEW all \in BOOLEAN,
           NEW tcp \in BOOLEAN, NEW noresp \in BOOLEAN,
           Enter(name, T, all, tcp, noresp),
           RtspURI' \in {"", "plain", "userpwd"}, Username' \in BOOLEAN
    PROVE  TypeOK'
  <1>1. call' \in Call
    BY DEF Enter, NoCall, Call, Media, Errors, AnyName
  <1>2. Err' \in Errors /\ todo' \in SUBSET Media /\ pc' \in {"idle", "start"}
    BY DEF Enter, Errors
  <1> QED BY <1>1, <1>2 DEF Enter, TypeOK, auth, sockets, sessions, network

LEMMA ApplicationType ==
    ASSUME TypeOK, Application PROVE TypeOK'
  <1>1. ASSUME NEW uri \in {"plain", "userpwd"}, SetURI(uri) PROVE TypeOK'
    <2>1. Username' \in BOOLEAN BY <1>1, Zenon DEF SetURI, TypeOK
    <2> QED BY <1>1, <2>1 DEF SetURI, TypeOK, auth, sockets, sessions, control, network
  <1>2. CASE SetUsername
    <2>1. Username' \in BOOLEAN BY <1>2, Zenon DEF SetUsername, TypeOK
    <2> QED BY <1>2, <2>1 DEF SetUsername, TypeOK, auth, sockets, sessions, control, network
  <1>3. ASSUME NEW name \in PlainCommands, NEW uri \in {"", "plain", "userpwd"},
               DoPlain(name, uri)
        PROVE TypeOK'
    <2>1. Username' \in BOOLEAN BY <1>3, Zenon DEF DoPlain, TypeOK
    <2>2. RtspURI' \in {"", "plain", "userpwd"} BY <1>3 DEF DoPlain, TypeOK
    <2>3. PICK noresp \in BOOLEAN : Enter(name, {"none"}, FALSE, FALSE, noresp)
      BY <1>3 DEF DoPlain
    <2> QED BY <2>1, <2>2, <2>3, EnterType DEF AnyName, Media
  <1>4. ASSUME NEW name \in HttpCommands, DoHttp(name) PROVE TypeOK'
    BY <1>4, EnterType DEF DoHttp, AnyName, Media, identity, TypeOK
  <1>5. ASSUME NEW name \in SessionCommands, NEW m \in MediaTypes, DoOne(name, m)
        PROVE TypeOK'
    <2>1. PICK tcp \in BOOLEAN, noresp \in BOOLEAN : Enter(name, {m}, FALSE, tcp, noresp)
      BY <1>5 DEF DoOne
    <2>2. RtspURI' \in {"", "plain", "userpwd"} /\ Username' \in BOOLEAN
      BY <1>5 DEF DoOne, TypeOK, identity
    <2> QED BY <2>1, <2>2, EnterType DEF AnyName, Media
  <1>6. ASSUME NEW name \in SessionCommands, DoAll(name) PROVE TypeOK'
    <2> DEFINE T == IF name = "TEARDOWN" THEN {"audio", "video"} ELSE live
    <2>1. T \in SUBSET Media /\ Enter(name, T, TRUE, FALSE, FALSE)
      BY <1>6 DEF DoAll, Media, TypeOK
    <2>2. RtspURI' \in {"", "plain", "userpwd"} /\ Username' \in BOOLEAN
      BY <1>6 DEF DoAll, TypeOK, identity
    <2> HIDE DEF T
    <2> QED BY <2>1, <2>2, EnterType DEF AnyName
  <1>7. CASE ParseSDP
    <2>1. mediaInfoMap' \in SUBSET MediaTypes /\ live' \in SUBSET MediaTypes
      BY <1>7 DEF ParseSDP, TypeOK
    <2>2. session' \in [MediaTypes -> Session]
      <3>1. \A r \in {0, 1} : [NewSession EXCEPT !.TimeRate = r] \in Session
        BY NewSessionType DEF Session
      <3> QED BY <1>7, <3>1, ZenonT(60) DEF ParseSDP, TypeOK
    <2> QED BY <1>7, <2>1, <2>2
            DEF ParseSDP, TypeOK, identity, auth, sockets, control, network
  <1> QED BY <1>1, <1>2, <1>3, <1>4, <1>5, <1>6, <1>7 DEF Application

\* Connecting and sending.
LEMMA RequestType ==
    ASSUME TypeOK, call.name \in AnyName, RtspCSeq' \in Nat,
           NEW a \in {"none", "digest", "basic"}
    PROVE  RequestOf(a) \in Request
  BY DEF RequestOf, Request, AnyName

LEMMA WriteType ==
    ASSUME TypeOK, NEW r \in Request, Write(r)
    PROVE  toServer' \in Seq(Request)
  <1>1. toServer \in Seq(Request) BY DEF TypeOK
  <1>2. Append(toServer, r) \in Seq(Request) BY <1>1
  <1>3. ASSUME toServer # <<>>
        PROVE [toServer EXCEPT ![Len(toServer)].ended = r.ended] \in Seq(Request)
    <2>1. Len(toServer) \in 1 .. Len(toServer) BY <1>1, <1>3, EmptySeq
    <2>2. toServer[Len(toServer)] \in Request BY <1>1, <2>1, ElementOfSeq
    <2>3. [toServer[Len(toServer)] EXCEPT !.ended = r.ended] \in Request
      BY <2>2 DEF Request
    <2> QED BY <1>1, <2>1, <2>3, ExceptSeq
  <1> QED BY <1>1, <1>2, <1>3 DEF Write, Deliver

LEMMA CSeqType ==
    ASSUME TypeOK, NextCSeq PROVE RtspCSeq' \in Nat
  <1>1. RtspCSeq \in Nat BY DEF TypeOK
  <1> QED BY <1>1 DEF NextCSeq

LEMMA Descriptors ==
    ASSUME TypeOK
    PROVE  /\ RtspSockfd \in Fd \cup {-1} /\ RtspOverHttpDataSockfd \in Fd \cup {-1, 0}
           /\ call.fd \in Fd \cup {-1} /\ Fd \subseteq Int
  <1>1. RtspSockfd \in Fd \cup {-1} /\ RtspOverHttpDataSockfd \in Fd \cup {-1, 0}
    BY DEF TypeOK
  <1>2. call.fd \in Fd \cup {-1} BY DEF TypeOK, Call
  <1>3. Fd \subseteq Int BY DEF Fd
  <1> QED BY <1>1, <1>2, <1>3

LEMMA SendType ==
    ASSUME TypeOK, InCall,
           NoMediaSession \/ ReuseConnection \/ OpenConnection \/ ConnectFails
           \/ NoPortAvailable \/ SendRequest \/ SendFails
    PROVE  TypeOK'
  <1>1. CASE NoMediaSession
    <2>1. PICK m \in Media : Finish(m, "RTSP_INVALID_MEDIA_SESSION")
      BY <1>1 DEF NoMediaSession
    <2>2. /\ pc' \in {"idle", "start"} /\ todo' \in SUBSET Media /\ Err' \in Errors
      BY <2>1, FinishTypes DEF Errors
    <2> QED BY <1>1, <2>2 DEF NoMediaSession, TypeOK, identity, auth, sockets, sessions, network
  <1>2. CASE ReuseConnection
    <2>1. PICK m \in Media : /\ Cached > 0 /\ pc' = "send"
                             /\ call' = [call EXCEPT !.media = m, !.fd = Cached]
      BY <1>2 DEF ReuseConnection
    <2>2. Cached \in Fd BY <2>1, Descriptors DEF Cached
    <2>3. call' \in Call BY <2>1, <2>2 DEF TypeOK, Call
    <2> QED BY <1>2, <2>1, <2>3
            DEF ReuseConnection, TypeOK, identity, auth, sockets, sessions, network
  <1>3. CASE OpenConnection
    <2>1. PICK m \in Media, f \in Fd :
             /\ fds' = [fds EXCEPT ![f] = IF call.name = "GET" THEN "http" ELSE "rtsp"]
             /\ SetCached(f) /\ pc' = "send"
             /\ call' = [call EXCEPT !.media = m, !.fd = f]
             /\ up' = (up \/ Carrier = IF call.name = "GET" THEN "http" ELSE "rtsp")
      BY <1>3 DEF OpenConnection
    <2>2. call' \in Call BY <2>1 DEF TypeOK, Call
    <2>3. fds' \in [Fd -> Owners] BY <2>1 DEF TypeOK, Owners
    <2>4. RtspSockfd' \in Fd \cup {-1} /\ RtspOverHttpDataSockfd' \in Fd \cup {-1, 0}
      BY <2>1 DEF SetCached, TypeOK
    <2>5. up' \in BOOLEAN BY <2>1, Zenon
    <2> QED BY <1>3, <2>1, <2>2, <2>3, <2>4, <2>5
            DEF OpenConnection, TypeOK, identity, auth, sessions
  <1>4. CASE ConnectFails
    <2>1. PICK m \in Media : SetCached(-1) /\ Finish(m, "RTSP_INVALID_URI")
      BY <1>4 DEF ConnectFails
    <2>2. /\ pc' \in {"idle", "start"} /\ todo' \in SUBSET Media /\ Err' \in Errors
      BY <2>1, FinishTypes DEF Errors
    <2>3. RtspSockfd' \in Fd \cup {-1} /\ RtspOverHttpDataSockfd' \in Fd \cup {-1, 0}
      BY <2>1 DEF SetCached, TypeOK
    <2> QED BY <1>4, <2>2, <2>3
            DEF ConnectFails, TypeOK, identity, auth, sessions, network
  <1>5. CASE NoPortAvailable
    <2>1. /\ pc' \in {"idle", "start"} /\ todo' \in SUBSET Media /\ Err' \in Errors
      BY <1>5, FinishTypes DEF NoPortAvailable, Errors
    <2> QED BY <1>5, <2>1
            DEF NoPortAvailable, TypeOK, identity, auth, sockets, sessions, network
  <1>6. CASE SendRequest
    <2>1. RtspCSeq' \in Nat BY <1>6, CSeqType DEF SendRequest
    <2>2. call' \in Call BY <1>6, <2>1 DEF SendRequest, TypeOK, Call
    <2>3. /\ pc' \in {"idle", "start", "wait"} /\ todo' \in SUBSET Media /\ Err' \in Errors
      BY <1>6, FinishTypes DEF SendRequest, Errors, TypeOK
    <2>4. toServer' \in Seq(Request)
      <3>1. CASE call.name = "POST" BY <1>6, <3>1 DEF SendRequest, TypeOK
      <3>2. CASE call.name # "POST"
        <4>1. Authorization \in {"none", "digest", "basic"} BY DEF Authorization
        <4>2. call.name \in AnyName BY <1>6 DEF SendRequest, InCall
        <4>3. RequestOf(Authorization) \in Request BY <2>1, <4>1, <4>2, RequestType
        <4> QED BY <1>6, <3>2, <4>3, WriteType DEF SendRequest
      <3> QED BY <3>1, <3>2
    <2> QED BY <1>6, <2>1, <2>2, <2>3, <2>4
            DEF SendRequest, TypeOK, identity, auth, sockets, sessions
  <1>7. CASE SendFails
    <2>1. RtspCSeq' \in Nat BY <1>7, CSeqType DEF SendFails
    <2>2. /\ pc' \in {"idle", "start", "reclose"} /\ todo' \in SUBSET Media
          /\ Err' \in Errors /\ call' \in Call
      BY <1>7, FinishTypes, CloseAgainTypes DEF SendFails, Errors, TypeOK
    <2> QED BY <1>7, <2>1, <2>2, CloseTypes, EmptySeq
            DEF SendFails, TypeOK, identity, auth, sessions
  <1> QED BY <1>1, <1>2, <1>3, <1>4, <1>5, <1>6, <1>7

\* The answer.
LEMMA ForeignType == \A a \in ForeignReplies : a \in Reply /\ a.cseq = Foreign
  <1>1. Codes \cup {"other"} \subseteq {"", "200", "401", "40x", "other"} OBVIOUS
  <1>2. Challenges \cup {"none"} \subseteq {"digest", "basic", "none"} OBVIOUS
  <1>3. Timeouts \cup {-1} \subseteq Int OBVIOUS
  <1> QED BY <1>1, <1>2, <1>3 DEF ForeignReplies, Reply, Foreign

LEMMA AnswerType ==
    ASSUME TypeOK, NEW a \in Answers
    PROVE  a \in Reply /\ Unread \in Seq(Reply)
  <1>1. toClient \in Seq(Reply) BY DEF TypeOK
  <1>2. CASE Owner(ReadFd) = Carrier
    <2>1. toClient # <<>> /\ a = Head(toClient) BY <1>2 DEF Answers
    <2> QED BY <1>1, <1>2, <2>1, HeadTailProperties DEF Unread
  <1>3. CASE Owner(ReadFd) # Carrier
    <2>1. a \in ForeignReplies BY <1>3 DEF Answers
    <2> QED BY <1>1, <1>3, <2>1, ForeignType DEF Unread
  <1> QED BY <1>2, <1>3

LEMMA SetUpSessionType ==
    ASSUME TypeOK, NEW s \in Session, NEW r \in Reply
    PROVE  SetUpSession(s, r) \in Session
  <1> DEFINE t == [s EXCEPT !.SessionID = r.sid, !.Timeout = r.timeout]
             sock == IF call.rtp_over_tcp THEN call.fd ELSE RtspOverHttpDataSockfd
  <1>1. t \in Session
    BY DEF Session, Reply
  <1>2. sock \in Int
    BY Descriptors
  <1>3. RTP_SetUp(t, sock) \in Session
    <2> HIDE DEF t, sock
    <2>1. \A k \in Int, i \in {"udp", "tcp"} :
            [t EXCEPT !.RTPInterface = i, !.TunnellingSock = k] \in Session
      BY <1>1 DEF Session
    <2>2. -1 \in Int OBVIOUS
    <2> QED BY <1>1, <1>2, <2>1, <2>2 DEF RTP_SetUp
  <1> QED BY <1>3 DEF SetUpSession

LEMMA AnswerStepsType ==
    ASSUME TypeOK, InCall,
           Accept \/ AcceptTeardown \/ Retry \/ RetryFails \/ Refused \/ RecvFails
           \/ Reclose
    PROVE  TypeOK'
  <1>1. CASE Accept
    <2>1. /\ pc' \in {"idle", "start"} /\ todo' \in SUBSET Media /\ Err' \in Errors
      BY <1>1, FinishTypes DEF Accept, Errors
    <2> PICK a \in Answers :
            /\ RtspResponse' = a /\ toClient' = Unread
            /\ IF call.name = "SETUP"
               THEN session' = [session EXCEPT ![call.media] = SetUpSession(@, a)]
               ELSE UNCHANGED session
            /\ IF call.name = "DESCRIBE" THEN RecvSDP(a) ELSE UNCHANGED SDPStr
      BY <1>1 DEF Accept
    <2>2. a \in Reply /\ Unread \in Seq(Reply)
      BY AnswerType
    <2>3. session' \in [MediaTypes -> Session]
      <3>1. session \in [MediaTypes -> Session] BY DEF TypeOK
      <3>2. \A m \in MediaTypes : SetUpSession(session[m], a) \in Session
        BY <2>2, <3>1, SetUpSessionType
      <3> QED BY <3>1, <3>2
    <2>4. SDPStr' \in SUBSET MediaTypes
      BY <2>2 DEF RecvSDP, TypeOK, Reply
    <2>5. UNCHANGED <<identity, auth, RtspCSeq, sockets, mediaInfoMap, live, call, fds, up,
                      toServer>>
      BY <1>1 DEF Accept
    <2> QED BY <2>1, <2>2, <2>3, <2>4, <2>5 DEF TypeOK, identity, auth, sockets
  <1>2. CASE AcceptTeardown
    <2>1. /\ pc' \in {"idle", "start"} /\ todo' \in SUBSET Media /\ Err' \in Errors
      BY <1>2, FinishTypes DEF AcceptTeardown, Errors
    <2>2. RtspResponse' \in Reply
      BY <1>2, AnswerType DEF AcceptTeardown
    <2>3. session' \in [MediaTypes -> Session] /\ live' \in SUBSET MediaTypes
      BY <1>2, NewSessionType DEF AcceptTeardown, TypeOK
    <2> QED BY <1>2, <2>1, <2>2, <2>3, CloseTypes, EmptySeq
            DEF AcceptTeardown, TypeOK, identity, auth
  <1>3. ASSUME NEW a \in Answers, Challenged(a)
        PROVE /\ RtspResponse' \in Reply /\ Realm' \in BOOLEAN /\ Nonce' \in BOOLEAN
              /\ RtspCSeq' \in Nat
    <2>1. RtspResponse' \in Reply BY <1>3, AnswerType DEF Challenged
    <2>2. Realm' \in BOOLEAN /\ Nonce' \in BOOLEAN BY <1>3, Zenon DEF Challenged
    <2>3. RtspCSeq' \in Nat
      <3>1. RtspCSeq \in Nat BY DEF TypeOK
      <3> QED BY <1>3, <3>1 DEF Challenged
    <2> QED BY <2>1, <2>2, <2>3
  <1>4. CASE Retry
    <2>0. PICK a \in Answers :
             /\ Challenged(a) /\ toClient' = Unread /\ Write(RequestOf(a.chal))
             /\ pc' = "authwait" /\ call' = [call EXCEPT !.cseq = RtspCSeq']
             /\ UNCHANGED <<identity, sockets, SDPStr, sessions, todo, Err, fds, up>>
      BY <1>4 DEF Retry
    <2>1. pc = "wait" BY <2>0 DEF Challenged, CheckChallenge
    <2>2. a \in Reply /\ Unread \in Seq(Reply) BY AnswerType
    <2>c. /\ RtspResponse' \in Reply /\ Realm' \in BOOLEAN /\ Nonce' \in BOOLEAN
          /\ RtspCSeq' \in Nat
      BY <1>3, <2>0
    <2>3. toServer' \in Seq(Request)
      <3>1. RequestOf(a.chal) \in Request
        BY <2>c, <2>1, <2>2, RequestType DEF InCall, Reply
      <3> QED BY <2>0, <3>1, WriteType
    <2>4. call' \in Call BY <2>0, <2>c DEF TypeOK, Call
    <2> QED BY <2>0, <2>c, <2>2, <2>3, <2>4 DEF TypeOK, identity, sockets, sessions
  <1>5. CASE RetryFails
    <2>1. pc' = "reclose" /\ call' \in Call /\ todo' = todo /\ Err' = Err
      BY <1>5, CloseAgainTypes DEF RetryFails, Errors
    <2>2. PICK a \in Answers : Challenged(a) BY <1>5 DEF RetryFails
    <2> QED BY <1>3, <1>5, <2>2, <2>1, CloseTypes, EmptySeq
            DEF RetryFails, TypeOK, identity, sessions
  <1>6. CASE Refused
    <2>1. /\ pc' \in {"idle", "start"} /\ todo' \in SUBSET Media /\ Err' \in Errors
      BY <1>6, FinishTypes DEF Refused, Errors
    <2>2. RtspResponse' \in Reply
      BY <1>6, AnswerType DEF Refused
    <2> QED BY <1>6, <2>1, <2>2, CloseTypes, EmptySeq
            DEF Refused, TypeOK, identity, auth, sessions
  <1>7. CASE RecvFails
    <2>1. /\ pc' \in {"idle", "start", "reclose"} /\ todo' \in SUBSET Media
          /\ Err' \in Errors /\ call' \in Call
      BY <1>7, FinishTypes, CloseAgainTypes DEF RecvFails, Errors, TypeOK
    <2> QED BY <1>7, <2>1, CloseTypes, EmptySeq, ReplyType
            DEF RecvFails, TypeOK, identity, auth, sessions
  <1>8. CASE Reclose
    <2>1. call.err \in Errors BY DEF TypeOK, Call
    <2>2. /\ pc' \in {"idle", "start"} /\ todo' \in SUBSET Media /\ Err' \in Errors
      BY <1>8, <2>1, FinishTypes DEF Reclose
    <2> QED BY <1>8, <2>2, CloseTypes, EmptySeq
            DEF Reclose, TypeOK, identity, auth, sessions
  <1> QED BY <1>1, <1>2, <1>4, <1>5, <1>6, <1>7, <1>8

\* The server and the rest of the process.
LEMMA EnvironmentType ==
    ASSUME TypeOK, Environment PROVE TypeOK'
  <1>1. CASE ServerReplies
    <2>1. Head(toServer) \in Request /\ Tail(toServer) \in Seq(Request)
      BY <1>1, HeadTailProperties DEF ServerReplies, TypeOK
    <2>2. toClient' \in Seq(Reply)
      <3>1. toClient \in Seq(Reply) BY DEF TypeOK
      <3>2. PICK r \in Reply : toClient' = Append(toClient, r)
        <4>1. -1 \in Int OBVIOUS
        <4> QED BY <1>1, <2>1, <4>1, ZenonT(60) DEF ServerReplies, Reply, Request
      <3> QED BY <3>1, <3>2
    <2> QED BY <1>1, <2>1, <2>2
            DEF ServerReplies, TypeOK, identity, auth, sockets, sessions, control
  <1>2. CASE ServerCloses
    BY <1>2, EmptySeq DEF ServerCloses, TypeOK, identity, auth, sockets, sessions, control
  <1>3. CASE OtherOpens \/ OtherCloses
    <2>1. fds' \in [Fd -> Owners]
      BY <1>3 DEF OtherOpens, OtherCloses, TypeOK, Owners
    <2> QED BY <1>3, <2>1
            DEF OtherOpens, OtherCloses, TypeOK, identity, auth, sockets, sessions, control
  <1> QED BY <1>1, <1>2, <1>3 DEF Environment

-----------------------------------------------------------------------------
(* The command under way *)

\* Ways a command fails in the exchange with the server.
ExchangeErrors == {"RTSP_SEND_ERROR", "RTSP_RECV_ERROR", "RTSP_RESPONSE_401"}

\* The control state agrees with what the command serves: it has a session to
\* serve, works on the descriptor cached for it, and a command for a single
\* session has met no error yet.
CallInv ==
    /\ pc # "idle" => todo # {}
    /\ pc \in {"send", "wait", "authwait", "reclose"} => call.media \in todo
    /\ pc \in {"send", "wait", "authwait"} =>
          /\ call.fd = Cached
          /\ call.name \in SessionCommands => call.media \in live
    /\ pc = "reclose" => call.err \in ExchangeErrors
    /\ pc # "idle" /\ ~call.all => Err = "RTSP_NO_ERROR" /\ \E m \in Media : todo = {m}

Inv == TypeOK /\ InCall /\ CallInv /\ OneConnection

LEMMA MediaKeys == Media \subseteq {"none", "application", "audio", "video"}
  BY DEF Media

\* The session a command turns to is one it has still to serve.
LEMMA BeginIn ==
    ASSUME TypeOK, NEW m \in Media, Begin(m) PROVE m \in todo
  BY FirstIn, MediaKeys DEF TypeOK, Begin

\* What Finish does to a command for one session and to one for several.
LEMMA FinishCall ==
    ASSUME TypeOK, CallInv, pc # "idle", NEW m \in todo, NEW e \in Errors, Finish(m, e)
    PROVE  /\ pc' \in {"idle", "start"}
           /\ pc' = "start" => todo' # {}
           /\ ~call.all => pc' = "idle" /\ Err' = e
  BY DEF TypeOK, CallInv, Finish

\* No step of a command changes which command it is.
LEMMA SameCommand ==
    ASSUME TypeOK, Client
    PROVE  /\ pc # "idle"
           /\ call'.name = call.name /\ call'.all = call.all
           /\ call'.no_response = call.no_response
  <1> USE DEF TypeOK, Call
  <1>1. CASE NoMediaSession \/ ConnectFails \/ NoPortAvailable
    BY <1>1 DEF NoMediaSession, ConnectFails, NoPortAvailable, Served, Begin
  <1>2. CASE ReuseConnection \/ OpenConnection
    BY <1>2, ZenonT(60) DEF ReuseConnection, OpenConnection, Served, Begin
  <1>3. CASE SendRequest \/ SendFails
    BY <1>3 DEF SendRequest, SendFails, CloseAgain
  <1>4. CASE Accept \/ AcceptTeardown \/ Refused \/ Reclose
    BY <1>4 DEF Accept, AcceptTeardown, Refused, Reclose, CheckOK, CheckChallenge,
                 CheckError
  <1>5. CASE Retry \/ RetryFails \/ RecvFails
    BY <1>5 DEF Retry, RetryFails, RecvFails, Challenged, CheckChallenge, CloseAgain
  <1> QED BY <1>1, <1>2, <1>3, <1>4, <1>5 DEF Client

-----------------------------------------------------------------------------
(* The connections *)

LEMMA FdPositive == \A f \in Fd : f \in Int /\ f > 0
  BY DEF Fd

\* OneConnection in terms of the descriptor table alone.
LEMMA OneConnectionFds ==
    ASSUME TypeOK
    PROVE  OneConnection <=>
             /\ RtspSockfd \in Fd => fds[RtspSockfd] = "rtsp"
             /\ \A f \in Fd : /\ fds[f] = "rtsp" => f = RtspSockfd
                              /\ fds[f] = "http" => f = RtspOverHttpDataSockfd
  BY FdPositive, Descriptors DEF OneConnection, Owner

\* Close leaves neither a dangling RtspSockfd nor a connection of the client.
LEMMA CloseOneConnection ==
    ASSUME TypeOK, TypeOK', OneConnection, NEW sockfd, Close(sockfd)
    PROVE  OneConnection'
  <1>1. /\ RtspSockfd' = -1 /\ RtspOverHttpDataSockfd' = RtspOverHttpDataSockfd
        /\ \A f \in Fd : fds'[f] = IF f \in {sockfd, RtspSockfd, RtspOverHttpDataSockfd}
                                  THEN "free" ELSE fds[f]
    BY DEF Close
  <1>2. \A f \in Fd : /\ fds[f] = "rtsp" => f = RtspSockfd
                      /\ fds[f] = "http" => f = RtspOverHttpDataSockfd
    BY OneConnectionFds
  <1>3. \A f \in Fd : fds'[f] # "rtsp" /\ fds'[f] # "http"
    BY <1>1, <1>2
  <1>4. ~(RtspSockfd' > 0) BY <1>1
  <1> QED BY <1>3, <1>4 DEF OneConnection

LEMMA OneConnectionStep ==
    ASSUME TypeOK, TypeOK', OneConnection, Next PROVE OneConnection'
  <1>1. CASE UNCHANGED <<fds, sockets>>
    BY <1>1 DEF OneConnection, Owner, sockets
  <1>2. ASSUME NEW sockfd, Close(sockfd) PROVE OneConnection'
    BY <1>2, CloseOneConnection
  <1>3. CASE OpenConnection
    <2>1. PICK f \in Fd :
             /\ Cached <= 0 /\ Lowest(f) /\ SetCached(f)
             /\ fds' = [fds EXCEPT ![f] = IF call.name = "GET" THEN "http" ELSE "rtsp"]
      BY <1>3 DEF OpenConnection
    <2>2. /\ fds \in [Fd -> Owners] /\ fds[f] = "free"
      BY <2>1 DEF TypeOK, Lowest
    <2>3. /\ RtspSockfd \in Fd => fds[RtspSockfd] = "rtsp"
          /\ \A g \in Fd : /\ fds[g] = "rtsp" => g = RtspSockfd
                           /\ fds[g] = "http" => g = RtspOverHttpDataSockfd
      BY OneConnectionFds
    <2>4. CASE call.name = "GET"
      <3>1. /\ fds' = [fds EXCEPT ![f] = "http"] /\ RtspOverHttpDataSockfd' = f
            /\ RtspSockfd' = RtspSockfd /\ RtspOverHttpDataSockfd \notin Fd
        BY <2>1, <2>4, FdPositive DEF SetCached, Cached
      <3> QED BY <2>2, <2>3, <3>1, FdPositive, Descriptors DEF OneConnection, Owner
    <2>5. CASE call.name # "GET"
      <3>1. /\ fds' = [fds EXCEPT ![f] = "rtsp"] /\ RtspSockfd' = f
            /\ RtspOverHttpDataSockfd' = RtspOverHttpDataSockfd /\ RtspSockfd \notin Fd
        BY <2>1, <2>5, FdPositive DEF SetCached, Cached
      <3> QED BY <2>2, <2>3, <3>1, FdPositive, Descriptors DEF OneConnection, Owner
    <2> QED BY <2>4, <2>5
  <1>4. CASE ConnectFails
    <2>1. Cached <= 0 /\ SetCached(-1) /\ fds' = fds
      BY <1>4 DEF ConnectFails, network
    <2>2. \/ RtspSockfd' = RtspSockfd /\ RtspOverHttpDataSockfd \notin Fd
          \/ RtspSockfd' = -1 /\ RtspSockfd \notin Fd
             /\ RtspOverHttpDataSockfd' = RtspOverHttpDataSockfd
      BY <2>1, FdPositive DEF SetCached, Cached
    <2>3. \A g \in Fd : /\ fds[g] = "rtsp" => g = RtspSockfd
                        /\ fds[g] = "http" => g = RtspOverHttpDataSockfd
      BY OneConnectionFds
    <2> QED BY <2>1, <2>2, <2>3, FdPositive DEF OneConnection, Owner
  <1>5. CASE OtherOpens
    BY <1>5, FdPositive, OneConnectionFds, Descriptors
       DEF OtherOpens, Lowest, OneConnection, Owner, sockets, TypeOK
  <1>6. CASE OtherCloses
    BY <1>6, FdPositive, OneConnectionFds, Descriptors
       DEF OtherCloses, OneConnection, Owner, sockets, TypeOK
  <1>7. CASE Application
    BY <1>1, <1>7 DEF Application, SetURI, SetUsername, DoPlain, DoHttp, DoOne, DoAll,
                      Enter, ParseSDP, network
  <1>8. CASE Client
    BY <1>1, <1>2, <1>3, <1>4, <1>8
       DEF Client, NoMediaSession, ReuseConnection, NoPortAvailable, SendRequest, SendFails,
           Accept, AcceptTeardown, Retry, RetryFails, Refused, RecvFails, Reclose, network
  <1>9. CASE Environment
    BY <1>1, <1>5, <1>6, <1>9 DEF Environment, ServerReplies, ServerCloses
  <1> QED BY <1>7, <1>8, <1>9 DEF Next

-----------------------------------------------------------------------------
(* CallInv is inductive *)

\* A command that has finished, or goes on with its next session.
LEMMA FinishedCallInv ==
    ASSUME TypeOK, CallInv, pc # "idle", NEW m \in todo, NEW e \in Errors, Finish(m, e),
           call'.all = call.all
    PROVE  CallInv'
  <1>1. /\ pc' \in {"idle", "start"}
        /\ pc' = "start" => todo' # {}
        /\ ~call.all => pc' = "idle"
    BY FinishCall
  <1> QED BY <1>1 DEF CallInv

\* A second Close is due.
LEMMA CloseAgainCallInv ==
    ASSUME TypeOK, CallInv, pc \in {"send", "wait", "authwait"}, NEW e \in ExchangeErrors,
           CloseAgain(e)
    PROVE  CallInv'
  <1>1. /\ call'.media = call.media /\ call'.all = call.all /\ call'.err = e
        /\ pc' = "reclose" /\ todo' = todo /\ Err' = Err
    BY DEF CloseAgain, TypeOK, Call
  <1> QED BY <1>1 DEF CallInv

LEMMA ClientCallInv ==
    ASSUME TypeOK, InCall, CallInv, Client PROVE CallInv'
  <1>0. pc # "idle" /\ call'.all = call.all /\ call'.name = call.name
    BY SameCommand
  <1>e. ExchangeErrors \subseteq Errors BY DEF ExchangeErrors, Errors
  <1>1. CASE NoMediaSession \/ ConnectFails
    <2>1. PICK m \in Media, e \in Errors : Begin(m) /\ Finish(m, e)
      BY <1>1 DEF NoMediaSession, ConnectFails, Served, Errors
    <2> QED BY <1>0, <2>1, BeginIn, FinishedCallInv
  <1>2. CASE ReuseConnection \/ OpenConnection
    <2>1. PICK m \in Media : /\ Served(m) /\ pc' = "send"
                             /\ call' = [call EXCEPT !.media = m, !.fd = Cached']
      <3>1. CASE ReuseConnection
        BY <1>0, <3>1 DEF ReuseConnection, Cached, sockets
      <3>2. CASE OpenConnection
        BY <1>0, <3>2 DEF OpenConnection, Cached, SetCached
      <3> QED BY <1>2, <3>1, <3>2
    <2>2. call'.media = m /\ call'.fd = Cached' BY <2>1 DEF TypeOK, Call
    <2>3. m \in todo /\ (call.name \in SessionCommands => m \in live)
      BY <2>1, BeginIn DEF Served
    <2>4. todo' = todo /\ Err' = Err /\ live' = live
      BY <1>2 DEF ReuseConnection, OpenConnection, sessions
    <2>5. ~call'.all => Err' = "RTSP_NO_ERROR" /\ \E n \in Media : todo' = {n}
      BY <1>0, <2>4 DEF CallInv
    <2> QED BY <1>0, <2>1, <2>2, <2>3, <2>4, <2>5 DEF CallInv
  <1>3. CASE NoPortAvailable \/ Accept \/ AcceptTeardown \/ Refused \/ Reclose
    <2>1. pc \in {"send", "wait", "authwait", "reclose"}
      BY <1>3 DEF NoPortAvailable, Accept, AcceptTeardown, Refused, Reclose, CheckOK,
                  CheckChallenge, CheckError
    <2>2. call.err \in Errors BY DEF TypeOK, Call
    <2>3. PICK e \in Errors : Finish(call.media, e)
      BY <1>3, <2>2 DEF NoPortAvailable, Accept, AcceptTeardown, Refused, Reclose, Errors
    <2>4. call.media \in todo BY <2>1 DEF CallInv
    <2> QED BY <1>0, <2>3, <2>4, FinishedCallInv
  <1>4. CASE SendRequest
    <2>1. pc = "send" /\ call.media \in todo BY <1>4 DEF SendRequest, CallInv
    <2>2. CASE Finish(call.media, "RTSP_NO_ERROR")
      BY <1>0, <2>1, <2>2, FinishedCallInv DEF Errors
    <2>3. CASE pc' = "wait" /\ UNCHANGED <<todo, Err>>
      <3>1. /\ call'.media = call.media /\ call'.fd = call.fd
            /\ UNCHANGED <<live, RtspSockfd, RtspOverHttpDataSockfd>>
        BY <1>4 DEF SendRequest, TypeOK, Call, sockets, sessions
      <3> QED BY <1>0, <2>1, <2>3, <3>1 DEF CallInv, Cached
    <2> QED BY <1>4, <2>2, <2>3 DEF SendRequest
  <1>5. CASE SendFails
    <2>1. pc = "send" /\ call.media \in todo BY <1>5 DEF SendFails, CallInv
    <2>2. \/ CloseAgain("RTSP_SEND_ERROR") \/ Finish(call.media, "RTSP_SEND_ERROR")
      BY <1>5 DEF SendFails
    <2> QED BY <1>0, <1>e, <2>1, <2>2, FinishedCallInv, CloseAgainCallInv DEF ExchangeErrors
  <1>6. CASE Retry
    <2>1. /\ pc = "wait" /\ pc' = "authwait"
          /\ call'.media = call.media /\ call'.fd = call.fd
          /\ UNCHANGED <<todo, Err, live, RtspSockfd, RtspOverHttpDataSockfd>>
      BY <1>6 DEF Retry, Challenged, CheckChallenge, TypeOK, Call, sockets, sessions
    <2> QED BY <1>0, <2>1 DEF CallInv, Cached
  <1>7. CASE RetryFails
    <2>1. pc = "wait" /\ CloseAgain("RTSP_RESPONSE_401")
      BY <1>7 DEF RetryFails, Challenged, CheckChallenge
    <2> QED BY <2>1, CloseAgainCallInv DEF ExchangeErrors
  <1>8. CASE RecvFails
    <2>1. pc \in {"wait", "authwait"} /\ call.media \in todo BY <1>8 DEF RecvFails, CallInv
    <2>2. \/ CloseAgain("RTSP_RESPONSE_401") \/ CloseAgain("RTSP_RECV_ERROR")
          \/ Finish(call.media, "RTSP_RECV_ERROR")
      BY <1>8 DEF RecvFails
    <2> QED BY <1>0, <1>e, <2>1, <2>2, FinishedCallInv, CloseAgainCallInv DEF ExchangeErrors
  <1> QED BY <1>1, <1>2, <1>3, <1>4, <1>5, <1>6, <1>7, <1>8 DEF Client

\* Entry of a command.
LEMMA EnterCallInv ==
    ASSUME NEW name \in AnyName, NEW T \in SUBSET Media, NEW all \in BOOLEAN,
           NEW tcp \in BOOLEAN, NEW noresp \in BOOLEAN,
           Enter(name, T, all, tcp, noresp), all \/ \E m \in Media : T = {m}
    PROVE  CallInv' /\ InCall' /\ call'.no_response = noresp
  <1>1. call'.name = name /\ call'.all = all /\ call'.no_response = noresp
    BY CallType DEF Enter, Call
  <1>2. pc' \in {"idle", "start"} /\ todo' = T /\ (pc' = "start" => T # {})
        /\ Err' = "RTSP_NO_ERROR"
    BY DEF Enter
  <1> QED BY <1>1, <1>2 DEF CallInv, InCall

LEMMA ApplicationCallInv ==
    ASSUME TypeOK, CallInv, InCall, Application PROVE CallInv' /\ InCall'
  <1>1. CASE SetUsername \/ ParseSDP \/ \E uri \in {"plain", "userpwd"} : SetURI(uri)
    <2>1. pc = "idle" /\ UNCHANGED control
      BY <1>1 DEF SetUsername, ParseSDP, SetURI
    <2> QED BY <2>1 DEF CallInv, InCall, control
  <1>2. ASSUME NEW name \in PlainCommands, NEW uri \in {"", "plain", "userpwd"},
               DoPlain(name, uri)
        PROVE CallInv' /\ InCall'
    <2>1. PICK noresp \in BOOLEAN : Enter(name, {"none"}, FALSE, FALSE, noresp)
      BY <1>2 DEF DoPlain
    <2>2. "none" \in Media /\ name \in AnyName BY DEF Media, AnyName
    <2> QED BY <2>1, <2>2, EnterCallInv
  <1>3. ASSUME NEW name \in HttpCommands, DoHttp(name) PROVE CallInv' /\ InCall'
    <2>1. "none" \in Media /\ name \in AnyName BY DEF Media, AnyName
    <2> QED BY <1>3, <2>1, EnterCallInv DEF DoHttp
  <1>4. ASSUME NEW name \in SessionCommands, NEW m \in MediaTypes, DoOne(name, m)
        PROVE CallInv' /\ InCall'
    <2>1. PICK tcp \in BOOLEAN, noresp \in BOOLEAN : Enter(name, {m}, FALSE, tcp, noresp)
      BY <1>4 DEF DoOne
    <2>2. m \in Media /\ name \in AnyName BY DEF Media, AnyName
    <2> QED BY <2>1, <2>2, EnterCallInv
  <1>5. ASSUME NEW name \in SessionCommands, DoAll(name) PROVE CallInv' /\ InCall'
    <2> DEFINE T == IF name = "TEARDOWN" THEN {"audio", "video"} ELSE live
    <2>1. T \in SUBSET Media /\ name \in AnyName /\ Enter(name, T, TRUE, FALSE, FALSE)
      BY <1>5 DEF DoAll, Media, TypeOK, AnyName
    <2> HIDE DEF T
    <2> QED BY <2>1, EnterCallInv
  <1> QED BY <1>1, <1>2, <1>3, <1>4, <1>5 DEF Application

-----------------------------------------------------------------------------
(* The inductive invariant *)

LEMMA InitInv == Init => Inv
  <1> SUFFICES ASSUME Init PROVE Inv
    OBVIOUS
  <1>1. TypeOK BY InitType
  <1>2. InCall /\ CallInv BY DEF Init, InCall, CallInv
  <1>3. RtspSockfd = -1 /\ fds = [f \in Fd |-> "free"]
    BY DEF Init
  <1>4. OneConnection BY <1>3 DEF OneConnection
  <1> QED BY <1>1, <1>2, <1>4 DEF Inv

\* The environment touches neither the object nor the command under way.
LEMMA EnvironmentUnchanged ==
    Environment => UNCHANGED <<sockets, sessions, RtspResponse, control>>
  BY DEF Environment, ServerReplies, ServerCloses, OtherOpens, OtherCloses, sockets, sessions,
         control

LEMMA StepInv == Inv /\ [Next]_vars => Inv'
  <1> SUFFICES ASSUME Inv, [Next]_vars PROVE Inv'
    OBVIOUS
  <1>0. TypeOK /\ InCall /\ CallInv /\ OneConnection BY DEF Inv
  <1>1. CASE UNCHANGED vars
    <2>1. TypeOK' BY <1>0, <1>1 DEF vars, TypeOK
    <2>2. InCall' /\ CallInv' BY <1>0, <1>1 DEF vars, InCall, CallInv, Cached
    <2>3. OneConnection' BY <1>0, <1>1 DEF vars, OneConnection, Owner
    <2> QED BY <2>1, <2>2, <2>3 DEF Inv
  <1>2. CASE Next
    <2>1. TypeOK'
      BY <1>0, <1>2, ApplicationType, SendType, AnswerStepsType, EnvironmentType
         DEF Next, Client
    <2>2. OneConnection' BY <1>0, <1>2, <2>1, OneConnectionStep
    <2>3. CASE Application
      BY <1>0, <2>1, <2>2, <2>3, ApplicationCallInv DEF Inv
    <2>4. CASE Client
      <3>1. CallInv' BY <1>0, <2>4, ClientCallInv
      <3>2. InCall' BY <1>0, <2>4, SameCommand DEF InCall
      <3> QED BY <2>1, <2>2, <3>1, <3>2 DEF Inv
    <2>5. CASE Environment
      <3>1. CallInv' /\ InCall'
        BY <1>0, <2>5, EnvironmentUnchanged
           DEF CallInv, InCall, Cached, control, sockets, sessions
      <3> QED BY <2>1, <2>2, <3>1 DEF Inv
    <2> QED BY <1>2, <2>3, <2>4, <2>5 DEF Next
  <1> QED BY <1>1, <1>2

LEMMA Invariance == Spec => []Inv
  BY InitInv, StepInv, PTL DEF Spec

\* The members of the client, the command under way and the messages in flight
\* keep their types through every command, answer, failure and reconnect.
THEOREM ClientTypeOK == Spec => []TypeOK
  <1>1. Inv => TypeOK BY DEF Inv
  <1> QED BY <1>1, Invariance, PTL

\* However often the client reconnects, fails or closes twice, RtspSockfd never
\* dangles and no connection it opened is forgotten.
THEOREM ClientOneConnection == Spec => []OneConnection
  <1>1. Inv => OneConnection BY DEF Inv
  <1> QED BY <1>1, Invariance, PTL

-----------------------------------------------------------------------------
(* Action properties *)

\* Close is called with the cached descriptor, except by the second Close of an
\* error path, so a descriptor of another owner is lost only in the two ways the
\* property allows.
THEOREM ClientClosesOwn == Spec => ClosesOwnDescriptors
  <1> DEFINE A == \A f \in Fd :
                    fds[f] = "other" /\ fds'[f] # "other" =>
                       \/ OtherCloses
                       \/ pc = "reclose" /\ f = call.fd
                       \/ f = RtspOverHttpDataSockfd
  <1>1. Inv /\ [Next]_vars => [A]_vars
    <2> SUFFICES ASSUME Inv, Next, NEW f \in Fd, fds[f] = "other", fds'[f] # "other"
                 PROVE  \/ OtherCloses
                        \/ pc = "reclose" /\ f = call.fd
                        \/ f = RtspOverHttpDataSockfd
      OBVIOUS
    <2>0. TypeOK /\ CallInv /\ OneConnection BY DEF Inv
    <2>1. f # RtspSockfd BY <2>0, OneConnectionFds
    <2>2. fds' # fds OBVIOUS
    <2>3. ASSUME Close(call.fd), pc \in {"send", "wait", "authwait"}
          PROVE  f = RtspOverHttpDataSockfd
      <3>1. f \in {call.fd, RtspSockfd, RtspOverHttpDataSockfd}
        BY <2>3 DEF Close
      <3>2. call.fd \in {RtspSockfd, RtspOverHttpDataSockfd}
        BY <2>0, <2>3 DEF CallInv, Cached
      <3> QED BY <2>1, <3>1, <3>2
    <2>4. ASSUME Reclose PROVE f \in {call.fd, RtspOverHttpDataSockfd} /\ pc = "reclose"
      BY <2>1, <2>4 DEF Reclose, Close
    <2>5. ~OpenConnection
      BY <2>0 DEF OpenConnection, Lowest, TypeOK
    <2>6. ~OtherOpens
      BY <2>0 DEF OtherOpens, Lowest, TypeOK
    <2>7. ~Application
      BY <2>2 DEF Application, SetURI, SetUsername, DoPlain, DoHttp, DoOne, DoAll, Enter,
                  ParseSDP, network
    <2>8. CASE Client
      BY <2>2, <2>3, <2>4, <2>5, <2>8
         DEF Client, NoMediaSession, ReuseConnection, ConnectFails, NoPortAvailable,
             SendRequest, SendFails, Accept, AcceptTeardown, Retry, RetryFails, Refused,
             RecvFails, CheckOK, CheckChallenge, CheckError, Challenged, network
    <2>9. CASE Environment
      BY <2>2, <2>6, <2>9 DEF Environment, ServerReplies, ServerCloses
    <2> QED BY <2>7, <2>8, <2>9 DEF Next
  <1> QED BY <1>1, Invariance, PTL DEF Spec, ClosesOwnDescriptors

\* DoTEARDOWN of a session whose SessionID no other session has removes exactly
\* that one from the map, whatever happened to the others before.
THEOREM ClientTeardownUnique == Spec => TeardownUniqueSession
  <1> DEFINE A == pc # "idle" /\ live' # live
                    /\ (\A n \in live \ {call.media} :
                          session[n].SessionID # session[call.media].SessionID)
                  => live' = live \ {call.media}
  <1>1. Inv /\ [Next]_vars => [A]_vars
    <2> SUFFICES ASSUME Inv, Next, pc # "idle", live' # live,
                        \A n \in live \ {call.media} :
                           session[n].SessionID # session[call.media].SessionID
                 PROVE  live' = live \ {call.media}
      OBVIOUS
    <2>0. TypeOK /\ CallInv BY DEF Inv
    <2>1. ~Application
      BY DEF Application, SetURI, SetUsername, DoPlain, DoHttp, DoOne, DoAll, Enter, ParseSDP
    <2>2. ~Environment BY EnvironmentUnchanged DEF sessions
    <2>3. AcceptTeardown
      BY <2>1, <2>2
         DEF Next, Client, NoMediaSession, ReuseConnection, OpenConnection, ConnectFails,
             NoPortAvailable, SendRequest, SendFails, Accept, Retry, RetryFails, Refused,
             RecvFails, Reclose, sessions
    <2>4. call.media \in live
      BY <2>0, <2>3 DEF AcceptTeardown, CheckOK, CallInv, SessionCommands
    <2> DEFINE S == {n \in live : session[n].SessionID = session[call.media].SessionID}
    <2>5. S = {call.media} BY <2>4
    <2>6. First(S) \in S
      BY <2>0, <2>5, FirstIn DEF TypeOK
    <2>7. TornDown(call.media) = call.media BY <2>5, <2>6 DEF TornDown
    <2> QED BY <2>3, <2>7 DEF AcceptTeardown
  <1> QED BY <1>1, Invariance, PTL DEF Spec, TeardownUniqueSession

-----------------------------------------------------------------------------
(* After an error of the exchange *)

\* ErrorClosesConnection, strengthened: the server has no connection to answer
\* on either.
ErrorClosed ==
    pc = "idle" /\ ~call.all /\ Err \in ExchangeErrors
    => RtspSockfd = -1 /\ toClient = <<>> /\ ~up

\* Close leaves nothing of the exchange.
LEMMA CloseErrorClosed ==
    ASSUME NEW sockfd, Close(sockfd) PROVE ErrorClosed'
  BY DEF Close, ErrorClosed

\* A command for one session that ends with an error of another kind, or with
\* none, is not concerned.
LEMMA FinishErrorClosed ==
    ASSUME TypeOK, CallInv, pc # "idle", NEW m \in todo, NEW e \in Errors \ ExchangeErrors,
           Finish(m, e), call'.all = call.all
    PROVE  ErrorClosed'
  BY FinishCall DEF ErrorClosed

LEMMA ErrorClosedStep ==
    ASSUME Inv, ErrorClosed, [Next]_vars PROVE ErrorClosed'
  <1>0. TypeOK /\ CallInv BY DEF Inv
  <1>1. CASE UNCHANGED <<sockets, control, network>>
    BY <1>1 DEF sockets, control, network, ErrorClosed
  <1>2. CASE Application
    <2>1. \/ UNCHANGED <<sockets, control, network>>
          \/ Err' = "RTSP_NO_ERROR"
      BY <1>2 DEF Application, SetURI, SetUsername, DoPlain, DoHttp, DoOne, DoAll, Enter,
                  ParseSDP
    <2> QED BY <1>1, <2>1 DEF ErrorClosed, ExchangeErrors
  <1>3. CASE Client
    <2>0. pc # "idle" /\ call'.all = call.all BY <1>0, <1>3, SameCommand
    <2>n. "RTSP_NO_ERROR" \in Errors \ ExchangeErrors BY DEF Errors, ExchangeErrors
    <2>1. CASE NoMediaSession \/ ConnectFails
      <3>1. PICK m \in Media, e \in Errors \ ExchangeErrors : Begin(m) /\ Finish(m, e)
        BY <2>1 DEF NoMediaSession, ConnectFails, Served, Errors, ExchangeErrors
      <3> QED BY <1>0, <2>0, <3>1, BeginIn, FinishErrorClosed
    <2>2. CASE NoPortAvailable \/ Accept
      <3>1. call.media \in todo
        BY <1>0, <2>2 DEF NoPortAvailable, Accept, CheckOK, CallInv
      <3>2. PICK e \in Errors \ ExchangeErrors : Finish(call.media, e)
        BY <2>2 DEF NoPortAvailable, Accept, Errors, ExchangeErrors
      <3> QED BY <1>0, <2>0, <3>1, <3>2, FinishErrorClosed
    <2>3. CASE SendRequest
      <3>1. call.media \in todo BY <1>0, <2>3 DEF SendRequest, CallInv
      <3>2. pc' = "wait" \/ Finish(call.media, "RTSP_NO_ERROR") BY <2>3 DEF SendRequest
      <3>3. CASE pc' = "wait" BY <3>3 DEF ErrorClosed
      <3>4. CASE Finish(call.media, "RTSP_NO_ERROR")
        BY <1>0, <2>0, <2>n, <3>1, <3>4, FinishErrorClosed
      <3> QED BY <3>2, <3>3, <3>4
    <2>4. CASE ReuseConnection \/ OpenConnection \/ Retry
      BY <2>4 DEF ReuseConnection, OpenConnection, Retry, ErrorClosed
    <2>5. CASE SendFails \/ AcceptTeardown \/ RetryFails \/ Refused \/ RecvFails \/ Reclose
      BY <2>5, CloseErrorClosed
         DEF SendFails, AcceptTeardown, RetryFails, Refused, RecvFails, Reclose
    <2> QED BY <1>3, <2>1, <2>2, <2>3, <2>4, <2>5 DEF Client
  <1>4. CASE Environment
    <2>1. UNCHANGED <<sockets, control>> BY <1>4, EnvironmentUnchanged
    <2>2. \/ up
          \/ UNCHANGED <<up, toClient>>
      BY <1>4 DEF Environment, ServerReplies, ServerCloses, OtherOpens, OtherCloses
    <2> QED BY <2>1, <2>2 DEF ErrorClosed, sockets, control
  <1>5. CASE UNCHANGED vars
    BY <1>1, <1>5 DEF vars, sockets, control, network
  <1> QED BY <1>2, <1>3, <1>4, <1>5 DEF Next

\* A command for one session that failed in the exchange leaves RtspSockfd
\* closed and no answer that the next command could read.
THEOREM ClientErrorCloses == Spec => []ErrorClosesConnection
  <1>1. Init => ErrorClosed BY DEF Init, ErrorClosed, ExchangeErrors
  <1>2. Inv /\ ErrorClosed /\ [Next]_vars => ErrorClosed' BY ErrorClosedStep
  <1>3. ErrorClosed => ErrorClosesConnection
    BY DEF ErrorClosed, ErrorClosesConnection, ExchangeErrors
  <1> QED BY <1>1, <1>2, <1>3, Invariance, PTL DEF Spec

-----------------------------------------------------------------------------
(* The connection that carries the answers *)

\* HTTP requests are made for a tunnel only, a command that sends or waits has
\* a descriptor, and nothing is in flight unless the process owns the connection
\* the server answers on.
NoCarrier == \A f \in Fd : fds[f] # Carrier
Silent    == ~up /\ toServer = <<>> /\ toClient = <<>>
CarrierInv ==
    /\ pc # "idle" /\ call.name \in HttpCommands => Tunnel
    /\ pc \in {"send", "wait", "authwait"} => call.fd \in Fd
    /\ NoCarrier => Silent

\* A descriptor of somebody else is read in a tunnel only, and while the tunnel
\* has no connection.
LEMMA ForeignRead ==
    ASSUME Inv, CarrierInv, pc \in {"wait", "authwait"}, Owner(ReadFd) # Carrier
    PROVE  Tunnel /\ toServer = <<>> /\ toClient = <<>>
  <1>0. TypeOK /\ CallInv /\ OneConnection BY DEF Inv
  <1>1. call.fd = Cached /\ call.fd \in Fd BY <1>0 DEF CallInv, CarrierInv
  <1>2. CASE ~Tunnel
    <2>1. call.name # "GET" BY <1>2 DEF CarrierInv, HttpCommands
    <2>2. ReadFd = RtspSockfd /\ RtspSockfd \in Fd BY <1>1, <1>2, <2>1 DEF ReadFd, Cached
    <2>3. Owner(ReadFd) = "rtsp" BY <1>0, <2>2, OneConnectionFds DEF Owner
    <2> QED BY <1>2, <2>3 DEF Carrier
  <1>3. CASE Tunnel
    <2>1. ReadFd = RtspOverHttpDataSockfd BY <1>1, <1>3 DEF ReadFd, Cached
    <2>2. \A f \in Fd : fds[f] = "http" => f = RtspOverHttpDataSockfd
      BY <1>0, OneConnectionFds
    <2>3. NoCarrier BY <1>3, <2>1, <2>2 DEF NoCarrier, Carrier, Owner
    <2> QED BY <1>3, <2>3 DEF CarrierInv, Silent
  <1> QED BY <1>2, <1>3

LEMMA CarrierEntered ==
    ASSUME CarrierInv, Application PROVE CarrierInv'
  <1>1. CASE SetUsername \/ ParseSDP \/ \E uri \in {"plain", "userpwd"} : SetURI(uri)
    BY <1>1 DEF SetUsername, ParseSDP, SetURI, control, network, CarrierInv, NoCarrier, Silent
  <1>2. ASSUME NEW name, NEW T, NEW all, NEW tcp, NEW noresp,
               Enter(name, T, all, tcp, noresp), name \in HttpCommands => Tunnel
        PROVE  CarrierInv'
    <2>1. call'.name = name /\ pc' \in {"idle", "start"} /\ UNCHANGED network
      BY <1>2 DEF Enter, NoCall
    <2> QED BY <1>2, <2>1 DEF network, CarrierInv, NoCarrier, Silent
  <1>3. ASSUME NEW name \in PlainCommands, NEW uri, DoPlain(name, uri) PROVE CarrierInv'
    BY <1>2, <1>3 DEF DoPlain, PlainCommands, HttpCommands
  <1>4. ASSUME NEW name, DoHttp(name) PROVE CarrierInv'
    BY <1>2, <1>4 DEF DoHttp
  <1>5. ASSUME NEW name \in SessionCommands, NEW m, DoOne(name, m) PROVE CarrierInv'
    BY <1>2, <1>5 DEF DoOne, SessionCommands, HttpCommands
  <1>6. ASSUME NEW name \in SessionCommands, DoAll(name) PROVE CarrierInv'
    BY <1>2, <1>6 DEF DoAll, SessionCommands, HttpCommands
  <1> QED BY <1>1, <1>3, <1>4, <1>5, <1>6 DEF Application

LEMMA CarrierStep ==
    ASSUME Inv, CarrierInv, [Next]_vars PROVE CarrierInv'
  <1>0. TypeOK /\ CallInv BY DEF Inv
  <1>1. CASE Application BY <1>1, CarrierEntered
  <1>2. CASE Client
    <2>0. pc # "idle" /\ call'.name = call.name BY <1>0, <1>2, SameCommand
    <2>1. ASSUME NEW sockfd, Close(sockfd), pc' \notin {"send", "wait", "authwait"}
          PROVE  CarrierInv'
      BY <2>0, <2>1 DEF Close, CarrierInv, Silent
    <2>2. CASE SendFails \/ AcceptTeardown \/ RetryFails \/ Refused \/ RecvFails \/ Reclose
      <3>1. pc' \notin {"send", "wait", "authwait"}
        BY <2>2 DEF SendFails, AcceptTeardown, RetryFails, Refused, RecvFails, Reclose,
                    CloseAgain, Finish
      <3> QED BY <2>1, <2>2, <3>1
              DEF SendFails, AcceptTeardown, RetryFails, Refused, RecvFails, Reclose
    <2>3. CASE NoMediaSession \/ ConnectFails \/ NoPortAvailable
      BY <2>0, <2>3 DEF NoMediaSession, ConnectFails, NoPortAvailable, Finish, network,
                        CarrierInv, NoCarrier, Silent
    <2>4. CASE ReuseConnection
      <3>1. call'.fd \in Fd
        <4>1. PICK m \in Media : Cached > 0 /\ call' = [call EXCEPT !.media = m, !.fd = Cached]
          BY <2>4 DEF ReuseConnection
        <4>2. Cached \in Fd BY <1>0, <4>1, Descriptors DEF Cached
        <4> QED BY <1>0, <4>1, <4>2 DEF TypeOK, Call
      <3> QED BY <2>0, <2>4, <3>1
              DEF ReuseConnection, network, CarrierInv, NoCarrier, Silent
    <2>5. CASE OpenConnection
      <3> DEFINE o == IF call.name = "GET" THEN "http" ELSE "rtsp"
      <3>1. PICK m \in Media, f \in Fd :
               /\ Lowest(f) /\ fds' = [fds EXCEPT ![f] = o] /\ up' = (up \/ Carrier = o)
               /\ call' = [call EXCEPT !.media = m, !.fd = f]
               /\ UNCHANGED <<toServer, toClient>>
        BY <2>5 DEF OpenConnection
      <3>2. call'.fd \in Fd BY <1>0, <3>1 DEF TypeOK, Call
      <3>3. fds[f] = "free" /\ Carrier # "free" BY <3>1 DEF Lowest, Carrier
      <3>4. fds'[f] = o /\ \A g \in Fd \ {f} : fds'[g] = fds[g]
        BY <1>0, <3>1 DEF TypeOK
      <3>5. ASSUME NoCarrier' PROVE Silent'
        <4>1. Carrier # o BY <3>4, <3>5 DEF NoCarrier, Carrier
        <4>2. NoCarrier BY <3>3, <3>4, <3>5 DEF NoCarrier, Carrier
        <4> QED BY <3>1, <4>1, <4>2 DEF CarrierInv, Silent
      <3> QED BY <2>0, <3>2, <3>5 DEF CarrierInv
    <2>6. CASE SendRequest \/ Accept \/ Retry
      <3>1. UNCHANGED <<fds, up>> BY <2>6 DEF SendRequest, Accept, Retry
      <3>2. call.fd \in Fd /\ call'.fd = call.fd
        BY <1>0, <2>6 DEF SendRequest, Accept, Retry, Challenged, CheckOK, CheckChallenge,
                          CarrierInv, TypeOK, Call
      <3>3. ASSUME ~up, toServer = <<>>, toClient = <<>>, NoCarrier
            PROVE  toServer' = <<>> /\ toClient' = <<>>
        <4>1. CASE SendRequest BY <3>3, <4>1 DEF SendRequest, Write
        <4>2. Unread = <<>> \/ Answers = {} \/ toClient = Unread
          BY <3>3 DEF Answers, Unread
        <4>3. CASE Accept BY <3>3, <4>2, <4>3 DEF Accept
        <4>4. CASE Retry BY <3>3, <4>2, <4>4 DEF Retry, Write
        <4> QED BY <2>6, <4>1, <4>3, <4>4
      <3> QED BY <2>0, <3>1, <3>2, <3>3 DEF CarrierInv, NoCarrier, Silent, Carrier
    <2> QED BY <1>2, <2>2, <2>3, <2>4, <2>5, <2>6 DEF Client
  <1>3. CASE Environment
    <2>1. UNCHANGED control BY <1>3, EnvironmentUnchanged
    <2>2. NoCarrier' => NoCarrier
      BY <1>0, <1>3 DEF Environment, ServerReplies, ServerCloses, OtherOpens, OtherCloses,
                        Lowest, NoCarrier, Carrier, TypeOK
    <2>3. Silent => Silent'
      BY <1>3 DEF Environment, ServerReplies, ServerCloses, OtherOpens, OtherCloses, Silent
    <2> QED BY <2>1, <2>2, <2>3 DEF CarrierInv, control
  <1>4. CASE UNCHANGED vars BY <1>4 DEF vars, CarrierInv, NoCarrier, Silent
  <1> QED BY <1>1, <1>2, <1>3, <1>4 DEF Next

-----------------------------------------------------------------------------
(* Answers and requests *)

\* The one message in flight, if any, belongs to the request sent last.
InFlight ==
    \/ toServer = <<>> /\ toClient = <<>>
    \/ \E r \in Request : r.cseq = call.cseq /\ toServer = <<r>> /\ toClient = <<>>
    \/ \E r \in Reply : r.cseq = call.cseq /\ toServer = <<>> /\ toClient = <<r>>

\* Without http_tunnel_no_response a command consumes what it caused: between
\* exchanges both directions of the stream are empty.
StreamInv ==
    /\ call.no_response = FALSE
    /\ IF pc \in {"wait", "authwait"} THEN InFlight
       ELSE toServer = <<>> /\ toClient = <<>>

LEMMA CloseStream ==
    ASSUME NEW sockfd, Close(sockfd), call'.no_response = FALSE PROVE StreamInv'
  BY DEF Close, StreamInv, InFlight

\* What one write adds to an empty stream.
LEMMA WriteStream ==
    ASSUME TypeOK, InCall, pc # "idle", toServer = <<>>, toClient' = <<>>,
           NEW a \in {"none", "digest", "basic"}, RtspCSeq' \in Nat, Write(RequestOf(a)),
           call'.cseq = RtspCSeq'
    PROVE  InFlight'
  <1>0. call.name \in AnyName BY DEF InCall
  <1>1. RequestOf(a) \in Request /\ RequestOf(a).cseq = call'.cseq
    BY <1>0, RequestType DEF RequestOf
  <1>2. toServer' = <<>> \/ toServer' = <<RequestOf(a)>>
    BY DEF Write, Deliver
  <1> QED BY <1>1, <1>2 DEF InFlight

\* An answer is the one message in flight or, in a tunnel without its connection,
\* text of somebody else; either way nothing is left on the stream behind it.
LEMMA AnswerOf ==
    ASSUME Inv, CarrierInv, InFlight, pc \in {"wait", "authwait"}, NEW a \in Answers
    PROVE  /\ toServer = <<>> /\ Unread = <<>>
           /\ a.cseq = call.cseq \/ (Tunnel /\ a.cseq = Foreign)
  <1>1. CASE Owner(ReadFd) = Carrier
    <2>1. toClient # <<>> /\ a = Head(toClient) BY <1>1 DEF Answers
    <2>2. PICK r \in Reply : r.cseq = call.cseq /\ toServer = <<>> /\ toClient = <<r>>
      BY <2>1 DEF InFlight
    <2> QED BY <1>1, <2>1, <2>2 DEF Unread
  <1>2. CASE Owner(ReadFd) # Carrier
    <2>1. a.cseq = Foreign BY <1>2, ForeignType DEF Answers
    <2>2. Tunnel /\ toServer = <<>> /\ toClient = <<>> BY <1>2, ForeignRead
    <2> QED BY <1>2, <2>1, <2>2 DEF Unread
  <1> QED BY <1>1, <1>2

LEMMA StreamStep ==
    ASSUME NoResp = FALSE, Inv, Inv', CarrierInv, StreamInv, [Next]_vars PROVE StreamInv'
  <1>0. TypeOK /\ TypeOK' /\ InCall /\ CallInv BY DEF Inv
  <1>1. CASE UNCHANGED <<control, toServer, toClient>>
    BY <1>1 DEF control, StreamInv, InFlight
  <1>2. CASE Application
    <2>1. CASE SetUsername \/ ParseSDP \/ \E uri \in {"plain", "userpwd"} : SetURI(uri)
      BY <1>1, <2>1 DEF SetUsername, ParseSDP, SetURI, network
    <2>2. ASSUME NEW name, NEW T, NEW all, NEW tcp, Enter(name, T, all, tcp, FALSE)
          PROVE  StreamInv'
      <3>1. /\ pc = "idle" /\ pc' \notin {"wait", "authwait"}
            /\ UNCHANGED <<toServer, toClient>>
        BY <2>2 DEF Enter, network
      <3>2. call'.no_response = FALSE
        BY <2>2, CallType DEF Enter, Call
      <3> QED BY <3>1, <3>2 DEF StreamInv
    <2>3. ASSUME NEW name, NEW uri, DoPlain(name, uri) PROVE StreamInv'
      BY <2>2, <2>3 DEF DoPlain
    <2>4. ASSUME NEW name, DoHttp(name) PROVE StreamInv'
      BY <2>2, <2>4 DEF DoHttp
    <2>5. ASSUME NEW name, NEW m, DoOne(name, m) PROVE StreamInv'
      <3>1. PICK tcp \in {FALSE, name = "SETUP"} : Enter(name, {m}, FALSE, tcp, FALSE)
        BY <2>5 DEF DoOne
      <3> QED BY <2>2, <3>1
    <2>6. ASSUME NEW name, DoAll(name) PROVE StreamInv'
      BY <2>2, <2>6 DEF DoAll
    <2> QED BY <1>2, <2>1, <2>3, <2>4, <2>5, <2>6 DEF Application
  <1>3. CASE Client
    <2>0. pc # "idle" /\ call'.no_response = FALSE
      BY <1>0, <1>3, SameCommand DEF StreamInv
    <2>1. CASE NoMediaSession \/ ConnectFails \/ ReuseConnection \/ OpenConnection
                 \/ NoPortAvailable
      <3>1. /\ pc \notin {"wait", "authwait"} /\ pc' \notin {"wait", "authwait"}
            /\ UNCHANGED <<toServer, toClient>>
        BY <2>1 DEF NoMediaSession, ConnectFails, ReuseConnection, OpenConnection,
                    NoPortAvailable, Served, Begin, Finish, network
      <3> QED BY <2>0, <3>1 DEF StreamInv
    <2>2. CASE SendRequest
      <3>1. toServer = <<>> /\ toClient' = <<>>
        BY <2>2 DEF SendRequest, StreamInv
      <3>2. CASE call.name = "POST"
        <4>1. toServer' = <<>> /\ pc' \in {"idle", "start"}
          BY <2>2, <3>1, <3>2 DEF SendRequest, Finish
        <4> QED BY <2>0, <3>1, <4>1 DEF StreamInv
      <3>3. CASE call.name # "POST"
        <4>1. /\ Write(RequestOf(Authorization)) /\ pc' = "wait"
              /\ call'.cseq = RtspCSeq'
          BY <1>0, <2>2, <3>3 DEF SendRequest, StreamInv, TypeOK, Call
        <4>2. Authorization \in {"none", "digest", "basic"} BY DEF Authorization
        <4>3. RtspCSeq' \in Nat BY <1>0 DEF TypeOK
        <4>4. InFlight' BY <1>0, <2>0, <3>1, <4>1, <4>2, <4>3, WriteStream
        <4> QED BY <2>0, <4>1, <4>4 DEF StreamInv
      <3> QED BY <3>2, <3>3
    <2>3. CASE Accept \/ Retry
      <3>1. pc \in {"wait", "authwait"}
        BY <2>3 DEF Accept, Retry, Challenged, CheckOK, CheckChallenge
      <3>2. ASSUME NEW a \in Answers
            PROVE  toServer = <<>> /\ Unread = <<>>
        BY <1>0, <3>1, AnswerOf DEF StreamInv
      <3>3. CASE Accept
        <4>1. toServer' = <<>> /\ toClient' = <<>> BY <3>2, <3>3 DEF Accept
        <4> QED BY <2>0, <3>3, <4>1 DEF Accept, Finish, StreamInv
      <3>4. CASE Retry
        <4>0. PICK a \in Answers :
                 /\ toClient' = Unread /\ Write(RequestOf(a.chal)) /\ pc' = "authwait"
                 /\ call' = [call EXCEPT !.cseq = RtspCSeq']
          BY <3>4 DEF Retry
        <4>1. a \in Reply BY <1>0, AnswerType
        <4>2. a.chal \in {"none", "digest", "basic"} BY <4>1 DEF Reply
        <4>3. call'.cseq = RtspCSeq' BY <1>0, <4>0 DEF TypeOK, Call
        <4>4. RtspCSeq' \in Nat BY <1>0 DEF TypeOK
        <4>5. InFlight' BY <1>0, <2>0, <3>2, <4>0, <4>2, <4>3, <4>4, WriteStream
        <4> QED BY <2>0, <4>0, <4>5 DEF StreamInv
      <3> QED BY <2>3, <3>3, <3>4
    <2>4. CASE SendFails \/ AcceptTeardown \/ RetryFails \/ Refused \/ RecvFails \/ Reclose
      BY <2>0, <2>4, CloseStream
         DEF SendFails, AcceptTeardown, RetryFails, Refused, RecvFails, Reclose
    <2> QED BY <1>3, <2>1, <2>2, <2>3, <2>4 DEF Client
  <1>4. CASE Environment
    <2>1. UNCHANGED control BY <1>4, EnvironmentUnchanged
    <2>2. CASE ServerReplies
      <3>1. toServer # <<>> /\ toServer' = Tail(toServer) BY <2>2 DEF ServerReplies
      <3>2. PICK r \in Request : /\ r.cseq = call.cseq /\ toServer = <<r>>
                                 /\ toClient = <<>> /\ pc \in {"wait", "authwait"}
        BY <3>1 DEF StreamInv, InFlight
      <3>3. Head(toServer) = r /\ toServer' = <<>> BY <3>1, <3>2
      <3>4. \E c \in Reply : toClient' = Append(toClient, c) /\ c.cseq = r.cseq
        <4>1. PICK code, chal, sid, timeout, sdp :
                 toClient' = Append(toClient,
                       [cseq |-> r.cseq, code |-> code, chal |-> chal,
                        sid |-> sid, timeout |-> timeout, sdp |-> sdp])
          BY <2>2, <3>3 DEF ServerReplies
        <4> DEFINE c == [cseq |-> r.cseq, code |-> code, chal |-> chal,
                         sid |-> sid, timeout |-> timeout, sdp |-> sdp]
        <4>2. toClient' = <<c>> BY <3>2, <4>1
        <4>3. toClient' \in Seq(Reply) BY <1>0 DEF TypeOK
        <4>4. c = Head(toClient') BY <4>2
        <4>5. c \in Reply /\ c.cseq = r.cseq BY <4>2, <4>3, <4>4, HeadTailProperties
        <4> QED BY <4>1, <4>5
      <3>6. \E c \in Reply : toClient' = <<c>> /\ c.cseq = r.cseq
        BY <3>2, <3>4
      <3> QED BY <2>1, <3>2, <3>3, <3>6 DEF StreamInv, InFlight, control
    <2>3. CASE ServerCloses
      BY <2>1, <2>3 DEF ServerCloses, StreamInv, InFlight, control
    <2>4. CASE OtherOpens \/ OtherCloses
      BY <1>1, <2>1, <2>4 DEF OtherOpens, OtherCloses
    <2> QED BY <1>4, <2>2, <2>3, <2>4 DEF Environment
  <1>5. CASE UNCHANGED vars BY <1>1, <1>5 DEF vars, control
  <1> QED BY <1>2, <1>3, <1>4, <1>5 DEF Next

\* AnswersOwnRequest follows a command to its end.
LEMMA AnswerStep ==
    ASSUME NoResp = FALSE, Inv, CarrierInv, StreamInv, AnswersOwnRequest, [Next]_vars
    PROVE  AnswersOwnRequest'
  <1>0. TypeOK /\ CallInv BY DEF Inv
  <1>1. CASE UNCHANGED <<control, RtspResponse>>
    BY <1>1 DEF control, AnswersOwnRequest
  <1>2. CASE Application
    <2>1. CASE SetUsername \/ ParseSDP \/ \E uri \in {"plain", "userpwd"} : SetURI(uri)
      BY <1>1, <2>1 DEF SetUsername, ParseSDP, SetURI
    <2>2. ASSUME NEW name, NEW T, NEW all, NEW tcp, NEW noresp, Enter(name, T, all, tcp, noresp)
          PROVE  AnswersOwnRequest'
      <3>1. call'.fd = -1 BY <2>2 DEF Enter, NoCall
      <3> QED BY <3>1 DEF AnswersOwnRequest
    <2> QED BY <1>2, <2>1, <2>2 DEF Application, DoPlain, DoHttp, DoOne, DoAll
  <1>3. CASE Client
    <2>0. pc # "idle" /\ call'.name = call.name BY <1>0, <1>3, SameCommand
    <2>1. CASE pc' # "idle" \/ Err' # "RTSP_NO_ERROR" \/ call.name = "POST"
      BY <2>0, <2>1 DEF AnswersOwnRequest
    <2>2. ASSUME NEW m, NEW e, e # "RTSP_NO_ERROR", Finish(m, e)
          PROVE  AnswersOwnRequest'
      BY <2>1, <2>2 DEF Finish
    <2>3. CASE NoMediaSession \/ ConnectFails \/ NoPortAvailable \/ Refused
      BY <2>2, <2>3 DEF NoMediaSession, ConnectFails, NoPortAvailable, Refused
    <2>4. CASE Reclose
      <3>1. call.err # "RTSP_NO_ERROR"
        BY <1>0, <2>4 DEF Reclose, CallInv, ExchangeErrors
      <3> QED BY <2>2, <2>4, <3>1 DEF Reclose
    <2>5. CASE SendFails \/ RetryFails \/ RecvFails
      BY <2>1, <2>2, <2>5 DEF SendFails, RetryFails, RecvFails, CloseAgain
    <2>6. CASE ReuseConnection \/ OpenConnection \/ Retry
      BY <2>1, <2>6 DEF ReuseConnection, OpenConnection, Retry
    <2>7. CASE SendRequest
      <3>1. call.name = "POST" \/ pc' = "wait" BY <2>7 DEF SendRequest, StreamInv
      <3> QED BY <2>1, <3>1
    <2>8. CASE Accept \/ AcceptTeardown
      <3>1. /\ pc \in {"wait", "authwait"} /\ call' = call
            /\ \E a \in Answers : RtspResponse' = a
        BY <2>8 DEF Accept, AcceptTeardown, CheckOK
      <3>2. RtspResponse'.cseq = call.cseq \/ (Tunnel /\ RtspResponse'.cseq = Foreign)
        BY <3>1, AnswerOf DEF StreamInv
      <3> QED BY <3>1, <3>2 DEF AnswersOwnRequest
    <2> QED BY <1>3, <2>3, <2>4, <2>5, <2>6, <2>7, <2>8 DEF Client
  <1>4. CASE Environment
    BY <1>1, <1>4, EnvironmentUnchanged
  <1>5. CASE UNCHANGED vars BY <1>1, <1>5 DEF vars, control
  <1> QED BY <1>2, <1>3, <1>4, <1>5 DEF Next

\* Although CSeq is never compared, a command that succeeds has read the answer
\* to its own last request, through any number of reconnects and challenges, as
\* long as no command is told not to wait for its answer.  In a tunnel whose
\* connection is gone it may have read text of somebody else instead, but never
\* an answer to another request.
THEOREM ClientAnswersOwn ==
    ASSUME NoResp = FALSE PROVE Spec => []AnswersOwnRequest
  <1>1. Init => CarrierInv /\ StreamInv /\ AnswersOwnRequest
    <2> SUFFICES ASSUME Init PROVE CarrierInv /\ StreamInv /\ AnswersOwnRequest
      OBVIOUS
    <2>1. pc = "idle" /\ call = NoCall /\ toServer = <<>> /\ toClient = <<>> /\ ~up
      BY DEF Init
    <2>2. call.no_response = FALSE /\ call.fd = -1 BY <2>1 DEF NoCall
    <2> QED BY <2>1, <2>2 DEF CarrierInv, Silent, StreamInv, AnswersOwnRequest
  <1>2. Inv /\ CarrierInv /\ [Next]_vars => CarrierInv' BY CarrierStep
  <1>3. Inv /\ Inv' /\ CarrierInv /\ StreamInv /\ [Next]_vars => StreamInv'
    BY StreamStep
  <1>4. Inv /\ CarrierInv /\ StreamInv /\ AnswersOwnRequest /\ [Next]_vars
        => AnswersOwnRequest'
    BY AnswerStep
  <1> QED BY <1>1, <1>2, <1>3, <1>4, Invariance, PTL DEF Spec

-----------------------------------------------------------------------------
(* DoTEARDOWN() and the sessions it leaves *)

\* No session but the two that DoTEARDOWN() serves.
AudioVideo == MediaTypes \subseteq {"audio", "video"}

\* DoTEARDOWN() waits for every answer, serves the sessions in the order of the
\* map, and as long as nothing failed no session is left but those still to serve.
Tearing == call.name = "TEARDOWN" /\ call.all
Pending == Err = "RTSP_NO_ERROR" => live \subseteq todo
AllInv ==
    pc # "idle" /\ Tearing =>
        /\ ~call.no_response /\ Pending
        /\ pc # "start" => call.media = First(todo)

\* The first of several keys is the first of any of them that include it.
LEMMA FirstOfFewer ==
    ASSUME NEW T \in SUBSET {"none", "application", "audio", "video"},
           NEW S \in SUBSET T, First(T) \in S
    PROVE  First(S) = First(T)
  <1>1. \E m \in T : \A n \in T : Rank[m] <= Rank[n] BY DEF Rank
  <1>2. \A n \in T : Rank[First(T)] <= Rank[n] BY <1>1 DEF First
  <1>3. \E m \in S : \A n \in S : Rank[m] <= Rank[n] BY <1>2
  <1>4. First(S) \in S /\ \A n \in S : Rank[First(S)] <= Rank[n] BY <1>3 DEF First
  <1>5. Rank[First(T)] <= Rank[First(S)] /\ Rank[First(S)] <= Rank[First(T)]
    BY <1>2, <1>4
  <1>6. \A m, n \in {"none", "application", "audio", "video"} :
           Rank[m] <= Rank[n] /\ Rank[n] <= Rank[m] => m = n
    BY DEF Rank
  <1> QED BY <1>4, <1>5, <1>6

\* The answer to a TEARDOWN of the command removes the session that is served,
\* also when others have its SessionID.
LEMMA TearsNext ==
    ASSUME Inv, AllInv, Tearing, AcceptTeardown, Err = "RTSP_NO_ERROR"
    PROVE  live' = live \ {call.media} /\ Finish(call.media, "RTSP_NO_ERROR")
  <1>1. TypeOK /\ CallInv BY DEF Inv
  <1>2. pc \in {"wait", "authwait"} BY DEF AcceptTeardown, CheckOK
  <1>3. live \subseteq todo /\ call.media = First(todo) BY <1>2 DEF AllInv, Pending
  <1>4. call.media \in live BY <1>1, <1>2 DEF CallInv, Tearing, SessionCommands
  <1> DEFINE S == {n \in live : session[n].SessionID = session[call.media].SessionID}
  <1>5. todo \in SUBSET {"none", "application", "audio", "video"}
    BY <1>1, MediaKeys DEF TypeOK
  <1>6. S \in SUBSET todo /\ First(todo) \in S BY <1>3, <1>4
  <1>7. First(S) = First(todo)
    <2> HIDE DEF S
    <2> QED BY <1>5, <1>6, FirstOfFewer
  <1>8. TornDown(call.media) = call.media BY <1>3, <1>7 DEF TornDown
  <1> QED BY <1>8 DEF AcceptTeardown

\* A step of DoTEARDOWN() that ends its work on a session, or goes on with it.
LEMMA TearingStep ==
    ASSUME Inv, AllInv, Tearing, Client
    PROVE  /\ Pending'
           /\ pc' \notin {"idle", "start"} => call'.media = First(todo')
           /\ pc' = "idle" => todo' = {}
  <1>0. TypeOK /\ CallInv /\ pc # "idle" BY SameCommand DEF Inv
  <1>1. Pending /\ ~call.no_response /\ call.name = "TEARDOWN"
    BY <1>0 DEF AllInv, Tearing
  <1>2. ASSUME NEW m \in Media, NEW e \in Errors \ {"RTSP_NO_ERROR"}, Finish(m, e)
        PROVE  Pending' /\ pc' \in {"idle", "start"} /\ (pc' = "idle" => todo' = {})
    BY <1>2 DEF Finish, Pending
  <1>3. CASE NoMediaSession \/ ConnectFails
    <2>1. PICK m \in Media, e \in Errors \ {"RTSP_NO_ERROR"} : Finish(m, e)
      BY <1>3 DEF NoMediaSession, ConnectFails, Errors
    <2> QED BY <1>2, <2>1
  <1>4. CASE ReuseConnection \/ OpenConnection
    <2>1. PICK m \in Media : /\ Begin(m) /\ pc' = "send" /\ call'.media = m
                             /\ todo' = todo /\ Err' = Err /\ live' = live
      BY <1>0, <1>4 DEF ReuseConnection, OpenConnection, Served, sessions, TypeOK, Call
    <2> QED BY <1>1, <2>1 DEF Begin, Pending
  <1>5. CASE AcceptTeardown
    <2>1. Finish(call.media, "RTSP_NO_ERROR") BY <1>5 DEF AcceptTeardown
    <2>2. pc' \in {"idle", "start"} /\ (pc' = "idle" => todo' = {}) BY <2>1 DEF Finish
    <2>3. CASE Err = "RTSP_NO_ERROR"
      <3>1. live' = live \ {call.media} BY <1>5, <2>3, TearsNext
      <3> QED BY <1>1, <2>1, <2>2, <2>3, <3>1 DEF Finish, Pending
    <2>4. CASE Err # "RTSP_NO_ERROR" BY <2>1, <2>2, <2>4 DEF Finish, Pending
    <2> QED BY <2>3, <2>4
  <1>6. CASE Refused \/ Reclose
    <2>1. call.media \in Media BY <1>0 DEF TypeOK, Call
    <2>2. PICK e \in Errors \ {"RTSP_NO_ERROR"} : Finish(call.media, e)
      BY <1>0, <1>6 DEF Refused, Reclose, CallInv, Errors, ExchangeErrors
    <2> QED BY <1>2, <2>1, <2>2
  <1>7. CASE SendRequest \/ SendFails \/ Retry \/ RetryFails \/ RecvFails
    <2>1. /\ pc \in {"send", "wait", "authwait"} /\ pc' \notin {"idle", "start"}
          /\ call'.media = call.media /\ todo' = todo /\ Err' = Err /\ live' = live
      <3>1. CASE SendRequest BY <1>0, <1>1, <3>1 DEF SendRequest, sessions, TypeOK, Call
      <3>2. CASE SendFails
        BY <1>0, <1>1, <3>2 DEF SendFails, CloseAgain, sessions, TypeOK, Call
      <3>3. CASE Retry
        BY <1>0, <3>3 DEF Retry, Challenged, CheckChallenge, sessions, TypeOK, Call
      <3>4. CASE RetryFails
        BY <1>0, <3>4 DEF RetryFails, Challenged, CheckChallenge, CloseAgain, sessions,
                          TypeOK, Call
      <3>5. CASE RecvFails
        BY <1>0, <1>1, <3>5 DEF RecvFails, CloseAgain, sessions, TypeOK, Call
      <3> QED BY <1>7, <3>1, <3>2, <3>3, <3>4, <3>5
    <2>2. call.media = First(todo) BY <1>0, <2>1 DEF AllInv, Tearing
    <2> QED BY <1>1, <2>1, <2>2 DEF Pending
  <1>8. CASE NoPortAvailable \/ Accept BY <1>1, <1>8 DEF NoPortAvailable, Accept
  <1> QED BY <1>3, <1>4, <1>5, <1>6, <1>7, <1>8 DEF Client

\* Entry: every session is one that DoTEARDOWN() will serve.
LEMMA AllEntered ==
    ASSUME AudioVideo, Inv, AllInv, Application PROVE AllInv'
  <1>0. TypeOK BY DEF Inv
  <1>1. CASE SetUsername \/ ParseSDP \/ \E uri \in {"plain", "userpwd"} : SetURI(uri)
    BY <1>1 DEF SetUsername, ParseSDP, SetURI, control, AllInv
  <1>2. ASSUME NEW name, NEW T, NEW all \in BOOLEAN, NEW tcp, NEW noresp \in BOOLEAN,
               Enter(name, T, all, tcp, noresp)
        PROVE  /\ call'.name = name /\ call'.all = all /\ call'.no_response = noresp
               /\ pc' \in {"idle", "start"} /\ todo' = T /\ live' = live
    BY <1>2 DEF Enter, NoCall, sessions
  <1>3. ASSUME NEW name \in PlainCommands, NEW uri, DoPlain(name, uri) PROVE AllInv'
    <2>1. PICK noresp \in BOOLEAN : Enter(name, {"none"}, FALSE, FALSE, noresp)
      BY <1>3 DEF DoPlain
    <2>2. call'.all = FALSE BY <1>2, <2>1, ZenonT(60)
    <2> QED BY <2>2 DEF AllInv, Tearing
  <1>4. ASSUME NEW name \in HttpCommands, DoHttp(name) PROVE AllInv'
    BY <1>2, <1>4 DEF DoHttp, AllInv, Tearing
  <1>5. ASSUME NEW name \in SessionCommands, NEW m \in MediaTypes, DoOne(name, m)
        PROVE  AllInv'
    <2>1. PICK tcp \in BOOLEAN, noresp \in BOOLEAN : Enter(name, {m}, FALSE, tcp, noresp)
      BY <1>5 DEF DoOne
    <2>2. call'.all = FALSE BY <1>2, <2>1, ZenonT(60)
    <2> QED BY <2>2 DEF AllInv, Tearing
  <1>6. ASSUME NEW name \in SessionCommands, DoAll(name) PROVE AllInv'
    <2> DEFINE T == IF name = "TEARDOWN" THEN {"audio", "video"} ELSE live
    <2>1. Enter(name, T, TRUE, FALSE, FALSE) BY <1>6 DEF DoAll
    <2>2. live \subseteq {"audio", "video"} BY <1>0 DEF TypeOK, AudioVideo
    <2>3. /\ call'.name = name /\ call'.no_response = FALSE
          /\ pc' \in {"idle", "start"} /\ todo' = T /\ live' = live
      BY <1>2, <2>1
    <2> QED BY <2>2, <2>3 DEF AllInv, Tearing, Pending
  <1> QED BY <1>1, <1>3, <1>4, <1>5, <1>6 DEF Application

\* DoTEARDOWN() that reports success has torn down every session, in whatever
\* order the answers and challenges came and whether or not sessions share their
\* SessionID, if the server announces no medias but audio and video.  The
\* assumption is needed: DoTEARDOWN() knows no other medias.
THEOREM ClientTeardownAll == ASSUME AudioVideo PROVE Spec => TeardownAllSessions
  <1> DEFINE A == call.name = "TEARDOWN" /\ call.all /\ pc # "idle" /\ pc' = "idle"
                    /\ Err' = "RTSP_NO_ERROR" => live' = {}
  <1>1. Init => AllInv BY DEF Init, AllInv
  <1>2. Inv /\ AllInv /\ [Next]_vars => AllInv'
    <2> SUFFICES ASSUME Inv, AllInv, [Next]_vars PROVE AllInv'
      OBVIOUS
    <2>1. CASE Application BY <2>1, AllEntered
    <2>2. CASE Client
      <3>1. TypeOK BY DEF Inv
      <3>2. call'.name = call.name /\ call'.all = call.all
            /\ call'.no_response = call.no_response /\ pc # "idle"
        BY <2>2, <3>1, SameCommand
      <3>3. CASE Tearing BY <2>2, <3>2, <3>3, TearingStep DEF AllInv
      <3>4. CASE ~Tearing BY <3>2, <3>4 DEF AllInv, Tearing
      <3> QED BY <3>3, <3>4
    <2>3. CASE UNCHANGED <<sessions, control>>
      BY <2>3 DEF sessions, control, AllInv, Tearing, Pending
    <2> QED BY <2>1, <2>2, <2>3, EnvironmentUnchanged DEF Next, vars, sessions, control
  <1>3. Inv /\ AllInv /\ [Next]_vars => [A]_vars
    <2> SUFFICES ASSUME Inv, AllInv, Next, Tearing, pc # "idle", pc' = "idle",
                        Err' = "RTSP_NO_ERROR"
                 PROVE  live' = {}
      BY DEF Tearing
    <2>1. ~Application
      BY DEF Application, SetURI, SetUsername, DoPlain, DoHttp, DoOne, DoAll, Enter, ParseSDP
    <2>2. ~Environment BY EnvironmentUnchanged DEF control
    <2>3. Client BY <2>1, <2>2 DEF Next
    <2> QED BY <2>3, TearingStep DEF Pending
  <1> QED BY <1>1, <1>2, <1>3, Invariance, PTL DEF Spec, TeardownAllSessions
=============================================================================
