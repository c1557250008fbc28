----------------------------- MODULE RtpSources -----------------------------
(***************************************************************************)
(* The life of an RTP session: MediaSession::RTP_SetUp and RTP_Teardown,   *)
(* the table of sources JRTPLIB keeps for it (rtpsources.cpp), what        *)
(* MyRTPUDPSession and MyRTPTCPSession do when a source comes and goes,    *)
(* and the callbacks through which RtspClient tells the application that   *)
(* the server has left.                                                    *)
(*                                                                         *)
(* Packets of any source may arrive at any time, in any order, repeatedly  *)
(* or never, and time-outs strike at any time, so the network needs no     *)
(* state here.  An address is the port of a server; 0 as a destination is  *)
(* the tunnelling socket.                                                  *)
(***************************************************************************)
EXTENDS Integers, FiniteSets

CONSTANTS
    Medias,              \* media types of the sessions
    Ssrcs,               \* sources other than the session itself
    Senders,             \* [Medias -> SUBSET Ssrcs]: those of each session
    RtpPort, RtcpPort,   \* [Ssrcs -> Nat]: the ports a source sends from
    PortCount,           \* 65536: ports are 16 bits wide
    Clbks,               \* callbacks of the application
    Protos               \* transports it asks for

Ports == 0 .. PortCount - 1
Pointer == Clbks \cup {"NULL"}

ASSUME PortCountAssumption == PortCount \in Nat \ {0}
ASSUME MediasAssumption == Medias \subseteq {"application", "audio", "video"}
ASSUME SendersAssumption == Senders \in [Medias -> SUBSET Ssrcs]
ASSUME ProtosAssumption == Protos \subseteq {"udp", "tcp"}
ASSUME ClbksAssumption == "NULL" \notin Clbks /\ "uninitialised" \notin Clbks
\* server_port=<rtp>-<rtcp>: two adjacent ports, as is usual.  OnNewSource counts
\* on it (GetPort()-1) and checks nothing: of a server that sends RTCP from
\* another port the properties of destinations say nothing.
ASSUME PortsAssumption ==
    /\ RtpPort \in [Ssrcs -> Ports \ {0}]
    /\ RtcpPort \in [Ssrcs -> Ports]
    /\ \A s \in Ssrcs : RtcpPort[s] = RtpPort[s] + 1

VARIABLES
    live,            \* keys of MediaSessionMap
    RTPInterface,    \* kind of the RTP session, "NULL" for none
    created,         \* its Create() succeeded
    DestroiedClbk,   \* its callback
    ByeFromServerClbk,   \* ByeFromServerAudioClbk, ByeFromServerVideoClbk
    sources,         \* SSRCs in its table
    rtpKnown,        \* the RTP data address of the source is set
    receivedbye,     \* the source has said BYE
    destinations,    \* of what the session sends
    overridden,      \* history: medias with a SetDestroiedClbk of their own
    invoked          \* history: callbacks the last step called

table == <<sources, rtpKnown, receivedbye, destinations>>
vars == <<live, RTPInterface, created, DestroiedClbk, ByeFromServerClbk, sources,
          rtpKnown, receivedbye, destinations, overridden, invoked>>

Init ==
    /\ live = {}
    /\ RTPInterface = [m \in Medias |-> "NULL"]
    /\ created = [m \in Medias |-> FALSE]
    /\ DestroiedClbk = [m \in Medias |-> "NULL"]
    /\ ByeFromServerClbk = [m \in Medias |-> "NULL"]
    /\ sources = [m \in Medias |-> {}] /\ rtpKnown = [m \in Medias |-> {}]
    /\ receivedbye = [m \in Medias |-> {}]
    /\ destinations = [m \in Medias |-> {}]
    /\ overridden = {} /\ invoked = {}

-----------------------------------------------------------------------------
(* What the application calls *)

\* The two media types RtspClient has a ByeFromServer callback for.
ByeMedias == Medias \cap {"audio", "video"}

\* DoDESCRIBE and ParseSDP: a session for a media type that has none.
ParseSDP(m) ==
    /\ m \notin live /\ live' = live \cup {m}
    /\ invoked' = {}
    /\ UNCHANGED <<RTPInterface, created, DestroiedClbk, ByeFromServerClbk, table,
                   overridden>>

\* RTP_SetUp: nothing without TimeRate or port (refused) or if there is an
\* interface already; a Create() that fails leaves its interface behind.
\* result is what happens to a session that is set up the first time.
RTP_SetUp(m, proto, result) ==
    IF RTPInterface[m] # "NULL" \/ result = "refused"
    THEN UNCHANGED <<RTPInterface, created, destinations>>
    ELSE /\ RTPInterface' = [RTPInterface EXCEPT ![m] = proto]
         /\ created' = [created EXCEPT ![m] = (result = "created")]
         /\ destinations' = [destinations EXCEPT ![m] =
               IF proto = "tcp" /\ result = "created" THEN {0} ELSE {}]

\* The constructors: MyRTPTCPSession leaves its DestroiedClbk uninitialised.
Constructed(m, proto) ==
    IF RTPInterface[m] # "NULL" THEN DestroiedClbk[m]
    ELSE IF proto = "tcp" THEN "uninitialised" ELSE "NULL"

\* Mutant of DoSETUP: the callbacks are not set again.
DoSETUPForgets(m, proto, result) ==
    /\ m \in live
    /\ RTP_SetUp(m, proto, result)
    /\ DestroiedClbk' = [n \in Medias |->
          IF n = m /\ RTPInterface'[n] # "NULL" THEN Constructed(n, proto)
          ELSE DestroiedClbk[n]]
    /\ overridden' = {} /\ invoked' = {}
    /\ UNCHANGED <<live, ByeFromServerClbk, sources, rtpKnown, receivedbye>>

\* DoSETUP, when the server has agreed, ends with SetDestroiedClbk("audio", .)
\* and ("video", .) for all sessions that have an interface.
DoSETUP(m, proto, result) ==
    /\ m \in live
    /\ RTP_SetUp(m, proto, result)
    /\ DestroiedClbk' = [n \in Medias |->
          IF n \in live \cap ByeMedias /\ RTPInterface'[n] # "NULL"
          THEN ByeFromServerClbk[n]
          ELSE IF n = m /\ RTPInterface'[n] # "NULL" THEN Constructed(n, proto)
          ELSE DestroiedClbk[n]]
    /\ overridden' = {} /\ invoked' = {}
    /\ UNCHANGED <<live, ByeFromServerClbk, sources, rtpKnown, receivedbye>>

\* Mutant of DoTEARDOWN: the destinations are kept.
DoTEARDOWNKeeps(m) ==
    /\ m \in live /\ live' = live \ {m}
    /\ RTPInterface' = [RTPInterface EXCEPT ![m] = "NULL"]
    /\ created' = [created EXCEPT ![m] = FALSE]
    /\ DestroiedClbk' = [DestroiedClbk EXCEPT ![m] = "NULL"]
    /\ sources' = [sources EXCEPT ![m] = {}]
    /\ rtpKnown' = [rtpKnown EXCEPT ![m] = {}]
    /\ receivedbye' = [receivedbye EXCEPT ![m] = {}]
    /\ overridden' = overridden \ {m} /\ invoked' = {}
    /\ UNCHANGED <<ByeFromServerClbk, destinations>>

\* DoTEARDOWN deletes the session: RTP_Teardown, BYEDestroy, no callback.
DoTEARDOWN(m) ==
    /\ m \in live /\ live' = live \ {m}
    /\ RTPInterface' = [RTPInterface EXCEPT ![m] = "NULL"]
    /\ created' = [created EXCEPT ![m] = FALSE]
    /\ DestroiedClbk' = [DestroiedClbk EXCEPT ![m] = "NULL"]
    /\ sources' = [sources EXCEPT ![m] = {}]
    /\ rtpKnown' = [rtpKnown EXCEPT ![m] = {}]
    /\ receivedbye' = [receivedbye EXCEPT ![m] = {}]
    /\ destinations' = [destinations EXCEPT ![m] = {}]
    /\ overridden' = overridden \ {m} /\ invoked' = {}
    /\ UNCHANGED ByeFromServerClbk

\* SetRtpDestroiedClbk: only if there is an interface to hold the callback.
Store(m, c) ==
    DestroiedClbk' = IF m \in live /\ RTPInterface[m] # "NULL"
                     THEN [DestroiedClbk EXCEPT ![m] = c] ELSE DestroiedClbk

SetByeFromServerClbk(m, c) ==
    /\ m \in ByeMedias /\ Store(m, c)
    /\ ByeFromServerClbk' = [ByeFromServerClbk EXCEPT ![m] = c]
    /\ overridden' = overridden \ {m} /\ invoked' = {}
    /\ UNCHANGED <<live, RTPInterface, created, table>>

SetDestroiedClbk(m, c) ==
    /\ Store(m, c)
    /\ overridden' = overridden \cup {m} /\ invoked' = {}
    /\ UNCHANGED <<live, RTPInterface, created, ByeFromServerClbk, table>>

-----------------------------------------------------------------------------
(* Poll(): packets and time-outs *)

Running(m) == RTPInterface[m] # "NULL" /\ created[m]

\* Mutant of Dest: the RTCP port is taken as it is.
DestRTCP(s, known) == IF s \in known THEN RtpPort[s] ELSE RtcpPort[s]

\* The RTP port of source s as OnNewSource, OnBYEPacket and OnRemoveSource see
\* it: its RTP address, or one below its RTCP address, in 16 bits, while that is
\* all there is.
Dest(s, known) ==
    IF s \in known THEN RtpPort[s]
    ELSE IF RtcpPort[s] = 0 THEN PortCount - 1 ELSE RtcpPort[s] - 1

\* Mutant of OnNewSource: a source known by its RTCP address only is skipped.
OnNewSourceRTP(m, s, known) ==
    IF RTPInterface[m] = "udp" /\ s \notin sources[m] /\ s \in known
    THEN destinations[m] \cup {Dest(s, known)} ELSE destinations[m]

\* OnNewSource, for UDP: AddDestination, which refuses an address it has.
OnNewSource(m, s, known) ==
    IF RTPInterface[m] = "udp" /\ s \notin sources[m]
    THEN destinations[m] \cup {Dest(s, known)} ELSE destinations[m]

\* OnBYEPacket and OnRemoveSource, for UDP: DeleteDestination.
Without(m, D, s, known) ==
    IF RTPInterface[m] = "udp" THEN D \ {Dest(s, known)} ELSE D
Invoke(m) == IF DestroiedClbk[m] = "NULL" THEN {} ELSE {<<m, DestroiedClbk[m]>>}

\* ObtainSourceDataInstance, the address of the packet, OnNewSource if created.
ProcessRTPPacket(m, s) ==
    /\ Running(m)
    /\ sources' = [sources EXCEPT ![m] = @ \cup {s}]
    /\ rtpKnown' = [rtpKnown EXCEPT ![m] = @ \cup {s}]
    /\ destinations' =
          [destinations EXCEPT ![m] = OnNewSource(m, s, rtpKnown[m] \cup {s})]
    /\ invoked' = {}
    /\ UNCHANGED <<live, RTPInterface, created, DestroiedClbk, ByeFromServerClbk,
                   receivedbye, overridden>>

\* Sender and receiver reports, SDES.
ProcessRTCP(m, s) ==
    /\ Running(m)
    /\ sources' = [sources EXCEPT ![m] = @ \cup {s}]
    /\ destinations' =
          [destinations EXCEPT ![m] = OnNewSource(m, s, rtpKnown[m])]
    /\ invoked' = {}
    /\ UNCHANGED <<live, RTPInterface, created, DestroiedClbk, ByeFromServerClbk,
                   rtpKnown, receivedbye, overridden>>

ProcessBYE(m, s) ==
    /\ Running(m)
    /\ sources' = [sources EXCEPT ![m] = @ \cup {s}]
    /\ receivedbye' = [receivedbye EXCEPT ![m] = @ \cup {s}]
    /\ destinations' = [destinations EXCEPT ![m] =
          Without(m, OnNewSource(m, s, rtpKnown[m]), s, rtpKnown[m])]
    /\ invoked' = Invoke(m)
    /\ UNCHANGED <<live, RTPInterface, created, DestroiedClbk, ByeFromServerClbk,
                   rtpKnown, overridden>>

\* MultipleTimeouts: the source was silent, or its BYE is old; OnRemoveSource.
\* MyRTPUDPSession ignores a source whose BYE it has seen.  Mutants: it does not;
\* the time-out of a BYE is forgotten.
NeverIgnored(m, s) == FALSE
Ignored(m, s) == RTPInterface[m] = "udp" /\ s \in receivedbye[m]
Remove(m, s) ==
    /\ Running(m) /\ s \in sources[m]
    /\ sources' = [sources EXCEPT ![m] = @ \ {s}]
    /\ rtpKnown' = [rtpKnown EXCEPT ![m] = @ \ {s}]
    /\ receivedbye' = [receivedbye EXCEPT ![m] = @ \ {s}]
    /\ IF Ignored(m, s) THEN invoked' = {} /\ UNCHANGED destinations
       ELSE /\ invoked' = Invoke(m)
            /\ destinations' = [destinations EXCEPT ![m] =
                  Without(m, @, s, rtpKnown[m])]
    /\ UNCHANGED <<live, RTPInterface, created, DestroiedClbk, ByeFromServerClbk,
                   overridden>>
Timeout(m, s)    == s \notin receivedbye[m] /\ Remove(m, s)
NoBYETimeout(m, s) == FALSE
BYETimeout(m, s) == s \in receivedbye[m] /\ Remove(m, s)

-----------------------------------------------------------------------------
Application(m) ==
    \/ ParseSDP(m) \/ DoTEARDOWN(m)
    \/ \E proto \in Protos, result \in {"created", "failed", "refused"} :
          DoSETUP(m, proto, result)
    \/ \E c \in Pointer : SetByeFromServerClbk(m, c) \/ SetDestroiedClbk(m, c)
Poll(m, s) ==
    \/ ProcessRTPPacket(m, s) \/ ProcessRTCP(m, s) \/ ProcessBYE(m, s)
    \/ Timeout(m, s) \/ BYETimeout(m, s)
Next == \E m \in Medias : Application(m) \/ \E s \in Senders[m] : Poll(m, s)

Spec == Init /\ [][Next]_vars

\* The application keeps polling, the sources keep sending, and the time of a
\* BYE passes.
FairSpec ==
    /\ Spec
    /\ \A m \in Medias : \A s \in Senders[m] :
          WF_vars(ProcessRTPPacket(m, s)) /\ WF_vars(BYETimeout(m, s))

-----------------------------------------------------------------------------
(* Properties *)

\* An RTP session has an interface, sources and destinations only while its
\* media session is alive; a source that has said BYE, or whose RTP address is
\* known, is in the table.
TypeOK ==
    /\ live \subseteq Medias /\ overridden \subseteq Medias
    /\ RTPInterface \in [Medias -> {"NULL"} \cup Protos]
    /\ created \in [Medias -> BOOLEAN]
    /\ DestroiedClbk \in [Medias -> Pointer \cup {"uninitialised"}]
    /\ ByeFromServerClbk \in [Medias -> Pointer]
    /\ sources \in [Medias -> SUBSET Ssrcs]
    /\ rtpKnown \in [Medias -> SUBSET Ssrcs]
    /\ receivedbye \in [Medias -> SUBSET Ssrcs]
    /\ destinations \in [Medias -> SUBSET Ports]
    /\ \A m \in Medias :
          /\ m \notin live => RTPInterface[m] = "NULL"
          /\ ~Running(m) => sources[m] = {} /\ destinations[m] = {}
          /\ receivedbye[m] \subseteq sources[m] /\ rtpKnown[m] \subseteq sources[m]

\* Sources that are there and have not said BYE.
Members(m) == sources[m] \ receivedbye[m]

\* The RTP session sends to nobody who has left: every destination of a UDP
\* session is the address of a member, in whatever order RTP, RTCP and BYE
\* packets of how many sources come.
NoStaleDestination ==
    \A m \in Medias : RTPInterface[m] = "udp" =>
        \A a \in destinations[m] : \E s \in Members(m) : a = RtpPort[s]

\* Every member is a destination, unless it shares its address with another
\* source: AddDestination keeps one entry for both and the first to leave
\* deletes it.
Alone(s) == \A r \in Ssrcs \ {s} : RtpPort[r] # RtpPort[s]
MembersServed ==
    \A m \in Medias : RTPInterface[m] = "udp" =>
        \A s \in Members(m) : Alone(s) => RtpPort[s] \in destinations[m]

\* A member leaves, with a BYE or by a time-out, while the session stays up.
Leaves(m, s) == Running(m)' /\ s \in Members(m) /\ s \notin Members(m)'

\* Whenever and however often the application registered its callback with
\* SetAudioByeFromServerClbk or SetVideoByeFromServerClbk, before or after
\* SETUP, across TEARDOWN and a new SETUP, the callback registered last is
\* called when a member leaves; a UDP session calls it for nothing else than
\* a departure and a BYE, and not again when the source is dropped.
NotifiedOncePerDeparture ==
    [][\A m \in ByeMedias \ overridden :
          /\ \A s \in Ssrcs : Leaves(m, s) /\ ByeFromServerClbk[m] # "NULL"
                => invoked' = {<<m, ByeFromServerClbk[m]>>}
          /\ \A c \in Clbks : <<m, c>> \in invoked' /\ RTPInterface[m] = "udp"
                => \E s \in Ssrcs : Leaves(m, s) \/ s \in receivedbye'[m]]_vars

\* MyRTPTCPSession does not initialise its DestroiedClbk.  Audio and video
\* sessions are never caught with it, because DoSETUP sets it before the first
\* Poll(); a session of another media type is.
UninitialisedNeverCalled ==
    \A m \in ByeMedias : <<m, "uninitialised">> \notin invoked

\* A source that goes on sending after its last BYE is a destination of a UDP
\* session again and again, as long as the session is up: its old entry, which
\* OnNewSource does not see again, is dropped in time.
ServedAgain ==
    \A m \in Medias : \A s \in Senders[m] :
        /\ Alone(s)
        /\ <>[](RTPInterface[m] = "udp" /\ created[m])
        /\ <>[][~ProcessBYE(m, s)]_vars
        => []<>(RtpPort[s] \in destinations[m])
=============================================================================
