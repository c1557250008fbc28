------------------------------ MODULE RtpPorts ------------------------------
(***************************************************************************)
(* The UDP ports of the media sessions: RtspClient::SetAvailableRTPPort    *)
(* probes for a free pair and releases it, DoSETUP announces the pair to   *)
(* the server, MediaSession::RTP_SetUp binds it again through JRTPLIB.     *)
(* Between any two system calls other processes take and release ports.    *)
(***************************************************************************)
EXTENDS Integers

CONSTANTS
    MediaTypes,  \* sessions of the client
    PortCount,   \* 65536: the loop variable is a uint16_t
    SearchFrom,  \* SEARCH_PORT_RTP_FROM
    LowPort,     \* ports below need a privilege the process may lack
    Hogged       \* ports some other process never releases

ASSUME PortCountAssumption ==
    PortCount \in Nat /\ PortCount % 2 = 0 /\ PortCount > 2
ASSUME SearchFromAssumption ==
    SearchFrom \in 1 .. (PortCount - 1) /\ SearchFrom % 2 = 0
ASSUME LowPortAssumption == LowPort \in Nat
ASSUME HoggedAssumption  == Hogged \subseteq 1 .. (PortCount - 1)

Port == 0 .. (PortCount - 1)

VARIABLES
    pc,         \* where DoSETUP is: "idle", "rtp", "rtcp", "found"
    media,      \* the session it sets up
    port,       \* local variable RTPPort of the search
    mine,       \* ports held by the two probe sockets
    RTPPort, RTCPPort,  \* members of each MediaSession
    announced,  \* client_port of the last SETUP the server accepted, 0 if none
    bound,      \* the pair JRTPLIB holds for the session, by its RTP port
    RTPInterface,       \* the session has an interface
    busy        \* ports of other processes

vars == <<pc, media, port, mine, RTPPort, RTCPPort, announced, bound,
          RTPInterface, busy>>
fields == <<RTPPort, RTCPPort, announced, bound, RTPInterface>>

TypeOK ==
    /\ pc \in {"idle", "rtp", "rtcp", "found"}
    /\ media \in MediaTypes
    /\ port \in Port
    /\ mine \in SUBSET Port
    /\ RTPPort \in [MediaTypes -> Port] /\ RTCPPort \in [MediaTypes -> Port]
    /\ announced \in [MediaTypes -> Port] /\ bound \in [MediaTypes -> Port]
    /\ RTPInterface \in [MediaTypes -> BOOLEAN]
    /\ busy \in SUBSET Port

Init ==
    /\ pc = "idle" /\ media \in MediaTypes /\ port = SearchFrom /\ mine = {}
    /\ RTPPort = [m \in MediaTypes |-> 0] /\ RTCPPort = [m \in MediaTypes |-> 0]
    /\ announced = [m \in MediaTypes |-> 0] /\ bound = [m \in MediaTypes |-> 0]
    /\ RTPInterface = [m \in MediaTypes |-> FALSE]
    /\ busy = Hogged

-----------------------------------------------------------------------------
\* The pair of a session's RTP and RTCP sockets.
Pair(p) == {p, p + 1}
\* Ports JRTPLIB holds for the sessions of this client.
Bound == UNION {IF bound[m] = 0 THEN {} ELSE Pair(bound[m]) : m \in MediaTypes}

\* bind(): port 0 asks for any port and always succeeds.
CanBind(p) == p = 0 \/ (p >= LowPort /\ p \notin busy \cup Bound \cup mine)

\* Mutants of Advance: no wrap to 16 bits; steps of one; steps of four.
AdvanceUnbounded(p) == p + 2
AdvanceByOne(p) == IF p + 1 >= PortCount THEN 0 ELSE p + 1
AdvanceByFour(p) == IF p + 4 >= PortCount THEN p + 4 - PortCount ELSE p + 4

\* RTPPort = RTPPort + 2 in 16 bits; the loop runs while RTPPort < 65535.
Advance(p)  == IF p + 2 >= PortCount THEN p + 2 - PortCount ELSE p + 2
InLoop(p)   == p < PortCount - 1

\* continue: back to the loop test with the next port, every socket closed.
Continue ==
    /\ mine' = {}
    /\ port' = Advance(port)
    /\ pc' = IF InLoop(Advance(port)) THEN "rtp" ELSE "idle"
    /\ UNCHANGED <<media, fields, busy>>

\* DoSETUP(media_session): SetAvailableRTPPort(media_session) starts.
Search(m) ==
    /\ pc = "idle" /\ InLoop(SearchFrom)
    /\ media' = m /\ port' = SearchFrom /\ pc' = "rtp"
    /\ RTPPort' = [RTPPort EXCEPT ![m] = 0]
    /\ RTCPPort' = [RTCPPort EXCEPT ![m] = 0]
    /\ UNCHANGED <<mine, announced, bound, RTPInterface, busy>>

\* Mutant of SocketFails: the RTP socket is not closed.
SocketFailsLeaks ==
    /\ pc \in {"rtp", "rtcp"}
    /\ pc' = "idle"
    /\ UNCHANGED <<mine, media, port, fields, busy>>

\* socket() failed for the first or the second socket: return 0.
SocketFails ==
    /\ pc \in {"rtp", "rtcp"}
    /\ mine' = {} /\ pc' = "idle"
    /\ UNCHANGED <<media, port, fields, busy>>

\* Mutant of BindRTP: the RTP socket is closed before the RTCP port is tried.
BindRTPCloses ==
    /\ pc = "rtp" /\ CanBind(port)
    /\ pc' = "rtcp"
    /\ UNCHANGED <<mine, media, port, fields, busy>>

\* The first probe socket has the RTP port.
BindRTP ==
    /\ pc = "rtp" /\ CanBind(port)
    /\ mine' = mine \cup {port} /\ pc' = "rtcp"
    /\ UNCHANGED <<media, port, fields, busy>>

\* The RTP port is taken, or its number needs a privilege.
RTPTaken == pc = "rtp" /\ ~CanBind(port) /\ Continue

\* Mutant of BindRTCP: the result of the second bind() is ignored.
BindRTCPAnyway ==
    /\ pc = "rtcp"
    /\ mine' = {} /\ pc' = "found"
    /\ RTPPort' = [RTPPort EXCEPT ![media] = port]
    /\ RTCPPort' = [RTCPPort EXCEPT ![media] = port + 1]
    /\ UNCHANGED <<media, port, announced, bound, RTPInterface, busy>>

\* Both sockets are closed again before the ports are stored.
BindRTCP ==
    /\ pc = "rtcp" /\ CanBind(port + 1)
    /\ mine' = {} /\ pc' = "found"
    /\ RTPPort' = [RTPPort EXCEPT ![media] = port]
    /\ RTCPPort' = [RTCPPort EXCEPT ![media] = port + 1]
    /\ UNCHANGED <<media, port, announced, bound, RTPInterface, busy>>

\* The RTCP port is taken: both sockets are closed.
RTCPTaken == pc = "rtcp" /\ ~CanBind(port + 1) /\ Continue

\* Mutants of RTP_SetUp: bind() with SO_REUSEADDR never fails; the check for an
\* interface that is there already is missing.
RTP_SetUpShares ==
    /\ pc = "found" /\ pc' = "idle"
    /\ announced' = [announced EXCEPT ![media] = RTPPort[media]]
    /\ RTPInterface' = [RTPInterface EXCEPT ![media] = TRUE]
    /\ bound' = [bound EXCEPT ![media] = RTPPort[media]]
    /\ UNCHANGED <<media, port, mine, RTPPort, RTCPPort, busy>>
RTP_SetUpAgain ==
    /\ pc = "found" /\ pc' = "idle"
    /\ announced' = [announced EXCEPT ![media] = RTPPort[media]]
    /\ RTPInterface' = [RTPInterface EXCEPT ![media] = TRUE]
    /\ bound' = IF CanBind(RTPPort[media]) /\ CanBind(RTPPort[media] + 1)
                THEN [bound EXCEPT ![media] = RTPPort[media]] ELSE bound
    /\ UNCHANGED <<media, port, mine, RTPPort, RTCPPort, busy>>

\* The server answered SETUP: RTP_SetUp.  Its result is ignored.
RTP_SetUp ==
    /\ pc = "found" /\ pc' = "idle"
    /\ announced' = [announced EXCEPT ![media] = RTPPort[media]]
    /\ IF RTPPort[media] = 0 \/ RTPInterface[media]
       THEN UNCHANGED <<RTPInterface, bound>>
       ELSE /\ RTPInterface' = [RTPInterface EXCEPT ![media] = TRUE]
            /\ bound' = IF CanBind(RTPPort[media]) /\ CanBind(RTPPort[media] + 1)
                        THEN [bound EXCEPT ![media] = RTPPort[media]] ELSE bound
    /\ UNCHANGED <<media, port, mine, RTPPort, RTCPPort, busy>>

\* The exchange failed: DoSETUP returns, the fields stay.
SetupFails ==
    /\ pc = "found" /\ pc' = "idle"
    /\ UNCHANGED <<media, port, mine, fields, busy>>

\* DoTEARDOWN deletes the session: RTP_Teardown, the sockets are released.
Teardown(m) ==
    /\ pc = "idle"
    /\ RTPPort' = [RTPPort EXCEPT ![m] = 0]
    /\ RTCPPort' = [RTCPPort EXCEPT ![m] = 0]
    /\ announced' = [announced EXCEPT ![m] = 0]
    /\ bound' = [bound EXCEPT ![m] = 0]
    /\ RTPInterface' = [RTPInterface EXCEPT ![m] = FALSE]
    /\ UNCHANGED <<pc, media, port, mine, busy>>

\* Other processes.
OtherBinds(p) ==
    /\ p # 0 /\ p \notin busy \cup Bound \cup mine
    /\ busy' = busy \cup {p}
    /\ UNCHANGED <<pc, media, port, mine, fields>>

OtherReleases(p) ==
    /\ p \in busy \ Hogged
    /\ busy' = busy \ {p}
    /\ UNCHANGED <<pc, media, port, mine, fields>>

Step == \/ SocketFails \/ BindRTP \/ RTPTaken \/ BindRTCP \/ RTCPTaken
        \/ RTP_SetUp \/ SetupFails

Next ==
    \/ \E m \in MediaTypes : Search(m) \/ Teardown(m)
    \/ Step
    \/ \E p \in Port : OtherBinds(p) \/ OtherReleases(p)

Spec == Init /\ [][Next]_vars

\* The thread in DoSETUP keeps running.
FairSpec == Spec /\ WF_vars(Step)

-----------------------------------------------------------------------------
(* Properties *)

\* The pair announced to the server is an even port and its successor, also
\* when the uint16_t of the search has wrapped: RTCPPort never overflows.
AnnouncedPair ==
    /\ port % 2 = 0 /\ port + 1 < PortCount
    /\ \A m \in MediaTypes :
         /\ RTPPort[m] % 2 = 0
         /\ RTCPPort[m] \in {0, RTPPort[m] + 1}
         /\ RTPPort[m] # 0 => RTCPPort[m] = RTPPort[m] + 1

\* Every way out of the search closes both probe sockets.
ProbesClosed == pc \in {"idle", "rtp", "found"} => mine = {}

\* After the wrap the search tries port 0, which bind() always grants.  It is
\* announced to no server by a process that may not bind port 1, because the
\* RTCP port is tried too.
NeverAnnouncesPortZero ==
    LowPort > 1 /\ pc = "found" => RTPPort[media] # 0

\* The pair SetAvailableRTPPort reports was held or free as a whole at one
\* moment: nobody had its RTCP port while the probe socket had its RTP port.
PairFreeAtOnce ==
    [][pc' = "found" /\ pc # "found" =>
          RTPPort'[media] \in mine /\ RTCPPort'[media] \notin busy \cup Bound]_vars

\* The ports JRTPLIB holds for a session belong to that session alone, however
\* many processes and sessions probed and bound them between the search and
\* RTP_SetUp.
BoundIsExclusive ==
    \A m \in MediaTypes : bound[m] # 0 =>
        /\ RTPInterface[m]
        /\ Pair(bound[m]) \cap (busy \cup mine) = {}
        /\ \A n \in MediaTypes \ {m} :
             bound[n] # 0 => Pair(bound[n]) \cap Pair(bound[m]) = {}

\* The ports of a session do not change before it is torn down, whatever a
\* second SETUP of it announces.
BoundUntilTeardown ==
    [][\A m \in MediaTypes :
          bound[m] # 0 => \/ bound'[m] = bound[m]
                          \/ bound'[m] = 0 /\ ~RTPInterface'[m]]_vars

PairFree(p) == p >= LowPort /\ p + 1 < PortCount /\ p % 2 = 0
               /\ Pair(p) \cap (busy \cup Bound) = {}

\* The search ends unless every pair it may use is taken at some time: it comes
\* back to each pair, however often it wraps.
SearchEndsIfPairFree ==
    \A p \in Port :
        pc \in {"rtp", "rtcp"} ~> (pc \in {"found", "idle"} \/ ~PairFree(p))

=============================================================================
