-------------------------- MODULE RtpSourcesProofs --------------------------
(* Proofs about RtpSources, for any medias, sources and callbacks. *)
EXTENDS RtpSources, TLAPS

\* Dest gives the RTP port of a source, whichever of its addresses is known.
LEMMA DestIsRtpPort ==
    ASSUME NEW s \in Ssrcs, NEW known
    PROVE  Dest(s, known) = RtpPort[s] /\ RtpPort[s] \in Ports
<1>1. RtpPort[s] \in Ports \ {0} /\ RtcpPort[s] = RtpPort[s] + 1
  BY PortsAssumption
<1>2. RtpPort[s] \in Int /\ RtpPort[s] >= 0
  BY <1>1, PortCountAssumption DEF Ports
<1>3. \A n \in Int : n >= 0 => n + 1 # 0 /\ (n + 1) - 1 = n
  OBVIOUS
<1> QED BY <1>1, <1>2, <1>3 DEF Dest

-----------------------------------------------------------------------------
(* Type invariant *)

LEMMA TypeInit == Init => TypeOK
BY DEF Init, TypeOK, Running, Pointer

LEMMA TypeSetup ==
    ASSUME TypeOK, NEW m \in Medias, NEW proto \in Protos,
           NEW result \in {"created", "failed", "refused"},
           DoSETUP(m, proto, result)
    PROVE  TypeOK'
<1> USE DEF TypeOK
<1>1. /\ RTPInterface' \in [Medias -> {"NULL"} \cup Protos]
      /\ created' \in [Medias -> BOOLEAN]
      /\ destinations' \in [Medias -> SUBSET Ports]
  <2>1. {0} \in SUBSET Ports BY PortCountAssumption DEF Ports
  <2>2. (result = "created") \in BOOLEAN OBVIOUS
  <2>3. CASE RTPInterface[m] # "NULL" \/ result = "refused"
    BY <2>3 DEF DoSETUP, RTP_SetUp
  <2>4. CASE ~(RTPInterface[m] # "NULL" \/ result = "refused")
    <3> DEFINE D == IF proto = "tcp" /\ result = "created" THEN {0} ELSE {}
    <3>1. D \in SUBSET Ports BY <2>1
    <3>2. destinations' = [destinations EXCEPT ![m] = D]
      BY <2>4 DEF DoSETUP, RTP_SetUp
    <3>3. /\ RTPInterface' = [RTPInterface EXCEPT ![m] = proto]
          /\ created' = [created EXCEPT ![m] = (result = "created")]
      BY <2>4 DEF DoSETUP, RTP_SetUp
    <3> HIDE DEF D
    <3> QED BY <2>2, <3>1, <3>2, <3>3
  <2> QED BY <2>3, <2>4
<1>2. DestroiedClbk' \in [Medias -> Pointer \cup {"uninitialised"}]
  BY DEF DoSETUP, Constructed, Pointer
<1>3. ASSUME NEW n \in Medias
      PROVE  /\ n \notin live' => RTPInterface'[n] = "NULL"
             /\ ~Running(n)' => sources'[n] = {} /\ destinations'[n] = {}
  <2>1. CASE RTPInterface[m] # "NULL" \/ result = "refused"
    BY <2>1 DEF DoSETUP, RTP_SetUp, Running
  <2>2. CASE ~(RTPInterface[m] # "NULL" \/ result = "refused")
    <3>1. sources[m] = {} BY <2>2 DEF Running
    <3>2. n # m => /\ RTPInterface'[n] = RTPInterface[n] /\ created'[n] = created[n]
                   /\ destinations'[n] = destinations[n]
      BY <2>2 DEF DoSETUP, RTP_SetUp
    <3>3. n = m => /\ RTPInterface'[n] = proto
                   /\ created'[n] = (result = "created")
                   /\ destinations'[n] = IF proto = "tcp" /\ result = "created"
                                         THEN {0} ELSE {}
      BY <2>2 DEF DoSETUP, RTP_SetUp
    <3>4. proto # "NULL" BY ProtosAssumption
    <3> QED BY <3>1, <3>2, <3>3, <3>4 DEF DoSETUP, Running
  <2> QED BY <2>1, <2>2
<1> QED BY <1>1, <1>2, <1>3 DEF DoSETUP

LEMMA TypeTeardown ==
    ASSUME TypeOK, NEW m \in Medias, DoTEARDOWN(m)
    PROVE  TypeOK'
BY DEF TypeOK, DoTEARDOWN, Running, Pointer

LEMMA TypeApplication ==
    ASSUME TypeOK, NEW m \in Medias, Application(m)
    PROVE  TypeOK'
<1>1. CASE ParseSDP(m) BY <1>1 DEF TypeOK, ParseSDP, Running, table
<1>2. CASE DoTEARDOWN(m) BY <1>2, TypeTeardown
<1>3. ASSUME NEW proto \in Protos, NEW result \in {"created", "failed", "refused"},
             DoSETUP(m, proto, result)
      PROVE  TypeOK'
  BY <1>3, TypeSetup
<1>4. ASSUME NEW c \in Pointer, SetByeFromServerClbk(m, c)
      PROVE  TypeOK'
  BY <1>4 DEF TypeOK, SetByeFromServerClbk, Store, Running, table, Pointer
<1>5. ASSUME NEW c \in Pointer, SetDestroiedClbk(m, c)
      PROVE  TypeOK'
  BY <1>5 DEF TypeOK, SetDestroiedClbk, Store, Running, table, Pointer
<1> QED BY <1>1, <1>2, <1>3, <1>4, <1>5 DEF Application

\* What a packet or a time-out leaves of the table has the right types.
LEMMA TypePoll ==
    ASSUME TypeOK, NEW m \in Medias, NEW s \in Senders[m], Poll(m, s)
    PROVE  TypeOK'
<1>1. s \in Ssrcs BY SendersAssumption
<1>2. \A known : Dest(s, known) \in Ports BY <1>1, DestIsRtpPort
<1>3. CASE ProcessRTPPacket(m, s)
  BY <1>1, <1>2, <1>3 DEF TypeOK, ProcessRTPPacket, OnNewSource, Running
<1>4. CASE ProcessRTCP(m, s)
  BY <1>1, <1>2, <1>4 DEF TypeOK, ProcessRTCP, OnNewSource, Running
<1>5. CASE ProcessBYE(m, s)
  BY <1>1, <1>2, <1>5 DEF TypeOK, ProcessBYE, OnNewSource, Without, Running
<1>6. CASE Remove(m, s)
  BY <1>1, <1>2, <1>6 DEF TypeOK, Remove, Without, Running
<1> QED BY <1>3, <1>4, <1>5, <1>6 DEF Poll, Timeout, BYETimeout

LEMMA TypeNext == TypeOK /\ [Next]_vars => TypeOK'
<1> SUFFICES ASSUME TypeOK, [Next]_vars PROVE TypeOK' OBVIOUS
<1>1. CASE UNCHANGED vars BY <1>1 DEF TypeOK, vars, Running
<1>2. CASE Next BY <1>2, TypeApplication, TypePoll DEF Next
<1> QED BY <1>1, <1>2

\* Every reachable state is well typed, and an interface, sources and
\* destinations exist only while their media session does.
THEOREM TypeCorrect == Spec => []TypeOK
<1>1. Init => TypeOK BY TypeInit
<1>2. TypeOK /\ [Next]_vars => TypeOK' BY TypeNext
<1> QED BY <1>1, <1>2, PTL DEF Spec

-----------------------------------------------------------------------------
(* Destinations *)

\* What SETUP does to the members and destinations of UDP sessions: nothing, or
\* the session is new and has neither.
LEMMA SetupKeepsTable ==
    ASSUME TypeOK, NEW m \in Medias, NEW proto \in Protos,
           NEW result \in {"created", "failed", "refused"},
           DoSETUP(m, proto, result),
           NEW n \in Medias, RTPInterface'[n] = "udp"
    PROVE  /\ Members(n)' = Members(n)
           /\ \/ RTPInterface[n] = "udp" /\ destinations'[n] = destinations[n]
              \/ Members(n) = {} /\ destinations'[n] = {}
<1>1. Members(n)' = Members(n) BY DEF DoSETUP, Members
<1>2. CASE RTPInterface[m] # "NULL" \/ result = "refused"
  BY <1>1, <1>2 DEF DoSETUP, RTP_SetUp
<1>3. CASE ~(RTPInterface[m] # "NULL" \/ result = "refused")
  <2>1. n # m => RTPInterface'[n] = RTPInterface[n] /\ destinations'[n] = destinations[n]
    BY <1>3 DEF DoSETUP, RTP_SetUp, TypeOK
  <2>2. n = m => proto = "udp" BY <1>3 DEF DoSETUP, RTP_SetUp, TypeOK
  <2>3. n = m => destinations'[n] = IF proto = "tcp" /\ result = "created"
                                    THEN {0} ELSE {}
    BY <1>3 DEF DoSETUP, RTP_SetUp, TypeOK
  <2>4. n = m => sources[n] = {} BY <1>3 DEF TypeOK, Running
  <2> QED BY <1>1, <2>1, <2>2, <2>3, <2>4 DEF Members
<1> QED BY <1>2, <1>3

\* What the other calls of the application do to them: nothing, or the session
\* is gone.
LEMMA CallsKeepTable ==
    ASSUME TypeOK, NEW m \in Medias,
           \/ ParseSDP(m) \/ DoTEARDOWN(m)
           \/ \E c \in Pointer : SetByeFromServerClbk(m, c) \/ SetDestroiedClbk(m, c),
           NEW n \in Medias, RTPInterface'[n] = "udp"
    PROVE  /\ RTPInterface[n] = "udp" /\ Members(n)' = Members(n)
           /\ destinations'[n] = destinations[n]
<1>1. CASE ParseSDP(m) BY <1>1 DEF ParseSDP, table, Members
<1>2. CASE DoTEARDOWN(m) BY <1>2 DEF DoTEARDOWN, Members, TypeOK
<1>3. CASE \E c \in Pointer : SetByeFromServerClbk(m, c) \/ SetDestroiedClbk(m, c)
  BY <1>3 DEF SetByeFromServerClbk, SetDestroiedClbk, table, Members
<1> QED BY <1>1, <1>2, <1>3

\* A packet or a time-out of source s of media m concerns this media only.
LEMMA PollOfOthers ==
    ASSUME TypeOK, NEW m \in Medias, NEW s \in Senders[m], Poll(m, s),
           NEW n \in Medias, n # m
    PROVE  Members(n)' = Members(n) /\ destinations'[n] = destinations[n]
<1>1. CASE ProcessRTPPacket(m, s) BY <1>1 DEF TypeOK, ProcessRTPPacket, Members
<1>2. CASE ProcessRTCP(m, s) BY <1>2 DEF TypeOK, ProcessRTCP, Members
<1>3. CASE ProcessBYE(m, s) BY <1>3 DEF TypeOK, ProcessBYE, Members
<1>4. CASE Remove(m, s) BY <1>4 DEF TypeOK, Remove, Members
<1> QED BY <1>1, <1>2, <1>3, <1>4 DEF Poll, Timeout, BYETimeout

\* What it does to the members and destinations of a UDP session.
LEMMA PollOfUdp ==
    ASSUME TypeOK, NEW m \in Medias, NEW s \in Senders[m], Poll(m, s),
           RTPInterface[m] = "udp"
    PROVE  \/ /\ s \notin Members(m) /\ Members(m)' = Members(m) \cup {s}
              /\ destinations'[m] = destinations[m] \cup {RtpPort[s]}
           \/ /\ Members(m)' = Members(m)
              /\ destinations'[m] = destinations[m]
           \/ /\ Members(m)' = Members(m) \ {s}
              /\ destinations'[m] \subseteq destinations[m] \cup {RtpPort[s]}
              /\ destinations'[m] = (destinations[m] \cup {RtpPort[s]}) \ {RtpPort[s]}
<1>1. s \in Ssrcs BY SendersAssumption
<1>2. \A known : Dest(s, known) = RtpPort[s] BY <1>1, DestIsRtpPort
<1>3. /\ sources \in [Medias -> SUBSET Ssrcs] /\ receivedbye \in [Medias -> SUBSET Ssrcs]
      /\ destinations \in [Medias -> SUBSET Ports] /\ receivedbye[m] \subseteq sources[m]
  BY DEF TypeOK
<1>4. CASE ProcessRTPPacket(m, s)
  BY <1>2, <1>3, <1>4 DEF ProcessRTPPacket, OnNewSource, Members
<1>5. CASE ProcessRTCP(m, s)
  BY <1>2, <1>3, <1>5 DEF ProcessRTCP, OnNewSource, Members
<1>6. CASE ProcessBYE(m, s)
  BY <1>2, <1>3, <1>6 DEF ProcessBYE, OnNewSource, Without, Members
<1>7. CASE Remove(m, s)
  BY <1>2, <1>3, <1>7 DEF Remove, Ignored, Without, Members
<1> QED BY <1>4, <1>5, <1>6, <1>7 DEF Poll, Timeout, BYETimeout

LEMMA PollKeepsInterface ==
    ASSUME NEW m \in Medias, NEW s \in Senders[m], Poll(m, s)
    PROVE  /\ RTPInterface' = RTPInterface /\ created' = created /\ live' = live
           /\ DestroiedClbk' = DestroiedClbk
           /\ ByeFromServerClbk' = ByeFromServerClbk /\ overridden' = overridden
           /\ Running(m)
BY DEF Poll, ProcessRTPPacket, ProcessRTCP, ProcessBYE, Timeout, BYETimeout, Remove

\* Both properties of the destinations, of one session.
SentToMembers(m) ==
    RTPInterface[m] = "udp" =>
        \A a \in destinations[m] : \E s \in Members(m) : a = RtpPort[s]
ServesMembers(m) ==
    RTPInterface[m] = "udp" =>
        \A s \in Members(m) : Alone(s) => RtpPort[s] \in destinations[m]
DestInv == TypeOK /\ \A m \in Medias : SentToMembers(m) /\ ServesMembers(m)

LEMMA DestPoll ==
    ASSUME DestInv, NEW m \in Medias, NEW s \in Senders[m], Poll(m, s),
           NEW n \in Medias
    PROVE  SentToMembers(n)' /\ ServesMembers(n)'
<1>1. RTPInterface' = RTPInterface BY PollKeepsInterface
<1>2. SentToMembers(n) /\ ServesMembers(n) /\ TypeOK BY DEF DestInv
<1>3. CASE n # m
  BY <1>1, <1>2, <1>3, PollOfOthers DEF SentToMembers, ServesMembers, Alone
<1>4. CASE n = m
  <2> SUFFICES ASSUME RTPInterface[m] = "udp"
               PROVE  SentToMembers(m)' /\ ServesMembers(m)'
    BY <1>1, <1>4 DEF SentToMembers, ServesMembers
  <2>0. s \in Ssrcs /\ Members(m) \subseteq Ssrcs
    BY <1>2, SendersAssumption DEF TypeOK, Members
  <2>1. /\ \A a \in destinations[m] : \E r \in Members(m) : a = RtpPort[r]
        /\ \A r \in Members(m) : Alone(r) => RtpPort[r] \in destinations[m]
    BY <1>2, <1>4 DEF SentToMembers, ServesMembers
  <2>2. SUFFICES
          /\ \A a \in destinations'[m] : \E r \in Members(m)' : a = RtpPort[r]
          /\ \A r \in Members(m)' : Alone(r) => RtpPort[r] \in destinations'[m]
    BY DEF SentToMembers, ServesMembers, Alone
  <2>3. CASE /\ s \notin Members(m) /\ Members(m)' = Members(m) \cup {s}
             /\ destinations'[m] = destinations[m] \cup {RtpPort[s]}
    BY <2>1, <2>3
  <2>4. CASE Members(m)' = Members(m) /\ destinations'[m] = destinations[m]
    BY <2>1, <2>4
  <2>5. CASE /\ Members(m)' = Members(m) \ {s}
             /\ destinations'[m] = (destinations[m] \cup {RtpPort[s]}) \ {RtpPort[s]}
    BY <2>0, <2>1, <2>5 DEF Alone
  <2> QED BY <1>2, <2>3, <2>4, <2>5, PollOfUdp
<1> QED BY <1>3, <1>4

LEMMA DestApplication ==
    ASSUME DestInv, NEW m \in Medias, Application(m), NEW n \in Medias
    PROVE  SentToMembers(n)' /\ ServesMembers(n)'
<1> SUFFICES ASSUME RTPInterface'[n] = "udp"
             PROVE  SentToMembers(n)' /\ ServesMembers(n)'
  BY DEF SentToMembers, ServesMembers
<1>1. SentToMembers(n) /\ ServesMembers(n) /\ TypeOK BY DEF DestInv
<1>2. /\ Members(n)' = Members(n)
      /\ \/ RTPInterface[n] = "udp" /\ destinations'[n] = destinations[n]
         \/ Members(n) = {} /\ destinations'[n] = {}
  BY <1>1, SetupKeepsTable, CallsKeepTable DEF Application
<1> QED BY <1>1, <1>2 DEF SentToMembers, ServesMembers, Alone

LEMMA DestNext == DestInv /\ [Next]_vars => DestInv'
<1> SUFFICES ASSUME DestInv, [Next]_vars PROVE DestInv' OBVIOUS
<1>1. TypeOK' BY TypeNext DEF DestInv
<1>2. CASE UNCHANGED vars
  BY <1>1, <1>2 DEF DestInv, SentToMembers, ServesMembers, Members, Alone, vars
<1>3. CASE Next BY <1>1, <1>3, DestPoll, DestApplication DEF DestInv, Next
<1> QED BY <1>2, <1>3

LEMMA DestInit == Init => DestInv
<1>1. Init => TypeOK BY TypeInit
<1>2. Init => \A m \in Medias : SentToMembers(m) /\ ServesMembers(m)
  BY DEF Init, SentToMembers, ServesMembers
<1> QED BY <1>1, <1>2 DEF DestInv

\* A UDP session sends to the addresses of members only, whatever the order and
\* number of RTP, RTCP and BYE packets and time-outs of any number of sources.
THEOREM SendsToMembersOnly == Spec => []NoStaleDestination
<1>1. DestInv => NoStaleDestination
  BY DEF DestInv, SentToMembers, NoStaleDestination
<1> QED BY <1>1, DestInit, DestNext, PTL DEF Spec

\* It sends to every member that has an address of its own.
THEOREM ServesEveryMember == Spec => []MembersServed
<1>1. DestInv => MembersServed
  BY DEF DestInv, ServesMembers, MembersServed
<1> QED BY <1>1, DestInit, DestNext, PTL DEF Spec

-----------------------------------------------------------------------------
(* Callbacks *)

\* A session that has an interface holds the callback its media type has
\* registered, unless SetDestroiedClbk gave it another, and never a pointer
\* nobody wrote.
Registered(m) ==
    /\ DestroiedClbk[m] # "uninitialised"
    /\ m \notin overridden /\ RTPInterface[m] # "NULL"
          => DestroiedClbk[m] = ByeFromServerClbk[m]
ClbkInv == TypeOK /\ \A m \in ByeMedias : Registered(m)

LEMMA ClbkSetup ==
    ASSUME ClbkInv, NEW m \in Medias, NEW proto \in Protos,
           NEW result \in {"created", "failed", "refused"},
           DoSETUP(m, proto, result), NEW n \in ByeMedias
    PROVE  Registered(n)'
<1>1. TypeOK /\ Registered(n) /\ n \in Medias BY DEF ClbkInv, ByeMedias
<1>2. ByeFromServerClbk' = ByeFromServerClbk /\ live' = live BY DEF DoSETUP
<1>3. ByeFromServerClbk[n] # "uninitialised"
  BY <1>1, ClbksAssumption DEF TypeOK, Pointer
<1>4. RTPInterface'[n] # "NULL" => n \in live
  BY <1>1, <1>2, TypeSetup DEF TypeOK
<1>5. CASE RTPInterface'[n] # "NULL"
  <2>1. DestroiedClbk'[n] = ByeFromServerClbk[n] BY <1>1, <1>4, <1>5 DEF DoSETUP
  <2> QED BY <1>2, <1>3, <2>1 DEF Registered
<1>6. CASE RTPInterface'[n] = "NULL"
  <2>1. DestroiedClbk'[n] = DestroiedClbk[n] BY <1>1, <1>6 DEF DoSETUP
  <2> QED BY <1>1, <1>6, <2>1 DEF Registered
<1> QED BY <1>5, <1>6

LEMMA ClbkApplication ==
    ASSUME ClbkInv, NEW m \in Medias, Application(m), NEW n \in ByeMedias
    PROVE  Registered(n)'
<1>1. TypeOK /\ Registered(n) /\ n \in Medias BY DEF ClbkInv, ByeMedias
<1>2. /\ DestroiedClbk \in [Medias -> Pointer \cup {"uninitialised"}]
      /\ ByeFromServerClbk \in [Medias -> Pointer]
      /\ RTPInterface[n] # "NULL" => n \in live
  BY <1>1 DEF TypeOK
<1>3. \A c \in Pointer : c # "uninitialised" BY ClbksAssumption DEF Pointer
<1>4. CASE ParseSDP(m) BY <1>1, <1>4 DEF ParseSDP, Registered
<1>5. CASE DoTEARDOWN(m)
  BY <1>1, <1>2, <1>5 DEF DoTEARDOWN, Registered, TypeOK
<1>6. ASSUME NEW c \in Pointer, SetByeFromServerClbk(m, c)
      PROVE  Registered(n)'
  BY <1>1, <1>2, <1>3, <1>6 DEF SetByeFromServerClbk, Store, Registered
<1>7. ASSUME NEW c \in Pointer, SetDestroiedClbk(m, c)
      PROVE  Registered(n)'
  BY <1>1, <1>2, <1>3, <1>7 DEF SetDestroiedClbk, Store, Registered
<1> QED BY <1>4, <1>5, <1>6, <1>7, ClbkSetup DEF Application

LEMMA ClbkNext == ClbkInv /\ [Next]_vars => ClbkInv'
<1> SUFFICES ASSUME ClbkInv, [Next]_vars PROVE ClbkInv' OBVIOUS
<1>1. TypeOK' BY TypeNext DEF ClbkInv
<1> SUFFICES ASSUME NEW n \in ByeMedias PROVE Registered(n)' BY <1>1 DEF ClbkInv
<1>2. Registered(n) BY DEF ClbkInv
<1>3. CASE UNCHANGED vars BY <1>2, <1>3 DEF Registered, vars
<1>4. ASSUME NEW m \in Medias, Application(m) PROVE Registered(n)'
  BY <1>4, ClbkApplication
<1>5. ASSUME NEW m \in Medias, NEW s \in Senders[m], Poll(m, s) PROVE Registered(n)'
  BY <1>2, <1>5, PollKeepsInterface DEF Registered
<1> QED BY <1>3, <1>4, <1>5 DEF Next

LEMMA ClbkInit == Init => ClbkInv
<1>1. Init => TypeOK BY TypeInit
<1>2. Init => \A m \in ByeMedias : Registered(m)
  BY DEF Init, Registered, ByeMedias
<1> QED BY <1>1, <1>2 DEF ClbkInv

\* What a step calls: nothing, or the callback of the polled session.
LEMMA InvokedByPoll ==
    ASSUME NEW m \in Medias, NEW s \in Senders[m], Poll(m, s)
    PROVE  invoked' = {} \/ invoked' = Invoke(m)
BY DEF Poll, ProcessRTPPacket, ProcessRTCP, ProcessBYE, Timeout, BYETimeout, Remove

LEMMA InvokedByApplication ==
    ASSUME NEW m \in Medias, Application(m)
    PROVE  invoked' = {}
BY DEF Application, ParseSDP, DoTEARDOWN, DoSETUP, SetByeFromServerClbk, SetDestroiedClbk

\* No audio or video session calls the pointer the constructor left
\* uninitialised, over UDP or TCP.
THEOREM InitialisedBeforeCalled == Spec => []UninitialisedNeverCalled
<1>1. Init => UninitialisedNeverCalled BY DEF Init, UninitialisedNeverCalled
<1>2. ClbkInv /\ UninitialisedNeverCalled /\ [Next]_vars => UninitialisedNeverCalled'
  <2> SUFFICES ASSUME ClbkInv, UninitialisedNeverCalled, [Next]_vars,
                      NEW n \in ByeMedias
               PROVE  <<n, "uninitialised">> \notin invoked'
    BY DEF UninitialisedNeverCalled
  <2>1. CASE UNCHANGED vars BY <2>1 DEF UninitialisedNeverCalled, vars
  <2>2. ASSUME NEW m \in Medias, Application(m)
        PROVE  <<n, "uninitialised">> \notin invoked'
    BY <2>2, InvokedByApplication
  <2>3. ASSUME NEW m \in Medias, NEW s \in Senders[m], Poll(m, s)
        PROVE  <<n, "uninitialised">> \notin invoked'
    BY <2>3, InvokedByPoll DEF Invoke, ClbkInv, Registered
  <2> QED BY <2>1, <2>2, <2>3 DEF Next
<1> QED BY <1>1, <1>2, ClbkInit, ClbkNext, PTL DEF Spec

\* A step in which a member of media m leaves is its BYE or its time-out.
LEMMA DepartureInvokes ==
    ASSUME TypeOK, [Next]_vars, NEW m \in Medias, NEW s \in Ssrcs, Leaves(m, s)
    PROVE  invoked' = Invoke(m) /\ Running(m)
<1>1. s \in Members(m) /\ s \notin Members(m)' /\ Running(m)' BY DEF Leaves
<1>2. CASE UNCHANGED vars BY <1>1, <1>2 DEF vars, Members
<1>3. ASSUME NEW n \in Medias, Application(n) PROVE FALSE
  <2>1. CASE DoTEARDOWN(n)
    <3>1. n # m BY <1>1, <2>1 DEF DoTEARDOWN, Running, TypeOK
    <3> QED BY <1>1, <2>1, <3>1 DEF DoTEARDOWN, Members, TypeOK
  <2>2. CASE ~DoTEARDOWN(n)
    <3>1. UNCHANGED <<sources, receivedbye>>
      BY <1>3, <2>2 DEF Application, ParseSDP, DoSETUP, SetByeFromServerClbk,
                        SetDestroiedClbk, table
    <3> QED BY <1>1, <3>1 DEF Members
  <2> QED BY <2>1, <2>2
<1>4. ASSUME NEW n \in Medias, NEW r \in Senders[n], Poll(n, r)
      PROVE  invoked' = Invoke(m) /\ Running(m)
  <2>1. n = m BY <1>1, <1>4, PollOfOthers
  <2>2. Running(m) BY <1>4, <2>1, PollKeepsInterface
  <2>3. CASE ProcessRTPPacket(n, r)
    BY <1>1, <2>3 DEF ProcessRTPPacket, Members, TypeOK
  <2>4. CASE ProcessRTCP(n, r) BY <1>1, <2>4 DEF ProcessRTCP, Members, TypeOK
  <2>5. CASE ProcessBYE(n, r) BY <2>1, <2>2, <2>5 DEF ProcessBYE
  <2>6. CASE Remove(n, r)
    <3>1. CASE r = s BY <1>1, <2>1, <2>2, <2>6, <3>1 DEF Remove, Ignored, Members
    <3>2. CASE r # s BY <1>1, <2>1, <2>6, <3>2 DEF Remove, Members, TypeOK
    <3> QED BY <3>1, <3>2
  <2> QED BY <1>4, <2>3, <2>4, <2>5, <2>6 DEF Poll, Timeout, BYETimeout
<1> QED BY <1>2, <1>3, <1>4 DEF Next

\* A UDP session calls back for a departure or a BYE only.
LEMMA CalledForReason ==
    ASSUME TypeOK, Next, NEW m \in Medias, NEW c,
           <<m, c>> \in invoked', RTPInterface[m] = "udp"
    PROVE  \E s \in Ssrcs : Leaves(m, s) \/ s \in receivedbye'[m]
<1>1. PICK n \in Medias : \E s \in Senders[n] : Poll(n, s)
  BY InvokedByApplication DEF Next
<1>2. PICK r \in Senders[n] : Poll(n, r) BY <1>1
<1>3. n = m BY <1>2, InvokedByPoll DEF Invoke
<1>4. r \in Ssrcs BY SendersAssumption
<1>5. Running(m) /\ Running(m)'
  BY <1>2, <1>3, PollKeepsInterface DEF Running
<1>6. CASE ProcessBYE(n, r) BY <1>3, <1>4, <1>6 DEF ProcessBYE, TypeOK
<1>7. CASE Remove(n, r)
  <2>1. r \notin receivedbye[m] BY <1>3, <1>7 DEF Remove, Ignored
  <2>2. Leaves(m, r)
    BY <1>3, <1>5, <1>7, <2>1 DEF Remove, Leaves, Members, TypeOK
  <2> QED BY <1>4, <2>2
<1>8. CASE ProcessRTPPacket(n, r) \/ ProcessRTCP(n, r)
  BY <1>8 DEF ProcessRTPPacket, ProcessRTCP
<1> QED BY <1>2, <1>6, <1>7, <1>8 DEF Poll, Timeout, BYETimeout

\* The callback registered last is called when a member leaves, and by a UDP
\* session for no other reason, for any number of sessions and sources.
THEOREM DepartureNotified == Spec => NotifiedOncePerDeparture
<1> DEFINE Step ==
      \A m \in ByeMedias \ overridden :
          /\ \A s \in Ssrcs : Leaves(m, s) /\ ByeFromServerClbk[m] # "NULL"
                => invoked' = {<<m, ByeFromServerClbk[m]>>}
          /\ \A c \in Clbks : <<m, c>> \in invoked' /\ RTPInterface[m] = "udp"
                => \E s \in Ssrcs : Leaves(m, s) \/ s \in receivedbye'[m]
<1>1. ClbkInv /\ [Next]_vars => [Step]_vars
  <2> SUFFICES ASSUME ClbkInv, Next PROVE Step OBVIOUS
  <2> TAKE m \in ByeMedias \ overridden
  <2>1. m \in Medias /\ TypeOK /\ Registered(m) BY DEF ByeMedias, ClbkInv
  <2>2. ASSUME NEW s \in Ssrcs, Leaves(m, s), ByeFromServerClbk[m] # "NULL"
        PROVE  invoked' = {<<m, ByeFromServerClbk[m]>>}
    <3>1. invoked' = Invoke(m) /\ Running(m) BY <2>1, <2>2, DepartureInvokes
    <3> QED BY <2>1, <2>2, <3>1 DEF Invoke, Registered, Running
  <2>3. ASSUME NEW c \in Clbks, <<m, c>> \in invoked', RTPInterface[m] = "udp"
        PROVE  \E s \in Ssrcs : Leaves(m, s) \/ s \in receivedbye'[m]
    BY <2>1, <2>3, CalledForReason
  <2> QED BY <2>2, <2>3
<1> QED BY <1>1, ClbkInit, ClbkNext, PTL DEF Spec, NotifiedOncePerDeparture
=============================================================================
