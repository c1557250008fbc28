--------------------------- MODULE RtpPortsProofs ---------------------------
(***************************************************************************)
(* Proofs about RtpPorts for any number of ports, sessions and processes.  *)
(***************************************************************************)
EXTENDS RtpPorts, TLAPS

\* What BoundIsExclusive and AnnouncedPair need to be inductive: the probe
\* sockets hold the RTP port exactly while the RTCP port is tried.
ProbesHeld == pc = "rtcp" => mine = {port}

PortsInv == TypeOK /\ AnnouncedPair /\ ProbesClosed /\ ProbesHeld
            /\ NeverAnnouncesPortZero /\ BoundIsExclusive

USE PortCountAssumption, SearchFromAssumption, LowPortAssumption, HoggedAssumption

\* The 16-bit step of the search keeps the port even and below 65535.
LEMMA AdvanceEven ==
    ASSUME NEW p \in Port, p % 2 = 0
    PROVE  /\ Advance(p) \in Port /\ Advance(p) % 2 = 0
           /\ Advance(p) + 1 < PortCount /\ InLoop(Advance(p))
  BY DEF Port, Advance, InLoop

\* A port that no session holds is in no session's pair.
LEMMA NotBound ==
    ASSUME NEW p, p \notin Bound
    PROVE  \A m \in MediaTypes : bound[m] # 0 => p \notin Pair(bound[m])
  BY DEF Bound

LEMMA InitPorts == Init => PortsInv
  BY DEF Init, PortsInv, TypeOK, AnnouncedPair, ProbesClosed, ProbesHeld,
         NeverAnnouncesPortZero, BoundIsExclusive, Port

\* Two pairs are disjoint when the second meets neither port of the first.
LEMMA PairDisjoint ==
    ASSUME NEW p \in Nat, NEW b \in Nat, p \notin Pair(b), p + 1 \notin Pair(b)
    PROVE  Pair(b) \cap Pair(p) = {} /\ Pair(p) \cap Pair(b) = {}
  BY DEF Pair

\* A step of the search that goes on with the next port.
LEMMA ContinueKeeps ==
    ASSUME PortsInv, Continue PROVE PortsInv'
  <1>1. port \in Port /\ port % 2 = 0
    BY DEF PortsInv, TypeOK, AnnouncedPair
  <1>2. /\ port' \in Port /\ port' % 2 = 0 /\ port' + 1 < PortCount
        /\ pc' = "rtp"
    BY <1>1, AdvanceEven DEF Continue
  <1>3. TypeOK'
    BY <1>2 DEF PortsInv, TypeOK, Continue, fields
  <1>4. AnnouncedPair'
    BY <1>2 DEF PortsInv, AnnouncedPair, Continue, fields
  <1>5. ProbesClosed' /\ ProbesHeld' /\ NeverAnnouncesPortZero'
    BY <1>2 DEF Continue, ProbesClosed, ProbesHeld, NeverAnnouncesPortZero
  <1>6. BoundIsExclusive'
    BY DEF PortsInv, BoundIsExclusive, Continue, fields
  <1> QED BY <1>3, <1>4, <1>5, <1>6 DEF PortsInv

\* RTP_SetUp is the one action that gives a session ports.
LEMMA SetUpKeeps ==
    ASSUME PortsInv, RTP_SetUp PROVE PortsInv'
  <1> DEFINE p == RTPPort[media]
  <1>1. /\ media \in MediaTypes /\ p \in Port /\ p % 2 = 0
        /\ bound \in [MediaTypes -> Port] /\ mine = {}
    BY DEF PortsInv, TypeOK, AnnouncedPair, ProbesClosed, RTP_SetUp
  <1>2. TypeOK'
    BY <1>1 DEF PortsInv, TypeOK, RTP_SetUp
  <1>3. AnnouncedPair' /\ ProbesClosed' /\ ProbesHeld' /\ NeverAnnouncesPortZero'
    BY <1>1 DEF PortsInv, RTP_SetUp, AnnouncedPair, ProbesClosed, ProbesHeld,
                NeverAnnouncesPortZero
  <1>4. BoundIsExclusive'
    <2>1. CASE bound' = bound
      BY <2>1, <1>1 DEF PortsInv, TypeOK, BoundIsExclusive, RTP_SetUp
    <2>2. CASE bound' # bound
      <3>1. /\ p # 0 /\ CanBind(p) /\ CanBind(p + 1)
            /\ bound' = [bound EXCEPT ![media] = p]
            /\ RTPInterface' = [RTPInterface EXCEPT ![media] = TRUE]
            /\ busy' = busy /\ mine' = mine
        BY <2>2 DEF RTP_SetUp
      <3>2. p \notin busy \cup Bound /\ p + 1 \notin busy \cup Bound
        BY <3>1, <1>1 DEF CanBind, Port
      <3>3. Pair(p) \cap (busy' \cup mine') = {}
        BY <3>1, <3>2, <1>1 DEF Pair
      <3>4. \A n \in MediaTypes : bound[n] # 0 =>
               Pair(bound[n]) \cap Pair(p) = {} /\ Pair(p) \cap Pair(bound[n]) = {}
        BY <3>2, <1>1, NotBound, PairDisjoint DEF Port
      <3>5. \A m \in MediaTypes :
               /\ bound'[m] = IF m = media THEN p ELSE bound[m]
               /\ RTPInterface'[m] = IF m = media THEN TRUE ELSE RTPInterface[m]
        BY <3>1, <1>1 DEF PortsInv, TypeOK
      <3>6. \A m \in MediaTypes : bound'[m] # 0 =>
               RTPInterface'[m] /\ Pair(bound'[m]) \cap (busy' \cup mine') = {}
        BY <3>1, <3>3, <3>5 DEF PortsInv, BoundIsExclusive
      <3>7. \A m \in MediaTypes : \A n \in MediaTypes \ {m} :
               bound'[m] # 0 /\ bound'[n] # 0
               => Pair(bound'[n]) \cap Pair(bound'[m]) = {}
        BY <3>4, <3>5 DEF PortsInv, BoundIsExclusive
      <3> QED BY <3>6, <3>7 DEF BoundIsExclusive
    <2> QED BY <2>1, <2>2
  <1> QED BY <1>2, <1>3, <1>4 DEF PortsInv

LEMMA StepPorts == PortsInv /\ [Next]_vars => PortsInv'
  <1> SUFFICES ASSUME PortsInv, [Next]_vars PROVE PortsInv'
    OBVIOUS
  <1> USE DEF PortsInv
  <1>1. ASSUME NEW m \in MediaTypes, Search(m) PROVE PortsInv'
    <2>1. TypeOK' BY <1>1 DEF TypeOK, Search, Port
    <2>2. AnnouncedPair' BY <1>1 DEF TypeOK, AnnouncedPair, Search, InLoop
    <2>3. ProbesClosed' /\ ProbesHeld' /\ NeverAnnouncesPortZero'
      BY <1>1 DEF ProbesClosed, ProbesHeld, NeverAnnouncesPortZero, Search
    <2>4. BoundIsExclusive' BY <1>1 DEF BoundIsExclusive, Search
    <2> QED BY <2>1, <2>2, <2>3, <2>4
  <1>2. ASSUME NEW m \in MediaTypes, Teardown(m) PROVE PortsInv'
    <2>1. TypeOK' BY <1>2 DEF TypeOK, Teardown, Port
    <2>2. AnnouncedPair' BY <1>2 DEF TypeOK, AnnouncedPair, Teardown
    <2>3. ProbesClosed' /\ ProbesHeld' /\ NeverAnnouncesPortZero'
      BY <1>2 DEF ProbesClosed, ProbesHeld, NeverAnnouncesPortZero, Teardown
    <2>4. BoundIsExclusive' BY <1>2 DEF TypeOK, BoundIsExclusive, Teardown
    <2> QED BY <2>1, <2>2, <2>3, <2>4
  <1>3. CASE SocketFails
    BY <1>3 DEF SocketFails, fields, TypeOK, AnnouncedPair, ProbesClosed, ProbesHeld,
                NeverAnnouncesPortZero, BoundIsExclusive
  <1>4. CASE BindRTP
    <2>1. port \in Port /\ mine = {} /\ mine' = {port}
      BY <1>4 DEF BindRTP, TypeOK, ProbesClosed
    <2>2. TypeOK' /\ AnnouncedPair' BY <1>4, <2>1 DEF BindRTP, fields, TypeOK, AnnouncedPair
    <2>3. ProbesClosed' /\ ProbesHeld' /\ NeverAnnouncesPortZero'
      BY <1>4, <2>1 DEF BindRTP, ProbesClosed, ProbesHeld, NeverAnnouncesPortZero
    <2>4. \A m \in MediaTypes : bound[m] # 0 => port \notin Pair(bound[m])
      <3>1. CASE port = 0 BY <3>1, <2>1 DEF TypeOK, Pair, Port
      <3>2. CASE port # 0 BY <3>2, <1>4, NotBound DEF BindRTP, CanBind
      <3> QED BY <3>1, <3>2
    <2>5. BoundIsExclusive'
      BY <1>4, <2>1, <2>4 DEF BindRTP, fields, BoundIsExclusive
    <2> QED BY <2>2, <2>3, <2>5
  <1>5. CASE RTPTaken BY <1>5, ContinueKeeps DEF RTPTaken
  <1>6. CASE BindRTCP
    <2>1. port \in Port /\ port + 1 \in Port /\ port % 2 = 0
      BY DEF TypeOK, AnnouncedPair, Port
    <2>2. TypeOK' BY <1>6, <2>1 DEF BindRTCP, TypeOK
    <2>3. AnnouncedPair' BY <1>6, <2>1 DEF BindRTCP, TypeOK, AnnouncedPair, Port
    <2>4. ProbesClosed' /\ ProbesHeld' BY <1>6 DEF BindRTCP, ProbesClosed, ProbesHeld
    <2>5. NeverAnnouncesPortZero'
      BY <1>6, <2>1 DEF BindRTCP, CanBind, TypeOK, NeverAnnouncesPortZero, Port
    <2>6. BoundIsExclusive' BY <1>6 DEF BindRTCP, BoundIsExclusive
    <2> QED BY <2>2, <2>3, <2>4, <2>5, <2>6
  <1>7. CASE RTCPTaken BY <1>7, ContinueKeeps DEF RTCPTaken
  <1>8. CASE RTP_SetUp BY <1>8, SetUpKeeps
  <1>9. CASE SetupFails
    BY <1>9 DEF SetupFails, fields, TypeOK, AnnouncedPair, ProbesClosed, ProbesHeld,
                NeverAnnouncesPortZero, BoundIsExclusive
  <1>10. ASSUME NEW q \in Port, OtherBinds(q) PROVE PortsInv'
    <2>1. TypeOK' /\ AnnouncedPair' /\ ProbesClosed' /\ ProbesHeld' /\ NeverAnnouncesPortZero'
      BY <1>10 DEF OtherBinds, fields, TypeOK, AnnouncedPair, ProbesClosed, ProbesHeld,
                   NeverAnnouncesPortZero
    <2>2. \A m \in MediaTypes : bound[m] # 0 => q \notin Pair(bound[m])
      BY <1>10, NotBound DEF OtherBinds
    <2>3. BoundIsExclusive' BY <1>10, <2>2 DEF OtherBinds, fields, BoundIsExclusive
    <2> QED BY <2>1, <2>3
  <1>11. ASSUME NEW q \in Port, OtherReleases(q) PROVE PortsInv'
    BY <1>11 DEF OtherReleases, fields, TypeOK, AnnouncedPair, ProbesClosed, ProbesHeld,
                 NeverAnnouncesPortZero, BoundIsExclusive
  <1>12. CASE UNCHANGED vars
    BY <1>12 DEF vars, TypeOK, AnnouncedPair, ProbesClosed, ProbesHeld,
                 NeverAnnouncesPortZero, BoundIsExclusive
  <1> QED BY <1>1, <1>2, <1>3, <1>4, <1>5, <1>6, <1>7, <1>8, <1>9, <1>10, <1>11, <1>12
          DEF Next, Step

LEMMA PortsInvariant == Spec => []PortsInv
  BY InitPorts, StepPorts, PTL DEF Spec

\* Type correctness: in particular RTPPort and RTCPPort stay 16-bit numbers.
THEOREM PortsTypeOK == Spec => []TypeOK
  BY PortsInvariant, PTL DEF PortsInv

\* The search announces an even port and its successor after any number of
\* wraps of its uint16_t.
THEOREM PortsAnnouncedPair == Spec => []AnnouncedPair
  BY PortsInvariant, PTL DEF PortsInv

\* SetAvailableRTPPort leaks no probe socket, on any way out.
THEOREM PortsProbesClosed == Spec => []ProbesClosed
  BY PortsInvariant, PTL DEF PortsInv

\* An unprivileged client never announces port 0.
THEOREM PortsNeverZero == Spec => []NeverAnnouncesPortZero
  BY PortsInvariant, PTL DEF PortsInv

\* No two sessions, and no session and other process, share a bound port.
THEOREM PortsExclusive == Spec => []BoundIsExclusive
  BY PortsInvariant, PTL DEF PortsInv

\* A session keeps its ports until it is torn down.
THEOREM PortsKept == Spec => BoundUntilTeardown
  <1> DEFINE Kept == \A m \in MediaTypes :
          bound[m] # 0 => \/ bound'[m] = bound[m]
                          \/ bound'[m] = 0 /\ ~RTPInterface'[m]
  <1>1. PortsInv /\ [Next]_vars => [Kept]_vars
    <2> SUFFICES ASSUME PortsInv, Next PROVE Kept
      OBVIOUS
    <2>1. ASSUME NEW m \in MediaTypes, Teardown(m) PROVE Kept
      BY <2>1 DEF PortsInv, TypeOK, Teardown
    <2>2. CASE RTP_SetUp
      BY <2>2 DEF PortsInv, TypeOK, BoundIsExclusive, RTP_SetUp
    <2>3. CASE bound' = bound BY <2>3
    <2>4. \/ bound' = bound \/ RTP_SetUp \/ \E m \in MediaTypes : Teardown(m)
      BY DEF Next, Step, Search, SocketFails, BindRTP, RTPTaken, BindRTCP, RTCPTaken,
             Continue, SetupFails, OtherBinds, OtherReleases, fields
    <2> QED BY <2>1, <2>2, <2>3, <2>4
  <1> QED BY PortsInvariant, <1>1, PTL DEF Spec, BoundUntilTeardown

\* The pair the search reports was free as a whole at one moment, however other
\* processes bind and release ports between its two bind() calls.
THEOREM PortsPairFree == Spec => PairFreeAtOnce
  <1> DEFINE Free == pc' = "found" /\ pc # "found" =>
          RTPPort'[media] \in mine /\ RTCPPort'[media] \notin busy \cup Bound
  <1>1. PortsInv /\ [Next]_vars => [Free]_vars
    <2> SUFFICES ASSUME PortsInv, Next, pc' = "found", pc # "found"
                 PROVE  RTPPort'[media] \in mine /\ RTCPPort'[media] \notin busy \cup Bound
      OBVIOUS
    <2>1. BindRTCP
      BY DEF Next, Step, Search, Teardown, SocketFails, BindRTP, RTPTaken, RTCPTaken,
             Continue, RTP_SetUp, SetupFails, OtherBinds, OtherReleases
    <2>2. /\ media \in MediaTypes /\ port \in Nat /\ mine = {port}
          /\ RTPPort'[media] = port /\ RTCPPort'[media] = port + 1
      BY <2>1 DEF PortsInv, TypeOK, ProbesHeld, BindRTCP, Port
    <2>3. port + 1 \notin busy \cup Bound BY <2>1, <2>2 DEF BindRTCP, CanBind
    <2> QED BY <2>2, <2>3
  <1> QED BY PortsInvariant, <1>1, PTL DEF Spec, PairFreeAtOnce

=============================================================================
