SPECIFICATION FairSpec
CONSTANTS
    Medias = {"audio", "video"}
    Ssrcs = {1, 2, 3}
    Senders <- MCSenders
    RtpPort <- MCRtpPort
    RtcpPort <- MCRtcpPort
    PortCount = 65536
    Clbks = {"clbk"}
    Protos = {"udp", "tcp"}
INVARIANTS TypeOK NoStaleDestination MembersServed UninitialisedNeverCalled
PROPERTIES NotifiedOncePerDeparture ServedAgain
