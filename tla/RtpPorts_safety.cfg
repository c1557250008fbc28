SPECIFICATION FairSpec
CONSTANTS
    MediaTypes = {"audio", "video"}
    PortCount = 8
    SearchFrom = 4
    LowPort = 2
    Hogged = {4}
INVARIANTS TypeOK AnnouncedPair ProbesClosed NeverAnnouncesPortZero BoundIsExclusive
PROPERTIES PairFreeAtOnce BoundUntilTeardown SearchEndsIfPairFree
