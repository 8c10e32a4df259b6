CONSTANTS
    Session = {s1, s2}
    Request = {r1, r2}
    None = None
    RTT = {1}
    FreshPenalty = {0, 30}
SPECIFICATION FairSpec
INVARIANTS PoolConsistent ActiveStreamsExact TriesTheWholePool
PROPERTIES OnlyTheFailedIsDropped RequestEnds
