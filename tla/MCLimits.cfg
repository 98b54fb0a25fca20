\* Registration rate and bans: three sources, two tracked, late callers.
\* STUN: the same sources, a budget of two for each and four in all.
\* One connection: two frames, three bytes a second, five bytes in all.
SPECIFICATION Spec
CONSTANTS
    Keys = {i1, i2, i3}
    Sources = {i1, i2, i3}
    WindowLen = 3
    MaxTracked = 2
    MaxTime = 4
    MaxLag = 1
    RegRate = 2
    MaxCalls = 5
    BanThreshold = 2
    BanDuration = 3
    StrikeWindow = 1
    MaxHits = 6
    PerIpCapacity = 2
    GlobalCapacity = 4
    ConnLimits <- MCConnLimits
    FrameLens = {0, 2, 3}
    MaxFrames = 4
SYMMETRY Symmetry
INVARIANTS
    LimitsTypeOK RateHolds RecentTracked BanJustified
    ReflectionBounded OnlyAnswersSpend AdmitIsExact
PROPERTIES BansKept
