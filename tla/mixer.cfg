SPECIFICATION Spec
CONSTANTS
    Channels = {c1, c2}
    c1 = c1
    c2 = c2
    BufSize = 16
    BlockSize = 4
    Stretch = 1
    Prebuffer = 2
    Adds = {0, 2, 3}
    Surplus = 1
    MaxNeeded = 14
INVARIANTS
    TypeOK
    ChannelsKeepUp
PROPERTIES
    NoSkip
