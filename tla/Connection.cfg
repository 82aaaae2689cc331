SPECIFICATION Spec
CONSTANTS
    s1 = s1
    s2 = s2
    s3 = s3
    m1 = m1
    m2 = m2
    m3 = m3
    Streams = {s1, s2, s3}
    Messages = {m1, m2, m3}
    StreamIds <- MCStreamIds
    total = 2
    MaxStreams = 2
    MaxPayload = 2
    Sizes = {0, 2}
    UsizeSpan = 8
    ChanCap = 2
    RouterCap = 1
    MaxFrames = 4
    MaxSends = 1
CHECK_DEADLOCK FALSE
INVARIANTS TypeOK ReassemblyBounded WholeMessages
PROPERTIES GoneIsCleanedUp
