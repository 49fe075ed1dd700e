\* Two users' sessions, of which one may be open, with a channel of one place.
CONSTANTS
    s1 = s1
    s2 = s2
    s3 = s3
    m1 = m1
    m2 = m2
    Sessions = {s1, s3}
    UserOf <- MCUserOf
    Resources = {m1}
    ListChanged = ListChanged
    ChannelCapacity = 1
    MaxSessions = 1
    MaxSubscriptions = 1
    MaxPublished = 2
    MaxHangUps = 1
SPECIFICATION FairSpec
INVARIANTS
    OwedIsOnItsWay
    SlotsAddUp
PROPERTIES
    OwedIsTold
CHECK_DEADLOCK FALSE
