\* The dot; two pages; two messages; the reader's sockets coming and going.
SPECIFICATION MCSpec
CONSTANTS
    p1 = p1
    p2 = p2
    l1 = l1
    l2 = l2
    m1 = m1
    v1 = v1
    Pages = {p1, p2}
    Lines = {l1, l2, m1}
    ReadersLines = {l1, l2}
    Visits = {v1}
    MaxMessages = 2
CONSTRAINT StoryTold
INVARIANTS
    StatusTypeOK
    ShownIsTrue
    DeliveredWhenOnline
    ReadWhenOpen
    PresenceSettles
PROPERTIES
    StatusNeverGoesBack
    StatusReachesPages
CHECK_DEADLOCK FALSE
