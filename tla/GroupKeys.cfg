\* The sender keys of one member's page, whose calls do not overlap, told of changes by the
\* chat socket.
SPECIFICATION GroupSpec
CONSTANTS
    u1 = u1
    u2 = u2
    u3 = u3
    Users = {u1, u2, u3}
    Pages = {u1}
    Founders = {u2, u3}
    ChangeKinds = {"add", "remove"}
    TaskKinds = {"load", "chatUpdated"}
    MaxChanges = 2
    MaxCalls = 3
    MaxLoads = 1
    MaxRunning = 1
CONSTRAINT NotCrossed
SYMMETRY Symmetry
INVARIANTS
    FreshAfterRemoval
    SenderKeyUsedOnce
CHECK_DEADLOCK FALSE
