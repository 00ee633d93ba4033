\* The members, and what a page knows of them, with every kind of change and event.
SPECIFICATION GroupSpec
CONSTANTS
    u1 = u1
    u2 = u2
    u3 = u3
    Users = {u1, u2, u3}
    Pages = {u1}
    Founders = {u1, u2, u3}
    ChangeKinds = {"add", "remove", "meta"}
    TaskKinds = {"load", "refresh", "chatUpdated", "userUpdated", "chatMeta", "userMeta",
                 "metadataSaved", "userAdded", "memberRemoved", "chatDeleted", "userDeleted",
                 "hasLeft"}
    MaxChanges = 2
    MaxCalls = 0
    MaxLoads = 1
    MaxRunning = 2
VIEW WithoutMessages
SYMMETRY Symmetry
INVARIANTS
    GroupTypeOK
    CreatorIsMember
    PagesSettleOnEpoch
CHECK_DEADLOCK FALSE
