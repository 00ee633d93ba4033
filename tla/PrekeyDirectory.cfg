\* Two devices of an account, one page each, in turn or with uploads that meet; or one page
\* whose uploads overlap, against two issuing calls or while it consumes keys.
SPECIFICATION DirectorySpec
CONSTANTS
    laptop = laptop
    phone = phone
    p1 = p1
    p2 = p2
    u1 = u1
    u2 = u2
    r1 = r1
    r2 = r2
    Devices = {laptop, phone}
    Pages = {p1, p2}
    HomeOf <- PageEach
    Uploads = {u1, u2}
    Requests = {r1, r2}
    User = User
    None = None
    Batch = 1
    MaxKeys = 3
    MaxSigned = 2
    MaxVersions = 3
CONSTRAINT OneStory
SYMMETRY Symmetry
INVARIANTS
    DirectoryTypeOK
    GivenRowIsSpent
    PublishedKeysHeld
    
PROPERTY ConsumedKeysNotRelisted
CHECK_DEADLOCK FALSE
