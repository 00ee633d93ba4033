\* Two calls that issue a bundle, one key listed.
SPECIFICATION DirectorySpec
CONSTANTS
    laptop = laptop
    phone = phone
    p1 = p1
    p2 = p2
    u1 = u1
    u2 = u2
    r1 = r1
    r2 = r2
    Devices = {laptop}
    Pages = {p1}
    HomeOf <- OnePage
    Uploads = {u1}
    Requests = {r1, r2}
    User = User
    None = None
    Batch = 1
    MaxKeys = 2
    MaxSigned = 1
    MaxVersions = 2
SYMMETRY Symmetry
INVARIANTS
    IssuedOnce
CHECK_DEADLOCK FALSE
