\* Two sends may overlap, or the receiver replaces, uses and purges its prekeys.
SPECIFICATION SessionSpec
CONSTANTS
    Ops = {o1, o2}
    Bundles <- MCBundles
    MaxWire = 3
    MaxIndex = 3
    MaxRoots = 2
    MaxSignedPreKeys = 2
    MaxOneTimeKeys = 2
    MaxSkippedKeys = 1
    MaxDeleted = 1
    o1 = o1
    o2 = o2
CONSTRAINT OneTrouble
SYMMETRY Symmetry
INVARIANTS
    SessionTypeOK
    NoKeyReuseWithoutOverlap
    HandshakeFirstWithoutOverlap
    IntactMessagesDecrypt
PROPERTY RecoveryKeepsSession
CHECK_DEADLOCK FALSE
