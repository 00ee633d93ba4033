\* Nothing is deleted or sent twice: only the weekly signed prekey is replaced.
SPECIFICATION HistorySpec
CONSTANTS
    Ops = {o1}
    Bundles <- MCBundles
    MaxWire = 1
    MaxIndex = 1
    MaxRoots = 1
    MaxSignedPreKeys = 2
    MaxOneTimeKeys = 2
    MaxSkippedKeys = 1
    MaxDeleted = 0
    o1 = o1
INVARIANT HistoryStaysReadable
CHECK_DEADLOCK FALSE
