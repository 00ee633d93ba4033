\* Two accounts on one browser; or two tabs, or two browsers, of one account.
SPECIFICATION MCSpec
CONSTANTS
    alice = alice
    bob = bob
    laptop = laptop
    phone = phone
    t1 = t1
    t2 = t2
    t3 = t3
    x = x
    y = y
    Accounts = {alice, bob}
    Browsers = {laptop, phone}
    Tabs = {t1, t2, t3}
    BrowserOf <- Homes
    Owner = alice
    Passwords = {x, y}
    MaxEntries = 2
    None = None
CONSTRAINT Told
INVARIANTS
    BackupTypeOK
    StoresKeptApart
    QuietMeansSaved
    LockoutHasCause
PROPERTIES
    EntriesReachServer
    ImplementsAccountStore
CHECK_DEADLOCK FALSE
