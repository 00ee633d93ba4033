\* One account, two browsers, three requests at a time.
SPECIFICATION MCSpec
CONSTANTS
    laptop = laptop
    phone = phone
    home = home
    cafe = cafe
    c1 = c1
    c2 = c2
    c3 = c3
    Browsers = {laptop, phone}
    Places = {home, cafe}
    Calls = {c1, c2, c3}
    MaxTokens = 2
    MaxLinks = 2
SYMMETRY Interchangeable
CONSTRAINT Told
INVARIANTS
    AuthTypeOK
    ResetEndsSessions
    SpentLinkIsRefused
    LastLinkOnly
    LoggedOutStaysOut
CHECK_DEADLOCK FALSE
