\* Alice's page, Bob's page and another one of either, which come and go; Alice sends one
\* message.
SPECIFICATION DeliverySpec
CONSTANTS
    alice = alice
    bob = bob
    aliceLaptop = aliceLaptop
    bobPhone = bobPhone
    a1 = a1
    a2 = a2
    b1 = b1
    b2 = b2
    Users = {alice, bob}
    Devices = {aliceLaptop, bobPhone}
    Sockets = {a1, a2, b1, b2}
    DeviceOf <- Homes
    UserOf <- Owners
    MaxMessages = 1
CONSTRAINT OneStory
INVARIANTS
    NothingElseIsMissed
    RawHasCause
    OpenSocketsFullyListed
    DeliveryTypeOK
PROPERTY SavedMessagesArrive
CHECK_DEADLOCK FALSE
