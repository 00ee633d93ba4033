\* One page each: a message falls between the history and the registration.
SPECIFICATION DeliverySpec
CONSTANTS
    alice = alice
    bob = bob
    aliceLaptop = aliceLaptop
    bobPhone = bobPhone
    a1 = a1
    a2 = a2
    b1 = b1
    b2 = b2
    Users = {alice, bob}
    Devices = {aliceLaptop, bobPhone}
    Sockets = {a1, b1}
    DeviceOf <- OnePageEach
    UserOf <- Owners
    MaxMessages = 1
INVARIANT LiveOrHistory
CHECK_DEADLOCK FALSE
