\* One page each: the recipient leaves while the history is sent.
SPECIFICATION DeliverySpec
CONSTANTS
    alice = alice
    bob = bob
    aliceLaptop = aliceLaptop
    bobPhone = bobPhone
    a1 = a1
    a2 = a2
    b1 = b1
    b2 = b2
    Users = {alice, bob}
    Devices = {aliceLaptop, bobPhone}
    Sockets = {a1, b1}
    DeviceOf <- OnePageEach
    UserOf <- Owners
    MaxMessages = 1
PROPERTY ReadOnlyByOpenPage
CHECK_DEADLOCK FALSE
