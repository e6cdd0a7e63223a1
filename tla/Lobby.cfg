SPECIFICATION Spec
CONSTANTS
    None = None
    Server = Server
    ann = ann
    bob = bob
    Bob = Bob
    host = host
    other = other
    Clients = {host, other}
    Names = {ann, bob, Bob}
    Lower <- MCLower
    Codes = {k1}
    MaxUses = 2
    Attempts = 2
    LoginMax = 1
    RegisterMax = 2
    Window = 1
    Lifetime = 1
    MaxTime = 1
    MaxOps = 1
    MaxTables = 2
    MaxSpectators = 1
INVARIANTS
    DoorHolds
    
    
PROPERTIES
    DisabledStaysOut
    
CHECK_DEADLOCK FALSE
