SPECIFICATION FairSpec
CONSTANTS
    None = None
    Empty = Empty
    EndInNull = {p2}
    Units = {u1, u2}
    Leader = u1
    Hostnames = {h1}
    BadHostname = BadHostname
    DefaultName = DefaultName
    Mappings <- MCMappings
    Clients = {"kafka", "connect", "karapace"}
    Passwords = {p1, p2}
    OtherData <- MCOtherData
    OurId = 1
    OtherId = 0
    MaxChanges = 3
INVARIANTS
    TypeOK
    FileStandsAlone
    RestIsAsConfigured
PROPERTIES
    UsersAreServed
