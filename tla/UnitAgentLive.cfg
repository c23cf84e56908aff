SPECIFICATION FairSpec
CONSTANTS
    CAs <- MCCAs
    NoCA <- MCNoCA
    ProviderCA <- MCProvider
    Sha256CAs <- MCSha256
    Data <- MCData
    Passwords <- MCPasswords
    Worlds <- LiveWorlds
    MaxChanges = 1
    MaxFaults = 0
    Faults = {}
PROPERTIES
    ConfigConverges
