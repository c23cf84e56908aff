SPECIFICATION FairSpec
CONSTANTS
    Units <- MCUnits
    Configs <- MCConfigs
    NoConfig <- MCNoConfig
    Ingress <- MCIngress
    NoUrl <- MCNoUrl
    UserPws <- MCUserPws
    InitialWorlds <- OnlyPassword
    InitialLeaders <- MCFirst
    Changes = {"user", "lead", "oauth"}
    MaxChanges = 2
    MaxRelations = 1
    MaxFaults = 0
    LeaseMayEnd = FALSE
PROPERTIES
    RotationReachesEveryUnit
    ClientConfigConverges
