SPECIFICATION Spec
CONSTANTS
    Units <- MCUnits
    Configs <- MCConfigs
    NoConfig <- MCNoConfig
    Ingress <- MCIngress
    NoUrl <- MCNoUrl
    UserPws <- MCUserPws
    InitialWorlds <- OnlyRoute
    InitialLeaders <- MCFirst
    Changes = {"cfg", "route", "lead"}
    MaxChanges = 2
    MaxRelations = 2
    MaxFaults = 1
    LeaseMayEnd = TRUE
INVARIANTS
    TypeOK
    FirstLeadersCache
    LoginHasPassword
