CONSTANTS
    Names <- MCNames
    Chains <- MCChains
    Nobody = "nobody"
    Clients <- MCClients
    Menu = "menu"
    Versions <- MCVersions
    MaxFaults = 4
SPECIFICATION Spec
INVARIANTS
    CacheTypeOK
    NoDangling
    ZipAlwaysValid
    AliasesJournaled
PROPERTIES
    ZipNeverLost
    WriteAhead
    BackupOutlivesExchange
    
    StartSettles
