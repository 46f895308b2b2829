CONSTANTS
    Packages <- MCTwoPackages
    Boots <- MCBoots
    Installed <- MCInstalled
    Sessions <- MCSessions
    Menu = "menu"
    Nobody = "nobody"
    MaxInstall = 0
SPECIFICATION Spec
INVARIANTS
    AlwaysBootable
    ConfirmedWasStarted
    NeverWithoutFallback
PROPERTIES
    SuccessIsExact
