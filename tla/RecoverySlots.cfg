CONSTANTS
    Packages <- MCPackages
    Boots <- MCBoots
    Installed <- MCInstalled
    Sessions <- MCOneSession
    Menu = "menu"
    Nobody = "nobody"
    MaxInstall = 1
SPECIFICATION Spec
INVARIANTS
    SlotsTypeOK
    AlwaysBootable
    PreviousProven
    ConfirmedWasStarted
    NeverWithoutFallback
    InstallPreserved
PROPERTIES
    RunningFallbackKept
    SuccessIsExact
