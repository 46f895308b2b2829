CONSTANTS
    Names <- MCNames
    Chains <- MCChains
    Nobody = Nobody
    MaxFaults = 4
SPECIFICATION Spec
INVARIANTS
    TransitionTypeOK
    NoDangling
    TargetIntact
    NothingLost
    AliasesAreLegs
    ReplayNeverConflicts
    OutcomeExact
PROPERTIES
    EventuallySettled
