CONSTANTS
    DeviceSlots <- MCDeviceSlots
    MountSlots <- MCMountSlots
    RuntimeSlots <- MCRuntimeSlots
    Owners <- MCOwners
    MaxSectors = 2
    MaxUses = 2
    MaxClaims = 2
    MaxCounter = 6
    t1 = t1
    t2 = t2
SYMMETRY MCSymmetry
SPECIFICATION Spec
INVARIANTS
    TypeOK
    ClaimsDisjoint
    ClaimsExclusive
    RuntimeProtected
    BoundToLiveDevice
    HandlesUnique
PROPERTIES
    NoResurrection
    DrainMonotone
    TopologyVersioned
